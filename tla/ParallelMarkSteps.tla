------------------------- MODULE ParallelMarkSteps -------------------------
(***************************************************************************)
(* The invariants of parallel marking, and what each step of a worker does *)
(* to what is gray, marked and delayed, and to where the workers are.  A   *)
(* worker that waits in a Sync which the others have completed counts as   *)
(* being past it (Now); seen like this the barrier moves all workers at    *)
(* once, and between two barriers all of them are in the same section of   *)
(* the code.  ParallelMarkProofs adds the steps of the barrier itself, the *)
(* counts, and the theorems.                                               *)
(***************************************************************************)
EXTENDS ParallelMark, TLAPS

-----------------------------------------------------------------------------
(* The sections of RunEnteredIsolateGroup between two barriers, and the    *)
(* locations of a worker that takes no part.                               *)
Working == {"launch", "start", "roots", "deferred", "first", "first_weak", "drain",
            "weak", "again", "idle", "waiting", "stopped"}

Checking == {"check", "checked"}

Pending == {"begin_pending", "pending", "announce", "announced"}

Deciding == {"decide", "decided"}

Deferring == {"deferred2", "marked"}

Mourning == {"mourn", "weak_roots", "end"}

Ended == {"release", "finalize", "done"}

Outside == {"none", "queued", "release", "gone"}

Sections == {Working, Checking, Pending, Deciding, Deferring, Mourning, Ended}

Loc == (UNION Sections) \cup Outside

BarrierLoc == {"stopped", "checked", "announced", "decided", "marked", "end"}

(* Where Sync leads a worker.                                              *)
After(w) ==
  IF pc[w] = "stopped" THEN IF debug THEN "check" ELSE "begin_pending"
  ELSE IF pc[w] = "checked" THEN "begin_pending"
  ELSE IF pc[w] = "announced" THEN "decide"
  ELSE IF pc[w] = "decided" THEN IF more_to_mark[w] THEN "first" ELSE "deferred2"
  ELSE IF pc[w] = "marked" THEN "mourn"
  ELSE "release"

(* The barrier has opened and the worker has not left Sync yet.            *)
Released(w) == arrived[w] \notin {-1, barrier.generation}

Now(w) == IF Released(w) THEN After(w) ELSE pc[w]

Part == {w \in Worker : Now(w) \notin Outside \cup Ended}

Expected == {w \in Part : arrived[w] # barrier.generation}

BusyWorkers == {w \in Worker : Busy(w)}

Left == {w \in Worker : pc[w] \in {"gone", "finalize", "done"}}

-----------------------------------------------------------------------------
(* The inductive invariant of this module.                                 *)

SyncTypes ==
  /\ pc \in [Worker -> Loc]
  /\ arrived \in [Worker -> Int]
  /\ barrier \in [ref_count : Int, participating : Int, remaining : Int,
                  generation : Nat]
  /\ more_to_mark \in [Worker -> BOOLEAN]
  /\ debug \in BOOLEAN
  /\ num_busy \in Int

(* A worker waits in the current round of the barrier or in the last one.  *)
ArrivedAt(w) ==
  /\ arrived[w] \in {-1, barrier.generation - 1, barrier.generation}
  /\ arrived[w] # -1 => pc[w] \in BarrierLoc
  /\ w = Main => pc[w] \notin {"none", "queued", "gone"}
  /\ w # Main => pc[w] \notin {"launch", "finalize", "done"}
  /\ pc[w] = "none" => pc[Main] = "launch"
  /\ pc[w] = "end" /\ Released(w) => Now(Main) \in Ended

Together ==
  \E S \in Sections : Now(Main) \in S /\ \A w \in Worker : Now(w) \in S \cup Outside

CountInv ==
  /\ Main \in Part => /\ barrier.participating = Cardinality(Part)
                      /\ barrier.remaining = Cardinality(Expected)
  /\ barrier.participating \in 1..NumTasks /\ barrier.remaining \in 1..NumTasks
  /\ barrier.ref_count = NumTasks - Cardinality(Left)
  /\ barrier.generation = 0 => Now(Main) \in Working

BusyInv ==
  /\ num_busy = Cardinality(BusyWorkers)
  /\ \A w \in Worker :
       /\ pc[w] = "announce" => more_to_mark[w]
       /\ Now(w) = "decided" /\ ~more_to_mark[w] => BusyWorkers = {}

BarrierInv ==
  SyncTypes /\ (\A w \in Worker : ArrivedAt(w)) /\ Together /\ CountInv /\ BusyInv

-----------------------------------------------------------------------------
(* Facts about the sections.                                               *)

LEMMA MainIsWorker == Main \in Worker
BY TasksAssumption DEF Main, Worker

LEMMA SectionFacts ==
    /\ \A S \in Sections : S \subseteq Loc
    /\ Outside \subseteq Loc /\ BarrierLoc \subseteq Loc
    /\ \A S, T \in Sections : S # T => S \cap T = {}
    /\ \A S \in Sections : S # Ended => S \cap Outside = {}
    /\ \A S \in Sections : \A a, b \in S \cap BarrierLoc : a = b
    /\ BarrierLoc \cap (Outside \cup Ended) = {}
    /\ Loc = (UNION Sections) \cup Outside
<1> USE Zenon
<1>2. Outside \subseteq Loc BY DEF Loc
<1>8. Loc = (UNION Sections) \cup Outside BY DEF Loc
<1> USE DEF Sections, Working, Checking, Pending, Deciding, Deferring, Mourning, Ended,
            Outside, BarrierLoc
<1>1. \A S \in Sections : S \subseteq Loc BY DEF Loc
<1>3. \A S, T \in Sections : S # T => S \cap T = {} BY SMT
<1>4. \A S \in Sections : S # Ended => S \cap Outside = {} OBVIOUS
<1>5. \A S \in Sections : \A a, b \in S \cap BarrierLoc : a = b BY SMT
<1>6. BarrierLoc \cap (Outside \cup Ended) = {} OBVIOUS
<1>7. BarrierLoc \subseteq Loc BY <1>1
<1> QED BY <1>1, <1>2, <1>3, <1>4, <1>5, <1>6, <1>7, <1>8

\* Where Sync leads.
LEMMA AfterFacts ==
    ASSUME NEW w \in Worker, pc[w] \in BarrierLoc
    PROVE  /\ After(w) \in Loc \ BarrierLoc
           /\ pc[w] = "stopped" => After(w) \in Checking \cup Pending
           /\ pc[w] = "checked" => After(w) \in Pending
           /\ pc[w] = "announced" => After(w) \in Deciding
           /\ pc[w] = "decided" => After(w) \in IF more_to_mark[w] THEN Working
                                                ELSE Deferring
           /\ pc[w] = "marked" => After(w) \in Mourning
           /\ pc[w] = "end" => After(w) = "release"
           /\ pc[w] # "end" => After(w) \notin Outside \cup Ended
           /\ After(w) \notin {"launch", "none", "queued", "gone", "finalize", "done",
                               "waiting", "decided"}
BY Zenon DEF After, BarrierLoc, Loc, Sections, Working, Checking, Pending, Deciding, Deferring,
       Mourning, Ended, Outside

\* A step outside of Sync moves its worker and no other one.
LEMMA StepNow ==
    ASSUME BarrierInv, NEW w \in Worker, NEW x \in Loc, pc[w] \notin BarrierLoc,
           pc' = [pc EXCEPT ![w] = x], UNCHANGED <<arrived, debug>>,
           barrier'.generation = barrier.generation,
           \A v \in Worker \ {w} : more_to_mark'[v] = more_to_mark[v]
    PROVE  /\ arrived[w] = -1 /\ Now(w) = pc[w] /\ Now(w)' = x
           /\ \A v \in Worker \ {w} : Now(v)' = Now(v) /\ pc'[v] = pc[v]
<1> USE Zenon
<1>1. arrived[w] = -1 BY DEF BarrierInv, ArrivedAt
<1>2. pc \in [Worker -> Loc] BY DEF BarrierInv, SyncTypes
<1>3. Now(w) = pc[w] /\ Now(w)' = x BY <1>1, <1>2 DEF Now, Released
<1>4. ASSUME NEW v \in Worker \ {w} PROVE Now(v)' = Now(v) /\ pc'[v] = pc[v]
  BY <1>2 DEF Now, Released, After
<1> QED BY <1>1, <1>3, <1>4

BusyLoc == {"roots", "deferred", "first", "first_weak", "drain", "weak", "again", "idle"}

-----------------------------------------------------------------------------
(* What is known of finite sets; ParallelMarkProofs takes it from the      *)
(* library of the proof system.                                            *)

CardinalityFacts ==
  /\ IsFiniteSet(Worker) /\ Cardinality(Worker) = NumTasks
  /\ Cardinality({}) = 0
  /\ \A S : IsFiniteSet(S) => Cardinality(S) \in Nat /\ (Cardinality(S) = 0 <=> S = {})
  /\ \A x : Cardinality({x}) = 1
  /\ \A S : IsFiniteSet(S) /\ Cardinality(S) = 1 => \E x : S = {x}
  /\ \A S, x : IsFiniteSet(S) =>
       /\ x \notin S => Cardinality(S \cup {x}) = Cardinality(S) + 1
       /\ x \in S => Cardinality(S \ {x}) = Cardinality(S) - 1
  /\ \A S : \A T \in SUBSET S :
       IsFiniteSet(S) => IsFiniteSet(T) /\ Cardinality(T) <= Cardinality(S)

LEMMA CardSmall ==
    ASSUME CardinalityFacts
    PROVE  /\ Cardinality({}) = 0 /\ \A x : Cardinality({x}) = 1
           /\ \A S : IsFiniteSet(S) => (Cardinality(S) = 0 <=> S = {})
           /\ \A S : IsFiniteSet(S) /\ Cardinality(S) = 1 => \E x : S = {x}
BY Zenon DEF CardinalityFacts

LEMMA CardChange ==
    ASSUME CardinalityFacts, NEW S, IsFiniteSet(S), NEW x
    PROVE  /\ x \notin S => Cardinality(S \cup {x}) = Cardinality(S) + 1
           /\ x \in S => Cardinality(S \ {x}) = Cardinality(S) - 1
BY Zenon DEF CardinalityFacts

LEMMA FiniteWorkers ==
    ASSUME CardinalityFacts, NEW S \in SUBSET Worker
    PROVE  IsFiniteSet(S) /\ Cardinality(S) \in 0..NumTasks
<1>1. /\ IsFiniteSet(Worker) /\ Cardinality(Worker) = NumTasks
      /\ IsFiniteSet(S) /\ Cardinality(S) <= Cardinality(Worker)
  BY Zenon DEF CardinalityFacts
<1>2. Cardinality(S) \in Nat BY <1>1, Zenon DEF CardinalityFacts
<1> QED BY <1>1, <1>2, TasksAssumption

\* The calls of Sync: `next' is where the code goes on after it.
LEMMA SyncIsAfter ==
    ASSUME NEW w \in Worker,
           \/ SyncAt(w, "stopped", IF debug THEN "check" ELSE "begin_pending")
           \/ SyncAt(w, "checked", "begin_pending")
           \/ SyncAt(w, "announced", "decide")
           \/ SyncAt(w, "decided", IF more_to_mark[w] THEN "first" ELSE "deferred2")
           \/ SyncAt(w, "marked", "mourn")
           \/ SyncAt(w, "end", "release")
    PROVE  /\ pc[w] \in BarrierLoc
           /\ Sync(w, After(w))
           /\ UNCHANGED <<num_busy, asleep, blockVars, heapVars, workVars, sliceVars>>
<1> USE Zenon
<1> USE DEF SyncAt, BarrierLoc, After
<1>1. CASE SyncAt(w, "stopped", IF debug THEN "check" ELSE "begin_pending") BY <1>1
<1>2. CASE SyncAt(w, "checked", "begin_pending") BY <1>2
<1>3. CASE SyncAt(w, "announced", "decide") BY <1>3
<1>4. CASE SyncAt(w, "decided", IF more_to_mark[w] THEN "first" ELSE "deferred2") BY <1>4
<1>5. CASE SyncAt(w, "marked", "mourn") BY <1>5
<1>6. CASE SyncAt(w, "end", "release") BY <1>6
<1> QED BY <1>1, <1>2, <1>3, <1>4, <1>5, <1>6

\* What Sync does to a worker that is not the last: nobody moves.
LEMMA SyncStays ==
    ASSUME CardinalityFacts, BarrierInv, NEW w \in Worker, pc[w] \in BarrierLoc,
           UNCHANGED <<debug, more_to_mark>>,
           \/ /\ arrived[w] = -1
              /\ barrier.remaining # 1
              /\ barrier' = [barrier EXCEPT !.remaining = @ - 1]
              /\ arrived' = [arrived EXCEPT ![w] = barrier.generation]
              /\ UNCHANGED pc
           \/ /\ arrived[w] \notin {-1, barrier.generation}
              /\ arrived' = [arrived EXCEPT ![w] = -1]
              /\ pc' = [pc EXCEPT ![w] = After(w)]
              /\ UNCHANGED barrier
    PROVE  /\ \A v \in Worker : Now(v)' = Now(v) /\ ArrivedAt(v)'
           /\ Together' /\ CountInv'
<1> USE Zenon
<1> USE MainIsWorker
<1>0. /\ pc \in [Worker -> Loc] /\ arrived \in [Worker -> Int]
      /\ barrier \in [ref_count : Int, participating : Int, remaining : Int,
                       generation : Nat]
      /\ \A v \in Worker : ArrivedAt(v)
  BY DEF BarrierInv, SyncTypes
<1>1. ASSUME NEW v \in Worker PROVE Now(v)' = Now(v)
  <2>1. CASE v # w BY <1>0, <2>1 DEF Now, Released, After
  <2>2. CASE v = w
    BY <1>0, <2>2, AfterFacts DEF Now, Released
  <2> QED BY <2>1, <2>2
<1>2. ASSUME NEW v \in Worker PROVE ArrivedAt(v)'
  <2>0. ArrivedAt(v) /\ Now(Main)' = Now(Main) BY <1>0, <1>1
  <2>1. CASE v # w
    <3>1. Released(v)' <=> Released(v) BY <1>0, <2>1 DEF Released
    <3>2. pc[v]' = pc[v] /\ arrived[v]' = arrived[v]
          /\ barrier'.generation = barrier.generation
      BY <1>0, <2>1
    <3>3. pc'[Main] = "launch" <=> pc[Main] = "launch"
      BY <1>0, AfterFacts DEF BarrierLoc
    <3> QED BY <2>0, <2>1, <3>1, <3>2, <3>3, AfterFacts DEF ArrivedAt
  <2>2. CASE v = w
    BY <1>0, <2>0, <2>2, AfterFacts, SMT DEF ArrivedAt, BarrierLoc, Released
  <2> QED BY <2>1, <2>2
<1>3. Together' BY <1>1, SMT DEF BarrierInv, Together
<1>4. Part' = Part BY <1>1 DEF Part
<1>5. Left' = Left BY <1>0, AfterFacts DEF Left, BarrierLoc
<1>6. CASE /\ arrived[w] \notin {-1, barrier.generation} /\ barrier' = barrier
           /\ arrived' = [arrived EXCEPT ![w] = -1]
  <2>1. Expected' = Expected
    BY <1>0, <1>4, <1>6, SMT DEF Expected, ArrivedAt
  <2> QED BY <1>1, <1>2, <1>3, <1>4, <1>5, <1>6, <2>1 DEF BarrierInv, CountInv
<1>7. CASE /\ arrived[w] = -1 /\ barrier.remaining # 1 /\ pc' = pc
           /\ barrier' = [barrier EXCEPT !.remaining = @ - 1]
           /\ arrived' = [arrived EXCEPT ![w] = barrier.generation]
  <2>1. Now(w) = pc[w] BY <1>7 DEF Now, Released
  <2>2. w \in Part BY <2>1, SectionFacts, SMT DEF Part
  <2>3. Main \in Part
    <3>1. PICK S \in Sections :
            Now(Main) \in S /\ \A v \in Worker : Now(v) \in S \cup Outside
      BY DEF BarrierInv, Together
    <3>2. S # Ended BY <2>2, <3>1 DEF Part
    <3> QED BY <3>1, <3>2, SectionFacts, SMT DEF Part, Sections
  <2>4. Expected' = Expected \ {w} /\ w \in Expected
    BY <1>0, <1>4, <1>7, <2>2, SMT DEF Expected
  <2>5. IsFiniteSet(Expected) /\ Cardinality(Expected) \in 0..NumTasks
    BY FiniteWorkers DEF Expected, Part
  <2>6. Cardinality(Expected') = Cardinality(Expected) - 1
    BY <2>4, <2>5, CardChange
  <2>7. /\ barrier'.remaining = barrier.remaining - 1
        /\ barrier'.participating = barrier.participating
        /\ barrier'.generation = barrier.generation
        /\ barrier'.ref_count = barrier.ref_count
    BY <1>0, <1>7
  <2>8. barrier'.remaining \in 1..NumTasks
    BY <1>7, <2>3, <2>7, TasksAssumption, SMT DEF BarrierInv, CountInv
  <2> QED BY <1>1, <1>2, <1>3, <1>4, <1>5, <2>3, <2>6, <2>7, <2>8
          DEF BarrierInv, CountInv
<1> QED BY <1>1, <1>2, <1>3, <1>6, <1>7

\* All that take part in the barrier.
LEMMA MainTakesPart ==
    ASSUME BarrierInv, NEW w \in Part
    PROVE  Main \in Part
<1>1. PICK S \in Sections :
        Now(Main) \in S /\ \A v \in Worker : Now(v) \in S \cup Outside
  BY Zenon DEF BarrierInv, Together
<1>2. S # Ended BY <1>1, Zenon DEF Part
<1> QED BY <1>1, <1>2, SectionFacts, MainIsWorker DEF Part, Sections

\* Two that take part are in the same section.
LEMMA SameSection ==
    ASSUME BarrierInv, NEW v \in Part, NEW w \in Part, NEW S \in Sections, Now(v) \in S
    PROVE  Now(w) \in S
<1>1. PICK T \in Sections :
        Now(Main) \in T /\ \A u \in Worker : Now(u) \in T \cup Outside
  BY Zenon DEF BarrierInv, Together
<1>2. Now(v) \in T /\ Now(w) \in T BY <1>1, Zenon DEF Part
<1> QED BY <1>1, <1>2, SectionFacts

\* The last one that arrives opens the barrier: all the others wait at the same
\* Sync.
LEMMA LastArrives ==
    ASSUME CardinalityFacts, BarrierInv, NEW w \in Worker, pc[w] \in BarrierLoc,
           arrived[w] = -1, barrier.remaining = 1
    PROVE  /\ w \in Part /\ Now(w) = pc[w]
           /\ \A v \in Part : /\ v # w => arrived[v] = barrier.generation
                               /\ pc[v] = pc[w] /\ Now(v) = pc[w]
           /\ \A v \in Worker \ Part : arrived[v] = -1
           /\ \A v \in Part : pc[w] = "decided" => more_to_mark[v] = more_to_mark[w]
<1> USE Zenon
<1>0. /\ \A v \in Worker : ArrivedAt(v)
      /\ barrier.generation \in Nat /\ arrived \in [Worker -> Int]
      /\ more_to_mark \in [Worker -> BOOLEAN]
  BY DEF BarrierInv, SyncTypes
<1>1. Now(w) = pc[w] BY DEF Now, Released
<1>2. w \in Part BY <1>1, SectionFacts, SMT DEF Part
<1>3. Main \in Part BY <1>2, MainTakesPart
<1>4. Cardinality(Expected) = 1 /\ IsFiniteSet(Expected)
  BY <1>3, FiniteWorkers DEF BarrierInv, CountInv, Expected, Part
<1>5. w \in Expected BY <1>0, <1>2, SMT DEF Expected
<1>6. Expected = {w}
  <2>1. PICK x : Expected = {x} BY <1>4, CardSmall
  <2> QED BY <1>5, <2>1
<1>7. ASSUME NEW v \in Part, v # w PROVE arrived[v] = barrier.generation
  BY <1>6, <1>7 DEF Expected
<1>8. ASSUME NEW v \in Part PROVE pc[v] = pc[w] /\ Now(v) = pc[w]
  <2>1. CASE v = w BY <1>1, <2>1
  <2>2. CASE v # w
    <3>1. pc[v] \in BarrierLoc BY <1>0, <1>7, <2>2, SMT DEF ArrivedAt, Part
    <3>2. Now(v) = pc[v] BY <1>7, <2>2 DEF Now, Released
    <3>3. PICK S \in Sections : pc[w] \in S
      BY <1>1, <1>2 DEF BarrierInv, Together, Part
    <3>4. pc[v] \in S BY <1>1, <1>2, <3>2, <3>3, SameSection, SMT
    <3> QED BY <3>1, <3>2, <3>3, <3>4, SectionFacts, SMT
  <2> QED BY <2>1, <2>2
<1>9. ASSUME NEW v \in Worker \ Part PROVE arrived[v] = -1
  <2>1. SUFFICES ASSUME arrived[v] # -1 PROVE FALSE OBVIOUS
  <2>2. pc[v] \in BarrierLoc BY <1>0, <2>1 DEF ArrivedAt
  <2>3. Released(v) BY <2>2, SectionFacts, SMT DEF Part, Now
  <2>4. PICK S \in Sections :
          Now(Main) \in S /\ \A u \in Worker : Now(u) \in S \cup Outside
    BY DEF BarrierInv, Together
  <2>5. pc[v] = "end" BY <2>2, <2>3, AfterFacts DEF Part, Now
  <2> QED BY <1>0, <1>3, <2>3, <2>5, SMT DEF ArrivedAt, Part
<1>10. ASSUME NEW v \in Part, pc[w] = "decided"
       PROVE  more_to_mark[v] = more_to_mark[w]
  <2>1. pc[v] = "decided" /\ Now(v) = "decided" /\ Now(w) = "decided" BY <1>1, <1>8, <1>10
  <2>2. v \in Worker BY DEF Part
  <2>3. ~more_to_mark[v] => ~Busy(w) BY <2>1, <2>2 DEF BarrierInv, BusyInv, BusyWorkers
  <2>4. ~more_to_mark[w] => ~Busy(v) BY <2>1, <2>2 DEF BarrierInv, BusyInv, BusyWorkers
  <2> QED BY <1>0, <1>10, <2>1, <2>2, <2>3, <2>4, SMT DEF Busy
<1> QED BY <1>1, <1>2, <1>7, <1>8, <1>9, <1>10

\* The barrier opens: all that take part move on together.
LEMMA SyncOpens ==
    ASSUME CardinalityFacts, BarrierInv, NEW w \in Worker, pc[w] \in BarrierLoc,
           UNCHANGED <<debug, more_to_mark, arrived>>,
           arrived[w] = -1, barrier.remaining = 1,
           barrier' = [barrier EXCEPT !.generation = @ + 1,
                                      !.remaining = barrier.participating],
           pc' = [pc EXCEPT ![w] = After(w)]
    PROVE  /\ \A v \in Part : After(v) = After(w) /\ Now(v)' = After(w)
           /\ \A v \in Worker \ Part : Now(v)' = Now(v)
           /\ \A v \in Worker : ArrivedAt(v)'
           /\ Together' /\ CountInv'
<1> USE Zenon
<1> USE MainIsWorker
<1>0. /\ pc \in [Worker -> Loc] /\ arrived \in [Worker -> Int]
      /\ barrier \in [ref_count : Int, participating : Int, remaining : Int,
                      generation : Nat]
      /\ \A v \in Worker : ArrivedAt(v)
  BY DEF BarrierInv, SyncTypes
<1>1. /\ w \in Part /\ Now(w) = pc[w]
      /\ \A v \in Part : /\ v # w => arrived[v] = barrier.generation
                         /\ pc[v] = pc[w] /\ Now(v) = pc[w]
      /\ \A v \in Worker \ Part : arrived[v] = -1
      /\ \A v \in Part : pc[w] = "decided" => more_to_mark[v] = more_to_mark[w]
  BY LastArrives, SMT
<1>2. Main \in Part BY <1>1, MainTakesPart
<1>3. /\ barrier'.generation = barrier.generation + 1
      /\ barrier'.remaining = barrier.participating
      /\ barrier'.participating = barrier.participating
      /\ barrier'.ref_count = barrier.ref_count
      /\ barrier.generation \in Nat
  BY <1>0
<1>4. ASSUME NEW v \in Part PROVE After(v) = After(w) /\ Now(v)' = After(w)
  <2>1. After(v) = After(w) BY <1>1 DEF After
  <2>2. v \in Worker BY DEF Part
  <2>3. CASE v = w BY <1>0, <1>3, <2>3 DEF Now, Released
  <2>4. CASE v # w
    <3>1. pc'[v] = pc[v] /\ Released(v)' BY <1>0, <1>1, <1>3, <2>2, <2>4, SMT DEF Released
    <3>2. After(v)' = After(v) BY <3>1 DEF After
    <3> QED BY <2>1, <3>1, <3>2 DEF Now
  <2> QED BY <2>1, <2>3, <2>4
<1>5. ASSUME NEW v \in Worker \ Part PROVE Now(v)' = Now(v)
  <2>1. pc'[v] = pc[v] BY <1>0, <1>1
  <2> QED BY <1>1, <1>3, <2>1 DEF Now, Released
<1>6. ASSUME NEW v \in Worker PROVE ArrivedAt(v)'
  <2>0. ArrivedAt(v) BY <1>0
  <2>1. arrived[v] \in {-1, barrier.generation} BY <1>1
  <2>2. arrived'[v] \in {-1, barrier'.generation - 1, barrier'.generation}
    BY <1>3, <2>1, SMT
  <2>3. pc'[v] = "end" /\ Released(v)' => Now(Main)' \in Ended
    <3> SUFFICES ASSUME pc'[v] = "end", Released(v)' PROVE Now(Main)' \in Ended
      OBVIOUS
    <3>1. v \in Part BY <1>1 DEF Released
    <3>2. pc[v] = "end" BY <1>0, <1>1, <3>1, AfterFacts DEF BarrierLoc
    <3>3. After(w) = "release" BY <1>1, <3>1, <3>2, AfterFacts
    <3> QED BY <1>2, <1>4, <3>3 DEF Ended
  <2>4. CASE v = w
    <3>1. pc'[w] = After(w) BY <1>0
    <3> QED BY <1>0, <2>0, <2>2, <2>3, <2>4, <3>1, AfterFacts, SMT DEF ArrivedAt
  <2>5. CASE v # w
    <3>1. pc'[v] = pc[v] BY <1>0, <2>5
    <3>2. pc[Main] # "launch"
      BY <1>1, <1>2 DEF BarrierLoc
    <3>3. pc[v] # "none" BY <2>0, <3>2 DEF ArrivedAt
    <3> QED BY <2>0, <2>2, <2>3, <3>1, <3>3, SMT DEF ArrivedAt
  <2> QED BY <2>4, <2>5
<1>7. Together'
  <2>1. PICK S \in Sections : After(w) \in S
    BY <1>1, AfterFacts DEF Sections, BarrierLoc, Ended
  <2>2. Now(Main)' \in S BY <1>2, <1>4, <2>1
  <2>3. ASSUME NEW v \in Worker PROVE Now(v)' \in S \cup Outside
    <3>1. CASE v \in Part BY <1>4, <2>1, <3>1
    <3>2. CASE v \notin Part
      <4>1. Now(v)' = Now(v) /\ Now(v) \in Outside \cup Ended BY <1>5, <3>2 DEF Part
      <4>2. PICK T \in Sections :
              Now(Main) \in T /\ \A u \in Worker : Now(u) \in T \cup Outside
        BY DEF BarrierInv, Together
      <4>3. T # Ended BY <1>2, <4>2 DEF Part
      <4> QED BY <4>1, <4>2, <4>3, SectionFacts, SMT DEF Sections
    <3> QED BY <3>1, <3>2
  <2> QED BY <2>2, <2>3 DEF Together
<1>8. CountInv'
  <2>1. Left' = Left BY <1>0, AfterFacts DEF Left, BarrierLoc
  <2>2. CASE pc[w] = "end"
    <3>1. Now(Main)' = "release" BY <1>2, <1>4, <2>2, AfterFacts
    <3>2. Main \notin Part' BY <3>1 DEF Part, Ended
    <3> QED BY <1>3, <2>1, <3>2, SMT DEF CountInv, BarrierInv
  <2>3. CASE pc[w] # "end"
    <3>1. After(w) \notin Outside \cup Ended BY <2>3, AfterFacts
    <3>2. Part' = Part BY <1>4, <1>5, <3>1 DEF Part
    <3>3. Expected' = Part'
      BY <1>1, <1>3, <3>2, SMT DEF Expected
    <3> QED BY <1>2, <1>3, <2>1, <3>2, <3>3, SMT DEF CountInv, BarrierInv
  <2> QED BY <2>2, <2>3
<1> QED BY <1>4, <1>5, <1>6, <1>7, <1>8, SMT

\* num_busy is at least 1 when a worker is busy.
LEMMA BusyPositive ==
    ASSUME CardinalityFacts, BarrierInv
    PROVE  /\ num_busy \in 0..NumTasks
           /\ num_busy = 0 <=> \A w \in Worker : ~Busy(w)
<1> USE Zenon
<1>1. IsFiniteSet(BusyWorkers) /\ Cardinality(BusyWorkers) \in 0..NumTasks
  BY FiniteWorkers DEF BusyWorkers
<1>2. Cardinality(BusyWorkers) = 0 <=> BusyWorkers = {} BY <1>1, CardSmall
<1> QED BY <1>1, <1>2 DEF BarrierInv, BusyInv, BusyWorkers

\* A worker at one of these locations, and all that take part.
LEMMA AllInSection ==
    ASSUME BarrierInv, NEW w \in Worker, NEW S \in Sections \ {Ended},
           pc[w] \in S, pc[w] \notin BarrierLoc
    PROVE  /\ Now(Main) \in S
           /\ \A v \in Worker : Now(v) \in S \cup Outside
<1>1. PICK T \in Sections :
        Now(Main) \in T /\ \A v \in Worker : Now(v) \in T \cup Outside
  BY Zenon DEF BarrierInv, Together
<1>2. arrived[w] = -1 BY Zenon DEF BarrierInv, ArrivedAt
<1>3. Now(w) = pc[w] BY <1>2, Zenon DEF Now, Released
<1>4. Now(w) \in S \cap T BY <1>1, <1>3, SectionFacts
<1>5. S = T BY <1>4, SectionFacts
<1> QED BY <1>1, <1>5, Zenon

-----------------------------------------------------------------------------
(* The invariant holds always.                                             *)

LEMMA BarrierInit == ASSUME CardinalityFacts, Init PROVE BarrierInv
<1> USE Zenon
<1> USE MainIsWorker, TasksAssumption DEF Init, ShareInit
<1>1. /\ pc \in [Worker -> Loc]
      /\ arrived \in [Worker -> Int] /\ debug \in BOOLEAN
      /\ barrier \in [ref_count : Int, participating : Int, remaining : Int,
                      generation : Nat]
      /\ more_to_mark \in [Worker -> BOOLEAN] /\ num_busy \in Int
  <2>1. "launch" \in Loc /\ "none" \in Loc BY DEF Loc, Sections, Working, Outside
  <2> QED BY <2>1, BuildsAssumption, SMT
<1>2. \A w \in Worker : ~Released(w) /\ Now(w) = IF w = Main THEN "launch" ELSE "none"
  BY DEF Now, Released
<1>3. "launch" \in Working /\ "launch" \notin Outside \cup Ended /\ "none" \in Outside
  BY DEF Working, Outside, Ended
<1>4. Together BY <1>2, <1>3 DEF Together, Sections
<1>5. Part = {Main} BY <1>2, <1>3 DEF Part
<1>6. Expected = {Main} BY <1>5, SMT DEF Expected
<1>7. Left = {} BY DEF Left
<1>8. BusyWorkers = {} BY DEF BusyWorkers, Busy
<1>9. Cardinality({Main}) = 1 BY CardSmall
<1>10. Cardinality({}) = 0 BY CardSmall
<1>11. CountInv BY <1>2, <1>3, <1>5, <1>6, <1>7, <1>9, <1>10, SMT DEF CountInv
<1>12. BusyInv BY <1>2, <1>8, <1>10 DEF BusyInv
<1>13. \A w \in Worker : ArrivedAt(w) BY <1>2 DEF ArrivedAt
<1> QED BY <1>1, <1>4, <1>11, <1>12, <1>13 DEF BarrierInv, SyncTypes

LEMMA BarrierNext == ASSUME CardinalityFacts, BarrierInv, [Next]_vars PROVE BarrierInv'
\* A step inside a section.
<1> USE Zenon
<1>MoveWithin.
      ASSUME BarrierInv, NEW w \in Worker, NEW x \in Loc, pc[w] \notin BarrierLoc,
             pc[w] \notin Outside \cup Ended, x \notin Outside \cup Ended,
             pc' = [pc EXCEPT ![w] = x],
             \A S \in Sections : pc[w] \in S => x \in S,
             pc[w] = "launch" => \A v \in Worker : pc[v] # "none",
             x # "launch", UNCHANGED <<arrived, debug, barrier>>,
             \A v \in Worker \ {w} : more_to_mark'[v] = more_to_mark[v]
      PROVE  (\A v \in Worker : ArrivedAt(v)') /\ Together' /\ CountInv'
  <2> USE <1>MoveWithin
  <2>1. /\ arrived[w] = -1 /\ Now(w) = pc[w] /\ Now(w)' = x
        /\ \A v \in Worker \ {w} : Now(v)' = Now(v) /\ pc'[v] = pc[v]
    BY StepNow
  <2>2. ASSUME NEW v \in Worker PROVE ArrivedAt(v)'
    <3>1. ArrivedAt(v) BY DEF BarrierInv
    <3>2. Released(v)' <=> Released(v) BY DEF Released
    <3>3. Now(Main) \in Ended => Now(Main)' \in Ended BY <2>1, MainIsWorker
    <3>4. CASE v = w
      BY <2>1, <3>1, <3>4, MainIsWorker DEF BarrierInv, ArrivedAt, SyncTypes, Outside, Ended,
         Released
    <3>5. CASE v # w
      BY <2>1, <3>1, <3>2, <3>3, <3>5, MainIsWorker
         DEF BarrierInv, ArrivedAt, SyncTypes, Outside, Ended
    <3> QED BY <3>4, <3>5
  <2>3. Together'
    <3>1. PICK S \in Sections :
            Now(Main) \in S /\ \A v \in Worker : Now(v) \in S \cup Outside
      BY DEF BarrierInv, Together
    <3>2. x \in S BY <2>1, <3>1
    <3>3. Now(Main)' \in S /\ \A v \in Worker : Now(v)' \in S \cup Outside
      BY <2>1, <3>1, <3>2, MainIsWorker
    <3> QED BY <3>3 DEF Together
  <2>4. Part' = Part BY <2>1 DEF Part
  <2>5. Expected' = Expected BY <2>4 DEF Expected
  <2>6. Left' = Left BY <2>1, SMT DEF Left, Outside, Ended
  <2>7. Now(Main) \in Working => Now(Main)' \in Working
    BY <2>1, MainIsWorker DEF Sections
  <2> QED BY <2>2, <2>3, <2>4, <2>5, <2>6, <2>7 DEF BarrierInv, CountInv
\* num_busy.
<1>BusySame.
      ASSUME BarrierInv, \A v \in Worker : Busy(v)' <=> Busy(v), num_busy' = num_busy,
             \A v \in Worker : Now(v)' = "decided" /\ ~more_to_mark'[v]
                                 => Now(v) = "decided" /\ ~more_to_mark[v],
             \A v \in Worker : pc'[v] = "announce" => more_to_mark'[v]
      PROVE  BusyInv'
  <2> USE <1>BusySame
  <2>1. BusyWorkers' = BusyWorkers BY DEF BusyWorkers
  <2> QED BY <2>1 DEF BarrierInv, BusyInv
<1>BusyMore.
      ASSUME BarrierInv, NEW w \in Worker, ~Busy(w), Busy(w)',
             \A v \in Worker \ {w} : Busy(v)' <=> Busy(v), num_busy' = num_busy + 1,
             \A v \in Worker : Now(v)' = "decided" => more_to_mark'[v],
             \A v \in Worker : pc'[v] = "announce" => more_to_mark'[v]
      PROVE  BusyInv'
  <2> USE <1>BusyMore
  <2>1. BusyWorkers' = BusyWorkers \cup {w} /\ w \notin BusyWorkers BY DEF BusyWorkers
  <2>2. Cardinality(BusyWorkers') = Cardinality(BusyWorkers) + 1
    BY <2>1, FiniteWorkers, CardChange DEF BusyWorkers
  <2> QED BY <2>1, <2>2 DEF BarrierInv, BusyInv
<1>BusyLess.
      ASSUME BarrierInv, NEW w \in Worker, Busy(w), ~Busy(w)',
             \A v \in Worker \ {w} : Busy(v)' <=> Busy(v), num_busy' = num_busy - 1,
             \A v \in Worker : Now(v)' = "decided" => Now(v) = "decided"
                                                   /\ more_to_mark'[v] = more_to_mark[v],
             \A v \in Worker : pc'[v] = "announce" => more_to_mark'[v]
      PROVE  BusyInv'
  <2> USE <1>BusyLess
  <2>1. BusyWorkers' = BusyWorkers \ {w} /\ w \in BusyWorkers BY DEF BusyWorkers
  <2>2. Cardinality(BusyWorkers') = Cardinality(BusyWorkers) - 1
    BY <2>1, FiniteWorkers, CardChange DEF BusyWorkers
  <2> QED BY <2>1, <2>2 DEF BarrierInv, BusyInv
\* Steps by which a worker in a section goes on in it.
<1>LocalStep.
      ASSUME BarrierInv, NEW w \in Worker, NEW x \in Loc, pc[w] \notin BarrierLoc,
             pc[w] \notin Outside \cup Ended, x \notin Outside \cup Ended,
             pc' = [pc EXCEPT ![w] = x],
             \A S \in Sections : pc[w] \in S => x \in S,
             pc[w] # "launch", x # "launch", UNCHANGED <<arrived, debug, barrier>>,
             more_to_mark' \in [Worker -> BOOLEAN], num_busy' \in Int,
             \A v \in Worker \ {w} : more_to_mark'[v] = more_to_mark[v],
             BusyInv'
      PROVE  BarrierInv'
  <2> USE <1>LocalStep
  <2>1. (\A v \in Worker : ArrivedAt(v)') /\ Together' /\ CountInv' BY <1>MoveWithin
  <2>2. SyncTypes' BY DEF BarrierInv, SyncTypes
  <2> QED BY <2>1, <2>2 DEF BarrierInv
\* A worker in one of these locations is in the section `Working', and so are
\* all that take part.
<1>AllWorking.
      ASSUME BarrierInv, NEW w \in Worker, pc[w] \in Working \ {"stopped"}
      PROVE  \A v \in Worker : Now(v) \in Working \cup Outside
  <2> USE <1>AllWorking
  <2>1. PICK S \in Sections :
          Now(Main) \in S /\ \A v \in Worker : Now(v) \in S \cup Outside
    BY DEF BarrierInv, Together
  <2>2. arrived[w] = -1 BY DEF BarrierInv, ArrivedAt, Working, BarrierLoc
  <2>3. Now(w) = pc[w] BY <2>2 DEF Now, Released
  <2>4. Now(w) \in S \cap Working BY <2>1, <2>3 DEF Working, Outside
  <2>5. S = Working BY <2>4, SectionFacts, SMT DEF Sections
  <2> QED BY <2>1, <2>5
\* A busy worker stays busy in the section `Working'.
<1>BusyStep.
      ASSUME BarrierInv, NEW w \in Worker, NEW x \in BusyLoc, pc[w] \in BusyLoc,
             pc' = [pc EXCEPT ![w] = x],
             more_to_mark' \in [Worker -> BOOLEAN],
             \A v \in Worker \ {w} : more_to_mark'[v] = more_to_mark[v],
             UNCHANGED <<arrived, debug, barrier, num_busy>>
      PROVE  BarrierInv'
  <2> USE <1>BusyStep
  <2>1. /\ x \in Loc /\ x \in Working /\ x \notin Outside \cup Ended /\ x # "launch"
        /\ pc[w] \in Working /\ pc[w] \notin Outside \cup Ended /\ pc[w] # "launch"
        /\ pc[w] \notin BarrierLoc
    BY SectionFacts DEF BusyLoc, Working, Outside, Ended, BarrierLoc, Sections
  <2>2. \A S \in Sections : pc[w] \in S => x \in S
    BY <2>1, SectionFacts DEF Sections
  <2>3. /\ Now(w) = pc[w] /\ Now(w)' = x
        /\ \A v \in Worker \ {w} : Now(v)' = Now(v) /\ pc'[v] = pc[v]
    BY <2>1, StepNow
  <2>4. pc'[w] = x BY DEF BarrierInv, SyncTypes
  <2>5. \A v \in Worker : Busy(v)' <=> Busy(v)
    BY <2>3, <2>4 DEF Busy, BusyLoc
  <2>6. BusyInv'
    BY <2>3, <2>4, <2>5, <1>BusySame DEF BusyLoc, BarrierInv, BusyInv
  <2>7. num_busy' \in Int BY DEF BarrierInv, SyncTypes
  <2> QED BY <2>1, <2>2, <2>6, <2>7, <1>LocalStep
\* A worker that is not busy, before and after.
<1>QuietStep.
      ASSUME BarrierInv, NEW w \in Worker, NEW x \in Loc, pc[w] \notin BarrierLoc,
             pc[w] \notin Outside \cup Ended, x \notin Outside \cup Ended,
             pc' = [pc EXCEPT ![w] = x],
             \A S \in Sections : pc[w] \in S => x \in S,
             pc[w] # "launch", x # "launch", x # "decided", ~Busy(w), ~Busy(w)',
             x = "announce" => more_to_mark'[w],
             more_to_mark' \in [Worker -> BOOLEAN],
             \A v \in Worker \ {w} : more_to_mark'[v] = more_to_mark[v],
             UNCHANGED <<arrived, debug, barrier, num_busy>>
      PROVE  BarrierInv'
  <2> USE <1>QuietStep
  <2>1. /\ Now(w) = pc[w] /\ Now(w)' = x
        /\ \A v \in Worker \ {w} : Now(v)' = Now(v) /\ pc'[v] = pc[v]
    BY StepNow
  <2>2. pc'[w] = x BY DEF BarrierInv, SyncTypes
  <2>3. \A v \in Worker : Busy(v)' <=> Busy(v)
    <3>1. \A v \in Worker \ {w} : Busy(v)' <=> Busy(v) BY <2>1 DEF Busy
    <3> QED BY <3>1
  <2>4. BusyInv' BY <2>1, <2>2, <2>3, <1>BusySame DEF BarrierInv, BusyInv
  <2>5. num_busy' \in Int BY DEF BarrierInv, SyncTypes
  <2> QED BY <2>4, <2>5, <1>LocalStep
<1>BarrierUnchanged.
      ASSUME BarrierInv, UNCHANGED <<pc, barrier, arrived, num_busy, debug, more_to_mark>>
      PROVE  BarrierInv'
  <2> USE <1>BarrierUnchanged
  <2>1. \A w \in Worker : Now(w)' = Now(w) /\ (Released(w)' <=> Released(w))
    BY DEF Now, Released, After
  <2>2. Part' = Part BY <2>1 DEF Part
  <2>3. Expected' = Expected BY <2>2 DEF Expected
  <2>4. BusyWorkers' = BusyWorkers BY DEF BusyWorkers, Busy
  <2>5. Left' = Left BY DEF Left
  <2>6. Main \in Worker BY MainIsWorker
  <2>7. SyncTypes' BY DEF BarrierInv, SyncTypes
  <2>8. ASSUME NEW w \in Worker PROVE ArrivedAt(w)'
    <3>1. ArrivedAt(w) BY DEF BarrierInv
    <3> QED BY <2>1, <2>6, <3>1 DEF ArrivedAt
  <2>9. Together' BY <2>1, <2>6, SMT DEF BarrierInv, Together
  <2>10. CountInv' BY <2>1, <2>2, <2>3, <2>5, <2>6 DEF BarrierInv, CountInv
  <2>11. BusyInv' BY <2>1, <2>4 DEF BarrierInv, BusyInv
  <2> QED BY <2>7, <2>8, <2>9, <2>10, <2>11 DEF BarrierInv
<1>MarkingSteps.
      ASSUME BarrierInv, NEW w \in Worker,
             \/ MarkObject(w)
             \/ IterateRoots(w)
             \/ ProcessDeferredMarking(w, "deferred", "first")
             \/ ProcessMarkingStack(w)
             \/ ProcessPendingWeakProperties(w, "first_weak", "again", "idle")
             \/ ProcessPendingWeakProperties(w, "weak", "again", "again")
      PROVE  BarrierInv'
  <2> USE <1>MarkingSteps
  <2> USE DEF shareVars, heapVars, At, Goto, BusyLoc
  <2>0. pc \in [Worker -> Loc] /\ more_to_mark \in [Worker -> BOOLEAN]
    BY DEF BarrierInv, SyncTypes
  <2>1. CASE MarkObject(w)
    <3>1. UNCHANGED <<pc, barrier, arrived, num_busy, debug, more_to_mark>>
      BY <2>1 DEF MarkObject
    <3> QED BY <3>1, <1>BarrierUnchanged
  <2>2. CASE IterateRoots(w)
    <3>1. /\ pc[w] \in BusyLoc /\ UNCHANGED <<arrived, debug, barrier, num_busy, more_to_mark>>
          /\ \E x \in BusyLoc : pc' = [pc EXCEPT ![w] = x]
      BY <2>0, <2>2, ZenonT(30) DEF IterateRoots
    <3> QED BY <2>0, <3>1, <1>BusyStep
  <2>3. CASE ProcessDeferredMarking(w, "deferred", "first")
    <3>1. /\ pc[w] \in BusyLoc /\ UNCHANGED <<arrived, debug, barrier, num_busy, more_to_mark>>
          /\ \E x \in BusyLoc : pc' = [pc EXCEPT ![w] = x]
      BY <2>0, <2>3 DEF ProcessDeferredMarking, Rescans
    <3> QED BY <2>0, <3>1, <1>BusyStep
  <2>4. CASE ProcessMarkingStack(w)
    <3>1. /\ pc[w] \in BusyLoc /\ UNCHANGED <<arrived, debug, barrier, num_busy>>
          /\ \E x \in BusyLoc : pc' = [pc EXCEPT ![w] = x]
      BY <2>0, <2>4 DEF ProcessMarkingStack
    <3>2. /\ more_to_mark' \in [Worker -> BOOLEAN]
          /\ \A v \in Worker \ {w} : more_to_mark'[v] = more_to_mark[v]
      BY <2>0, <2>4 DEF ProcessMarkingStack, BeginPending
    <3> QED BY <3>1, <3>2, <1>BusyStep
  <2>5. ASSUME NEW l \in {"first_weak", "weak"}, NEW n \in {"idle", "again"},
               ProcessPendingWeakProperties(w, l, "again", n)
        PROVE  BarrierInv'
    <3>1. /\ pc[w] \in BusyLoc /\ UNCHANGED <<arrived, debug, barrier, num_busy>>
          /\ \E x \in BusyLoc : pc' = [pc EXCEPT ![w] = x]
      BY <2>0, <2>5 DEF ProcessPendingWeakProperties
    <3>2. /\ more_to_mark' \in [Worker -> BOOLEAN]
          /\ \A v \in Worker \ {w} : more_to_mark'[v] = more_to_mark[v]
      BY <2>0, <2>5 DEF ProcessPendingWeakProperties, MakesMore
    <3> QED BY <3>1, <3>2, <1>BusyStep
  <2> QED BY <2>1, <2>2, <2>3, <2>4, <2>5
<1>StartSteps.
      ASSUME BarrierInv, NEW w \in Worker, Start(w)
      PROVE  BarrierInv'
  <2> USE <1>StartSteps
  <2> USE DEF shareVars, heapVars, workVars, Goto, Start
  <2>0. pc \in [Worker -> Loc] /\ more_to_mark \in [Worker -> BOOLEAN] /\ num_busy \in Int
    BY DEF BarrierInv, SyncTypes
  <2>1. /\ "roots" \in Loc /\ pc[w] \notin BarrierLoc /\ pc[w] \notin Outside \cup Ended
        /\ "roots" \notin Outside \cup Ended
        /\ \A S \in Sections : pc[w] \in S => "roots" \in S
        /\ pc[w] \in Working \ {"stopped"}
    BY DEF Loc, Sections, Working, Checking, Pending, Deciding, Deferring, Mourning, Ended,
           Outside, BarrierLoc
  <2>2. /\ Now(w) = pc[w] /\ Now(w)' = "roots"
        /\ \A v \in Worker \ {w} : Now(v)' = Now(v) /\ pc'[v] = pc[v]
    BY <2>1, StepNow
  <2>3. \A v \in Worker : Now(v) \in Working \cup Outside BY <2>1, <1>AllWorking
  <2>4. ~Busy(w) /\ Busy(w)' /\ \A v \in Worker \ {w} : Busy(v)' <=> Busy(v)
    BY <2>0, <2>2 DEF Busy
  <2>5. BusyInv'
    <3>1. \A v \in Worker : Now(v)' # "decided"
      BY <2>2, <2>3 DEF Working, Outside
    <3>2. \A v \in Worker : pc'[v] = "announce" => more_to_mark'[v]
      BY <2>0, <2>2 DEF BarrierInv, BusyInv
    <3> QED BY <2>4, <3>1, <3>2, <1>BusyMore
  <2>6. /\ num_busy' \in Int /\ pc' = [pc EXCEPT ![w] = "roots"]
        /\ UNCHANGED <<arrived, debug, barrier, more_to_mark>> /\ pc[w] # "launch"
    BY <2>0, SMT
  <2>7. more_to_mark' \in [Worker -> BOOLEAN] BY <2>0, <2>6
  <2> HIDE DEF Start
  <2> QED BY <2>1, <2>5, <2>6, <2>7, <1>LocalStep
<1>WaitSteps.
      ASSUME BarrierInv, NEW w \in Worker, Idle(w) \/ Wake(w)
      PROVE  BarrierInv'
  <2> USE <1>WaitSteps
  <2> USE DEF shareVars, heapVars, workVars, Goto
  <2>0. pc \in [Worker -> Loc] /\ more_to_mark \in [Worker -> BOOLEAN] /\ num_busy \in Int
    BY DEF BarrierInv, SyncTypes
  <2>1. /\ pc[w] \in {"idle", "waiting"}
        /\ UNCHANGED <<arrived, debug, barrier, more_to_mark>>
        /\ \E x \in {"first", "stopped", "waiting"} : pc' = [pc EXCEPT ![w] = x]
    BY DEF Idle, Wake, WaitForWork, WaitForWorkWake, TakeBlockOrWait
  <2>2. PICK x \in {"first", "stopped", "waiting"} : pc' = [pc EXCEPT ![w] = x] BY <2>1
  <2>3. /\ x \in Loc /\ pc[w] \notin BarrierLoc /\ pc[w] \notin Outside \cup Ended
        /\ x \notin Outside \cup Ended /\ x # "launch" /\ pc[w] # "launch"
        /\ \A S \in Sections : pc[w] \in S => x \in S
        /\ pc[w] \in Working \ {"stopped"}
    BY <2>1 DEF Loc, Sections, Working, Checking, Pending, Deciding, Deferring, Mourning,
           Ended, Outside, BarrierLoc
  <2>4. /\ Now(w) = pc[w] /\ Now(w)' = x /\ pc'[w] = x
        /\ \A v \in Worker \ {w} : Now(v)' = Now(v) /\ pc'[v] = pc[v]
    BY <2>0, <2>1, <2>2, <2>3, StepNow
  <2>5. \A v \in Worker : Now(v) \in Working \cup Outside BY <2>3, <1>AllWorking
  <2>6. /\ Busy(w) <=> pc[w] = "idle"
        /\ Busy(w)' <=> x = "first"
        /\ \A v \in Worker \ {w} : Busy(v)' <=> Busy(v)
    BY <2>1, <2>4 DEF Busy
  <2>7. /\ \A v \in Worker : Now(v)' # "decided"
        /\ \A v \in Worker : pc'[v] = "announce" => more_to_mark'[v]
    BY <2>1, <2>4, <2>5 DEF Working, Outside, BarrierInv, BusyInv
  <2>8. CASE pc[w] = "idle" /\ x = "first"
    <3>1. num_busy' = num_busy BY <2>0, <2>2, <2>4, <2>8, SMT DEF Idle, Wake, WaitForWork, TakeBlockOrWait
    <3> QED BY <2>0, <2>1, <2>2, <2>3, <2>6, <2>7, <2>8, <3>1, <1>BusySame, <1>LocalStep
  <2>9. CASE pc[w] = "idle" /\ x # "first"
    <3>1. num_busy' = num_busy - 1
      BY <2>0, <2>2, <2>4, <2>9, SMT DEF Idle, Wake, WaitForWork, TakeBlockOrWait
    <3>2. BusyInv' BY <2>6, <2>7, <2>9, <3>1, <1>BusyLess
    <3>3. num_busy' \in Int /\ more_to_mark' \in [Worker -> BOOLEAN] BY <2>0, <2>1, <3>1, SMT
    <3> QED BY <2>1, <2>2, <2>3, <3>2, <3>3, <1>LocalStep
  <2>10. CASE pc[w] = "waiting" /\ x = "first"
    <3>1. num_busy' = num_busy + 1
      BY <2>0, <2>2, <2>4, <2>10 DEF Idle, Wake, WaitForWorkWake, TakeBlockOrWait
    <3>2. BusyInv' BY <2>6, <2>7, <2>10, <3>1, <1>BusyMore
    <3>3. num_busy' \in Int /\ more_to_mark' \in [Worker -> BOOLEAN] BY <2>0, <2>1, <3>1, SMT
    <3> QED BY <2>1, <2>2, <2>3, <3>2, <3>3, <1>LocalStep
  <2>11. CASE pc[w] = "waiting" /\ x # "first"
    <3>1. num_busy' = num_busy
      BY <2>0, <2>2, <2>4, <2>11 DEF Idle, Wake, WaitForWorkWake, TakeBlockOrWait
    <3> QED BY <2>0, <2>1, <2>2, <2>3, <2>6, <2>7, <2>11, <3>1, <1>BusySame, <1>LocalStep
  <2> QED BY <2>1, <2>8, <2>9, <2>10, <2>11
\* The steps of a worker that is not busy.
<1>QuietSteps.
      ASSUME BarrierInv, NEW w \in Worker,
             \/ Check(w)
             \/ StartPending(w)
             \/ ProcessPendingWeakProperties(w, "pending", "announce", "announced")
             \/ ProcessDeferredMarking(w, "deferred2", "marked")
             \/ Mourn(w)
             \/ IterateWeakRoots(w)
      PROVE  BarrierInv'
  <2> USE <1>QuietSteps
  <2> USE DEF shareVars, heapVars, workVars, Goto, At
  <2>0. pc \in [Worker -> Loc] /\ more_to_mark \in [Worker -> BOOLEAN]
    BY DEF BarrierInv, SyncTypes
  <2>1. ASSUME NEW a, NEW x, pc[w] = a, pc' = [pc EXCEPT ![w] = x],
               \/ a \in Checking \ {"checked"} /\ x \in Checking
               \/ a \in Pending \ {"announced"} /\ x \in Pending
               \/ a \in Deferring \ {"marked"} /\ x \in Deferring
               \/ a \in Mourning \ {"end"} /\ x \in Mourning,
               more_to_mark' \in [Worker -> BOOLEAN],
               \A v \in Worker \ {w} : more_to_mark'[v] = more_to_mark[v],
               x = "announce" => more_to_mark'[w],
               x = "announced" => ~more_to_mark'[w],
               UNCHANGED <<arrived, debug, barrier, num_busy>>
        PROVE  BarrierInv'
    <3>1. \A S \in Sections : a \in S => x \in S
      BY <2>1, SectionFacts DEF Sections
    <3>2. /\ x \in Loc /\ a \notin BarrierLoc /\ a \notin Outside \cup Ended
          /\ x \notin Outside \cup Ended /\ a # "launch" /\ x \notin {"launch", "decided"}
      BY <2>1, SectionFacts DEF Sections, Checking, Pending, Deferring, Mourning, Outside,
         Ended, BarrierLoc
    <3>3. pc'[w] = x BY <2>0, <2>1
    <3>4. ~Busy(w) /\ ~Busy(w)'
      BY <2>1, <3>3 DEF Busy, Checking, Pending, Deferring, Mourning
    <3> QED BY <2>1, <3>1, <3>2, <3>4, <1>QuietStep
  <2>2. CASE Check(w)
    BY <2>0, <2>1, <2>2 DEF Check, CheckedSync, Checking
  <2>3. CASE StartPending(w)
    <3>1. /\ more_to_mark' \in [Worker -> BOOLEAN]
          /\ \A v \in Worker \ {w} : more_to_mark'[v] = more_to_mark[v]
      BY <2>0, <2>3 DEF StartPending, BeginPending
    <3> QED BY <2>1, <2>3, <3>1 DEF StartPending, Pending
  <2>4. CASE ProcessPendingWeakProperties(w, "pending", "announce", "announced")
    <3>1. /\ more_to_mark' \in [Worker -> BOOLEAN]
          /\ \A v \in Worker \ {w} : more_to_mark'[v] = more_to_mark[v]
      BY <2>0, <2>4 DEF ProcessPendingWeakProperties, MakesMore
    <3>2. \E x \in Pending : /\ pc' = [pc EXCEPT ![w] = x]
                             /\ x = "announce" => more_to_mark'[w]
                             /\ x = "announced" => ~more_to_mark'[w]
      BY <2>0, <2>4 DEF ProcessPendingWeakProperties, Pending
    <3> QED BY <2>1, <2>4, <3>1, <3>2 DEF ProcessPendingWeakProperties, Pending
  <2>5. CASE ProcessDeferredMarking(w, "deferred2", "marked")
    <3>1. \E x \in Deferring : pc' = [pc EXCEPT ![w] = x]
      BY <2>0, <2>5 DEF ProcessDeferredMarking, Rescans, Deferring
    <3> QED BY <2>0, <2>1, <2>5, <3>1 DEF ProcessDeferredMarking, Rescans, Deferring
  <2>6. CASE Mourn(w)
    BY <2>0, <2>1, <2>6 DEF Mourn, Mourning
  <2>7. CASE IterateWeakRoots(w)
    <3>1. \E x \in Mourning : pc' = [pc EXCEPT ![w] = x]
      BY <2>0, <2>7 DEF IterateWeakRoots, LastSync, Mourning
    <3> QED BY <2>0, <2>1, <2>7, <3>1 DEF IterateWeakRoots, Mourning
  <2> QED BY <2>2, <2>3, <2>4, <2>5, <2>6, <2>7
<1>AnnounceSteps.
      ASSUME BarrierInv, NEW w \in Worker, Announce(w)
      PROVE  BarrierInv'
  <2> USE <1>AnnounceSteps
  <2> USE DEF shareVars, heapVars, workVars, Goto
  <2>0. pc \in [Worker -> Loc] /\ more_to_mark \in [Worker -> BOOLEAN] /\ num_busy \in Int
    BY DEF BarrierInv, SyncTypes
  <2>1. /\ pc[w] = "announce" /\ pc' = [pc EXCEPT ![w] = "announced"]
        /\ num_busy' = num_busy + 1 /\ UNCHANGED <<arrived, debug, barrier, more_to_mark>>
    BY DEF Announce
  <2>2. /\ "announced" \in Loc /\ pc[w] \notin BarrierLoc /\ pc[w] \notin Outside \cup Ended
        /\ "announced" \notin Outside \cup Ended
        /\ \A S \in Sections : pc[w] \in S => "announced" \in S
        /\ pc[w] \in Pending /\ Pending \in Sections \ {Ended}
    BY <2>1, SMT DEF Loc, Sections, Working, Checking, Pending, Deciding, Deferring, Mourning,
           Ended, Outside, BarrierLoc
  <2>3. /\ Now(w) = pc[w] /\ Now(w)' = "announced" /\ pc'[w] = "announced"
        /\ \A v \in Worker \ {w} : Now(v)' = Now(v) /\ pc'[v] = pc[v]
    BY <2>0, <2>1, <2>2, StepNow
  <2>4. more_to_mark[w] BY <2>1 DEF BarrierInv, BusyInv
  <2>5. ~Busy(w) /\ Busy(w)' /\ \A v \in Worker \ {w} : Busy(v)' <=> Busy(v)
    BY <2>1, <2>3, <2>4 DEF Busy
  <2>6. \A v \in Worker : Now(v) # "decided"
    BY <2>2, AllInSection, SMT DEF Pending, Outside
  <2>7. BusyInv'
    <3>1. \A v \in Worker : Now(v)' # "decided" BY <2>3, <2>6
    <3>2. \A v \in Worker : pc'[v] = "announce" => more_to_mark'[v]
      BY <2>1, <2>3 DEF BarrierInv, BusyInv
    <3> QED BY <2>1, <2>5, <3>1, <3>2, <1>BusyMore
  <2>8. num_busy' \in Int /\ more_to_mark' \in [Worker -> BOOLEAN] BY <2>0, <2>1, SMT
  <2> QED BY <2>1, <2>2, <2>7, <2>8, <1>LocalStep
<1>DecideSteps.
      ASSUME BarrierInv, NEW w \in Worker, Decide(w)
      PROVE  BarrierInv'
  <2> USE <1>DecideSteps
  <2> USE DEF shareVars, heapVars, workVars, Goto
  <2>0. pc \in [Worker -> Loc] /\ more_to_mark \in [Worker -> BOOLEAN] /\ num_busy \in Int
    BY DEF BarrierInv, SyncTypes
  <2>1. /\ pc[w] = "decide" /\ pc' = [pc EXCEPT ![w] = "decided"]
        /\ UNCHANGED <<arrived, debug, barrier>>
        /\ more_to_mark' = [more_to_mark EXCEPT ![w] = more_to_mark[w] \/ num_busy > 0]
        /\ num_busy' = IF ~more_to_mark[w] /\ num_busy > 0 THEN num_busy + 1 ELSE num_busy
    <3>1. num_busy' = num_busy + JoinCount(~more_to_mark[w] /\ num_busy > 0)
      BY DEF Decide
    <3>2. num_busy' = IF ~more_to_mark[w] /\ num_busy > 0 THEN num_busy + 1 ELSE num_busy
      BY <2>0, <3>1, SMT DEF JoinCount
    <3>3. more_to_mark' = [more_to_mark EXCEPT
                             ![w] = more_to_mark[w] \/ (~more_to_mark[w] /\ num_busy > 0)]
      BY DEF Decide
    <3>4. (more_to_mark[w] \/ (~more_to_mark[w] /\ num_busy > 0))
            = (more_to_mark[w] \/ num_busy > 0)
      BY <2>0
    <3>5. more_to_mark' = [more_to_mark EXCEPT ![w] = more_to_mark[w] \/ num_busy > 0]
      BY <3>3, <3>4
    <3> QED BY <3>2, <3>5 DEF Decide, AfterDecision
  <2>2. /\ "decided" \in Loc /\ pc[w] \notin BarrierLoc /\ pc[w] \notin Outside \cup Ended
        /\ "decided" \notin Outside \cup Ended
        /\ \A S \in Sections : pc[w] \in S => "decided" \in S
        /\ pc[w] \in Deciding /\ Deciding \in Sections \ {Ended}
    BY <2>1, ZenonT(30) DEF Loc, Sections, Working, Checking, Pending, Deciding, Deferring, Mourning,
           Ended, Outside, BarrierLoc
  <2>3. /\ Now(w) = pc[w] /\ Now(w)' = "decided" /\ pc'[w] = "decided"
        /\ \A v \in Worker \ {w} : Now(v)' = Now(v) /\ pc'[v] = pc[v]
    BY <2>0, <2>1, <2>2, StepNow
  <2>4. /\ \A v \in Worker \ {w} : more_to_mark'[v] = more_to_mark[v]
        /\ more_to_mark' \in [Worker -> BOOLEAN] /\ num_busy' \in Int
        /\ more_to_mark'[w] = (more_to_mark[w] \/ num_busy > 0)
    BY <2>0, <2>1, SMT
  <2>5. /\ \A v \in Worker \ {w} : Busy(v)' <=> Busy(v)
        /\ Busy(w) <=> more_to_mark[w]
        /\ Busy(w)' <=> more_to_mark'[w]
    BY <2>1, <2>3, <2>4 DEF Busy
  <2>6. \A v \in Worker : pc'[v] = "announce" => more_to_mark'[v]
    BY <2>1, <2>3, <2>4 DEF BarrierInv, BusyInv
  <2>7. BusyInv'
    <3>1. CASE num_busy > 0 /\ ~more_to_mark[w]
      <4>1. ~Busy(w) /\ Busy(w)' /\ num_busy' = num_busy + 1
        BY <2>1, <2>4, <2>5, <3>1
      <4>2. \A v \in Worker : Now(v)' = "decided" => more_to_mark'[v]
        <5>1. \E v \in Worker : Busy(v) BY <3>1, BusyPositive, SMT
        <5>2. \A v \in Worker : Now(v) = "decided" => more_to_mark[v]
          BY <5>1 DEF BarrierInv, BusyInv, BusyWorkers
        <5> QED BY <2>3, <2>4, <3>1, <5>2
      <4> QED BY <2>5, <2>6, <4>1, <4>2, <1>BusyMore
    <3>2. CASE more_to_mark[w]
      <4>1. more_to_mark'[w] /\ num_busy' = num_busy BY <2>1, <2>4, <3>2
      <4> QED BY <2>3, <2>4, <2>5, <2>6, <3>2, <4>1, <1>BusySame
    <3>3. CASE ~(num_busy > 0) /\ ~more_to_mark[w]
      <4>1. ~more_to_mark'[w] /\ num_busy' = num_busy BY <2>1, <2>4, <3>3
      <4>2. num_busy = 0 BY <3>3, BusyPositive, SMT
      <4>3. BusyWorkers = {} BY <4>2, BusyPositive DEF BusyWorkers
      <4>4. BusyWorkers' = {} BY <2>5, <4>1, <4>3 DEF BusyWorkers
      <4> QED BY <2>6, <4>1, <4>3, <4>4 DEF BarrierInv, BusyInv
    <3> QED BY <3>1, <3>2, <3>3
  <2> QED BY <2>1, <2>2, <2>4, <2>7, <1>LocalStep
\* A worker outside of the sections goes to another location there.
<1>StayOutside.
      ASSUME BarrierInv, NEW w \in Worker, NEW x \in Outside \cup Ended,
             pc[w] \in Outside \cup Ended, pc' = [pc EXCEPT ![w] = x],
             UNCHANGED <<arrived, debug, more_to_mark, num_busy>>,
             w = Main => pc[w] \in Ended /\ x \in Ended,
             w # Main => x \in Outside \ {"none"},
             barrier' \in [ref_count : Int, participating : Int, remaining : Int,
                           generation : Nat],
             barrier'.participating = barrier.participating,
             barrier'.remaining = barrier.remaining,
             barrier'.generation = barrier.generation,
             barrier'.ref_count = NumTasks - Cardinality(Left')
      PROVE  BarrierInv'
  <2> USE <1>StayOutside
  <2> USE MainIsWorker
  <2>0. x \in Loc /\ pc[w] \notin BarrierLoc /\ pc \in [Worker -> Loc]
    BY SectionFacts DEF BarrierInv, SyncTypes, Sections
  <2>1. /\ arrived[w] = -1 /\ Now(w) = pc[w] /\ Now(w)' = x
        /\ \A v \in Worker \ {w} : Now(v)' = Now(v) /\ pc'[v] = pc[v]
    BY <2>0, StepNow
  <2>2. pc'[w] = x BY <2>0
  <2>3. SyncTypes' BY <2>0 DEF BarrierInv, SyncTypes
  <2>4. \A v \in Worker : Released(v)' <=> Released(v) BY DEF Released
  <2>5. Now(Main) \in Ended => Now(Main)' \in Ended BY <2>1
  <2>6. pc'[Main] = "launch" <=> pc[Main] = "launch" BY <2>1, <2>2 DEF Ended
  <2>7. ASSUME NEW v \in Worker PROVE ArrivedAt(v)'
    <3>1. ArrivedAt(v) BY DEF BarrierInv
    <3>2. CASE v = w
      BY <2>1, <2>2, <3>1, <3>2 DEF ArrivedAt, Outside, Ended, Released
    <3>3. CASE v # w BY <2>1, <2>4, <2>5, <2>6, <3>1, <3>3 DEF ArrivedAt
    <3> QED BY <3>2, <3>3
  <2>8. Together'
    <3>1. PICK S \in Sections :
            Now(Main) \in S /\ \A v \in Worker : Now(v) \in S \cup Outside
      BY DEF BarrierInv, Together
    <3>2. CASE w = Main
      <4>1. S = Ended BY <2>1, <3>1, <3>2, SectionFacts, SMT DEF Sections
      <4> QED BY <2>1, <3>1, <3>2, <4>1, SMT DEF Together
    <3>3. CASE w # Main BY <2>1, <3>1, <3>3, SMT DEF Together
    <3> QED BY <3>2, <3>3
  <2>9. CountInv'
    <3>1. Part' = Part BY <2>1, SMT DEF Part
    <3>2. Expected' = Expected BY <3>1 DEF Expected
    <3>3. Now(Main) \in Working => Now(Main)' \in Working
      BY <2>1, SectionFacts, SMT DEF Sections
    <3> QED BY <3>1, <3>2, <3>3 DEF BarrierInv, CountInv
  <2>10. BusyInv'
    <3>1. \A v \in Worker : Busy(v)' <=> Busy(v)
      <4>1. ~Busy(w) /\ ~Busy(w)' BY <2>2 DEF Busy, Outside, Ended
      <4>2. \A v \in Worker \ {w} : Busy(v)' <=> Busy(v) BY <2>1 DEF Busy
      <4> QED BY <4>1, <4>2
    <3>2. x \notin {"decided", "announce"} BY DEF Outside, Ended
    <3>3. \A v \in Worker : Now(v)' = "decided" /\ ~more_to_mark'[v]
                              => Now(v) = "decided" /\ ~more_to_mark[v]
      BY <2>1, <3>2
    <3>4. \A v \in Worker : pc'[v] = "announce" => more_to_mark'[v]
      BY <2>1, <2>2, <3>2 DEF BarrierInv, BusyInv
    <3> QED BY <3>1, <3>3, <3>4, <1>BusySame
  <2> QED BY <2>3, <2>7, <2>8, <2>9, <2>10 DEF BarrierInv
\* The main thread starts the tasks and then takes part itself.
<1>LaunchSteps.
      ASSUME BarrierInv, NEW w \in Worker, Launch(w)
      PROVE  BarrierInv'
  <2> USE <1>LaunchSteps
  <2> USE DEF shareVars, heapVars, sliceVars, Goto
  <2>0. pc \in [Worker -> Loc] /\ more_to_mark \in [Worker -> BOOLEAN] /\ num_busy \in Int
        /\ ArrivedAt(w)
    BY DEF BarrierInv, SyncTypes
  <2>1. UNCHANGED <<barrier, arrived, num_busy, debug, more_to_mark>> BY DEF Launch
  <2>2. CASE w = Main
    <3>1. /\ pc[w] = "launch" /\ pc' = [pc EXCEPT ![w] = "start"]
          /\ \A v \in Worker : v < w => pc[v] # "none"
      BY <2>0, <2>2 DEF Launch, ArrivedAt
    <3>2. \A v \in Worker : pc[v] # "none"
      BY <2>2, <3>1, TasksAssumption, SMT DEF Worker, Main
    <3>3. /\ "start" \in Loc /\ pc[w] \notin BarrierLoc /\ pc[w] \notin Outside \cup Ended
          /\ "start" \notin Outside \cup Ended
          /\ \A S \in Sections : pc[w] \in S => "start" \in S
      BY <3>1 DEF Loc, Sections, Working, Checking, Pending, Deciding, Deferring, Mourning,
             Ended, Outside, BarrierLoc
    <3>4. (\A v \in Worker : ArrivedAt(v)') /\ Together' /\ CountInv'
      BY <2>1, <3>1, <3>2, <3>3, <1>MoveWithin
    <3>5. SyncTypes' BY <2>0, <2>1, <3>1, <3>3 DEF BarrierInv, SyncTypes
    <3>6. /\ Now(w)' = "start" /\ pc'[w] = "start"
          /\ \A v \in Worker \ {w} : Now(v)' = Now(v) /\ pc'[v] = pc[v]
      BY <2>0, <2>1, <3>1, <3>3, StepNow
    <3>7. \A v \in Worker : Busy(v)' <=> Busy(v)
      <4>1. ~Busy(w) /\ ~Busy(w)' BY <3>1, <3>6 DEF Busy
      <4>2. \A v \in Worker \ {w} : Busy(v)' <=> Busy(v) BY <2>1, <3>6 DEF Busy
      <4> QED BY <4>1, <4>2
    <3>8. BusyInv' BY <2>1, <3>6, <3>7, <1>BusySame DEF BarrierInv, BusyInv
    <3> QED BY <3>4, <3>5, <3>8 DEF BarrierInv
  <2>3. CASE w # Main
    <3>1. pc[w] = "none" /\ pc' = [pc EXCEPT ![w] = "queued"]
      BY <2>0, <2>3 DEF Launch, ArrivedAt
    <3>2. Left' = Left BY <2>0, <3>1 DEF Left
    <3>3. pc[w] \in Outside /\ "queued" \in Outside \ {"none"} BY <3>1 DEF Outside
    <3>4. /\ barrier' \in [ref_count : Int, participating : Int, remaining : Int,
                           generation : Nat]
          /\ barrier'.ref_count = NumTasks - Cardinality(Left')
      BY <2>1, <3>2 DEF BarrierInv, SyncTypes, CountInv
    <3> QED BY <2>1, <2>3, <3>1, <3>3, <3>4, <1>StayOutside
  <2> QED BY <2>2, <2>3
\* A helper leaves the queue of the thread pool, in time or too late.
<1>EnterSteps.
      ASSUME BarrierInv, NEW w \in Worker, Enter(w)
      PROVE  BarrierInv'
  <2> USE <1>EnterSteps
  <2> USE DEF heapVars, workVars, Goto
  <2> USE MainIsWorker
  <2>0. /\ pc \in [Worker -> Loc] /\ more_to_mark \in [Worker -> BOOLEAN] /\ num_busy \in Int
        /\ barrier \in [ref_count : Int, participating : Int, remaining : Int,
                        generation : Nat]
        /\ arrived \in [Worker -> Int]
        /\ ArrivedAt(w)
    BY DEF BarrierInv, SyncTypes
  <2>1. UNCHANGED <<arrived, num_busy, debug, more_to_mark>> /\ pc[w] = "queued"
    BY DEF Enter
  <2>2. w # Main BY <2>0, <2>1 DEF ArrivedAt
  <2>3. CASE /\ barrier.generation = 0
             /\ barrier' = [barrier EXCEPT !.remaining = @ + 1, !.participating = @ + 1]
             /\ pc' = [pc EXCEPT ![w] = "start"]
    <3>1. /\ barrier'.remaining = barrier.remaining + 1
          /\ barrier'.participating = barrier.participating + 1
          /\ barrier'.generation = barrier.generation /\ barrier.generation = 0
          /\ barrier'.ref_count = barrier.ref_count
          /\ barrier' \in [ref_count : Int, participating : Int, remaining : Int,
                           generation : Nat]
      <4> DEFINE b == [barrier EXCEPT !.remaining = barrier.remaining + 1]
      <4>1. barrier' = [b EXCEPT !.participating = barrier.participating + 1]
        BY <2>0, <2>3
      <4>2. /\ b.remaining = barrier.remaining + 1 /\ b.generation = barrier.generation
            /\ b.participating = barrier.participating /\ b.ref_count = barrier.ref_count
            /\ b \in [ref_count : Int, participating : Int, remaining : Int, generation : Nat]
        BY <2>0, SMT
      <4> HIDE DEF b
      <4>3. barrier.participating + 1 \in Int BY <2>0, SMT
      <4> QED BY <2>3, <4>1, <4>2, <4>3
    <3>2. /\ "start" \in Loc /\ "start" \in Working /\ pc[w] \notin BarrierLoc
          /\ pc[w] \in Outside \ Ended /\ "start" \notin Outside \cup Ended
          /\ Working \cap (Outside \cup Ended) = {}
      BY <2>1 DEF Loc, Sections, Working, Checking, Pending, Deciding, Deferring, Mourning,
             Ended, Outside, BarrierLoc
    <3>3. /\ arrived[w] = -1 /\ Now(w) = pc[w] /\ Now(w)' = "start" /\ pc'[w] = "start"
          /\ \A v \in Worker \ {w} : Now(v)' = Now(v) /\ pc'[v] = pc[v]
      BY <2>0, <2>1, <2>3, <3>1, <3>2, StepNow
    <3>4. SyncTypes' BY <2>0, <2>1, <2>3, <3>1, <3>2, SMT DEF BarrierInv, SyncTypes
    <3>5. ASSUME NEW v \in Worker PROVE ArrivedAt(v)'
      <4>1. ArrivedAt(v) BY DEF BarrierInv
      <4>2. CASE v = w BY <2>1, <2>2, <3>1, <3>3, <4>1, <4>2, SMT DEF ArrivedAt, Released
      <4>3. CASE v # w
        BY <2>1, <2>2, <3>1, <3>3, <4>1, <4>3 DEF ArrivedAt, Released
      <4> QED BY <4>2, <4>3
    <3>6. Now(Main) \in Working /\ Now(Main)' \in Working
      BY <2>2, <2>3, <3>3 DEF BarrierInv, CountInv
    <3>7. \A v \in Worker : Now(v) \in Working \cup Outside
      <4>1. PICK S \in Sections :
              Now(Main) \in S /\ \A v \in Worker : Now(v) \in S \cup Outside
        BY DEF BarrierInv, Together
      <4>2. S = Working BY <3>6, <4>1, SectionFacts DEF Sections
      <4> QED BY <4>1, <4>2
    <3>8. Together'
      <4>1. \A v \in Worker : Now(v)' \in Working \cup Outside BY <3>2, <3>3, <3>7
      <4> QED BY <3>6, <4>1 DEF Together, Sections
    <3>9. CountInv'
      <4>1. w \notin Part /\ Part' = Part \cup {w} BY <3>2, <3>3 DEF Part
      <4>2. w \notin Expected /\ Expected' = Expected \cup {w}
        BY <2>0, <2>1, <3>1, <3>3, <4>1, SMT DEF Expected
      <4>3. Cardinality(Part') = Cardinality(Part) + 1
        BY <4>1, FiniteWorkers, CardChange DEF Part
      <4>4. Cardinality(Expected') = Cardinality(Expected) + 1
        BY <4>2, FiniteWorkers, CardChange DEF Expected, Part
      <4>5. Main \in Part BY <3>2, <3>6 DEF Part
      <4>6. Cardinality(Part') \in 0..NumTasks /\ Cardinality(Expected') \in 0..NumTasks
        <5>1. Part' \subseteq Worker /\ Expected' \subseteq Worker BY DEF Part, Expected
        <5> QED BY <5>1, FiniteWorkers
      <4>7. Left' = Left BY <2>1, <3>3 DEF Left
      <4>8. barrier.participating \in 1..NumTasks /\ barrier.remaining \in 1..NumTasks
            /\ barrier.participating = Cardinality(Part)
            /\ barrier.remaining = Cardinality(Expected)
        BY <4>5 DEF BarrierInv, CountInv
      <4>9. barrier'.participating \in 1..NumTasks /\ barrier'.remaining \in 1..NumTasks
        BY <3>1, <4>3, <4>4, <4>6, <4>8, TasksAssumption, SMT
      <4> QED BY <3>1, <3>6, <4>3, <4>4, <4>7, <4>8, <4>9 DEF BarrierInv, CountInv
    <3>10. BusyInv'
      <4>1. ~Busy(w) /\ ~Busy(w)' BY <2>1, <3>3 DEF Busy
      <4>2. \A v \in Worker \ {w} : Busy(v)' <=> Busy(v) BY <2>1, <3>3 DEF Busy
      <4>3. \A v \in Worker : Busy(v)' <=> Busy(v) BY <4>1, <4>2
      <4> QED BY <2>1, <3>3, <4>3, <1>BusySame DEF BarrierInv, BusyInv
    <3> QED BY <3>4, <3>5, <3>8, <3>9, <3>10 DEF BarrierInv
  <2>4. CASE barrier' = barrier /\ pc' = [pc EXCEPT ![w] = "release"]
    <3>1. Left' = Left BY <2>0, <2>1, <2>4 DEF Left
    <3>2. pc[w] \in Outside /\ "release" \in Outside \ {"none"} BY <2>1 DEF Outside
    <3>3. barrier'.ref_count = NumTasks - Cardinality(Left')
      BY <2>4, <3>1 DEF BarrierInv, CountInv
    <3> QED BY <2>0, <2>1, <2>2, <2>4, <3>2, <3>3, <1>StayOutside
  <2> QED BY <2>3, <2>4 DEF Enter, TryEnter, MayEnter
\* A worker gives up its reference to the barrier.
<1>LeaveSteps.
      ASSUME BarrierInv, NEW w \in Worker, Leave(w)
      PROVE  BarrierInv'
  <2> USE <1>LeaveSteps
  <2> USE DEF heapVars, workVars, Goto
  <2> DEFINE x == IF w = Main THEN "finalize" ELSE "gone"
  <2>0. /\ pc \in [Worker -> Loc]
        /\ barrier \in [ref_count : Int, participating : Int, remaining : Int,
                        generation : Nat]
    BY DEF BarrierInv, SyncTypes
  <2>1. /\ UNCHANGED <<arrived, num_busy, debug, more_to_mark>> /\ pc[w] = "release"
        /\ barrier' = [barrier EXCEPT !.ref_count = @ - 1]
        /\ pc' = [pc EXCEPT ![w] = x]
    BY DEF Leave, Release
  <2>2. w \notin Left /\ Left' = Left \cup {w} BY <2>0, <2>1 DEF Left
  <2>3. Cardinality(Left') = Cardinality(Left) + 1
    BY <2>2, FiniteWorkers, CardChange DEF Left
  <2>4. Cardinality(Left) \in 0..NumTasks BY FiniteWorkers DEF Left
  <2>5. /\ barrier'.ref_count = barrier.ref_count - 1
        /\ barrier'.participating = barrier.participating
        /\ barrier'.remaining = barrier.remaining
        /\ barrier'.generation = barrier.generation
        /\ barrier' \in [ref_count : Int, participating : Int, remaining : Int,
                         generation : Nat]
    BY <2>0, <2>1, SMT
  <2>6. barrier'.ref_count = NumTasks - Cardinality(Left')
    BY <2>3, <2>4, <2>5, TasksAssumption, SMT DEF BarrierInv, CountInv
  <2>7. /\ pc[w] \in Outside \cap Ended /\ x \in Outside \cup Ended
        /\ w = Main => x \in Ended
        /\ w # Main => x \in Outside \ {"none"}
    BY <2>1 DEF Outside, Ended
  <2> QED BY <2>1, <2>5, <2>6, <2>7, <1>StayOutside
\* The main thread finalizes the visitors.
<1>FinalizeSteps.
      ASSUME BarrierInv, FinalizeMarking
      PROVE  BarrierInv'
  <2> USE <1>FinalizeSteps
  <2> USE MainIsWorker DEF shareVars, heapVars, Goto
  <2>0. /\ pc \in [Worker -> Loc]
        /\ barrier \in [ref_count : Int, participating : Int, remaining : Int,
                        generation : Nat]
    BY DEF BarrierInv, SyncTypes
  <2>1. /\ UNCHANGED <<barrier, arrived, num_busy, debug, more_to_mark>>
        /\ pc[Main] = "finalize" /\ pc' = [pc EXCEPT ![Main] = "done"]
    BY DEF FinalizeMarking
  <2>2. Left' = Left BY <2>0, <2>1 DEF Left
  <2>3. barrier'.ref_count = NumTasks - Cardinality(Left')
    BY <2>1, <2>2 DEF BarrierInv, CountInv
  <2>4. "done" \in Ended /\ pc[Main] \in Ended BY <2>1 DEF Ended
  <2> QED BY <2>0, <2>1, <2>3, <2>4, <1>StayOutside
<1>SyncSteps.
      ASSUME BarrierInv, NEW w \in Worker, pc[w] \in BarrierLoc, Sync(w, After(w)),
             UNCHANGED <<num_busy, more_to_mark, debug>>
      PROVE  BarrierInv'
  <2> USE <1>SyncSteps
  <2> USE DEF Goto
  <2>0. /\ pc \in [Worker -> Loc] /\ arrived \in [Worker -> Int]
        /\ barrier \in [ref_count : Int, participating : Int, remaining : Int,
                        generation : Nat]
        /\ more_to_mark \in [Worker -> BOOLEAN]
    BY DEF BarrierInv, SyncTypes
  <2>1. /\ (\A v \in Worker : ArrivedAt(v)') /\ Together' /\ CountInv'
        /\ \A v \in Worker : Now(v)' = "decided" => Now(v) = "decided"
        /\ SyncTypes'
    <3>1. CASE /\ arrived[w] = -1 /\ barrier.remaining = 1 /\ UNCHANGED arrived
               /\ barrier' = [barrier EXCEPT !.generation = @ + 1,
                                             !.remaining = barrier.participating]
               /\ pc' = [pc EXCEPT ![w] = After(w)]
      <4>1. /\ \A v \in Part : After(v) = After(w) /\ Now(v)' = After(w)
            /\ \A v \in Worker \ Part : Now(v)' = Now(v)
            /\ \A v \in Worker : ArrivedAt(v)'
            /\ Together' /\ CountInv'
        BY <3>1, SyncOpens
      <4>2. After(w) # "decided" /\ After(w) \in Loc BY AfterFacts
      <4>3. barrier' \in [ref_count : Int, participating : Int, remaining : Int,
                          generation : Nat]
        <5> DEFINE b == [barrier EXCEPT !.generation = barrier.generation + 1]
        <5>1. barrier' = [b EXCEPT !.remaining = barrier.participating] BY <3>1
        <5>2. b \in [ref_count : Int, participating : Int, remaining : Int, generation : Nat]
          BY <2>0, SMT
        <5> HIDE DEF b
        <5> QED BY <2>0, <5>1, <5>2
      <4>4. SyncTypes' BY <2>0, <3>1, <4>2, <4>3 DEF BarrierInv, SyncTypes
      <4> QED BY <4>1, <4>2, <4>4
    <3>2. CASE \/ /\ arrived[w] = -1
                  /\ barrier.remaining # 1
                  /\ barrier' = [barrier EXCEPT !.remaining = @ - 1]
                  /\ arrived' = [arrived EXCEPT ![w] = barrier.generation]
                  /\ UNCHANGED pc
               \/ /\ arrived[w] \notin {-1, barrier.generation}
                  /\ arrived' = [arrived EXCEPT ![w] = -1]
                  /\ pc' = [pc EXCEPT ![w] = After(w)]
                  /\ UNCHANGED barrier
      <4>1. /\ \A v \in Worker : Now(v)' = Now(v) /\ ArrivedAt(v)'
            /\ Together' /\ CountInv'
        BY <3>2, SyncStays
      <4>2. SyncTypes' BY <2>0, <3>2, AfterFacts, SMT DEF BarrierInv, SyncTypes
      <4> QED BY <4>1, <4>2
    <3> QED BY <3>1, <3>2 DEF Sync
  <2>2. pc' = pc \/ pc' = [pc EXCEPT ![w] = After(w)] BY DEF Sync
  <2>3. \A v \in Worker : Busy(v)' <=> Busy(v)
    <3>1. CASE pc' = pc BY <3>1 DEF Busy
    <3>2. CASE pc' = [pc EXCEPT ![w] = After(w)]
      <4>1. pc'[w] = After(w) /\ \A v \in Worker \ {w} : pc'[v] = pc[v] BY <2>0, <3>2
      <4>2. Busy(w)' <=> Busy(w) BY <4>1 DEF Busy, After, BarrierLoc
      <4>3. \A v \in Worker \ {w} : Busy(v)' <=> Busy(v) BY <4>1 DEF Busy
      <4> QED BY <4>2, <4>3
    <3> QED BY <2>2, <3>1, <3>2
  <2>4. \A v \in Worker : pc'[v] = "announce" => more_to_mark'[v]
    <3>1. After(w) # "announce" BY DEF After
    <3> QED BY <2>0, <2>2, <3>1 DEF BarrierInv, BusyInv
  <2>5. BusyInv' BY <2>1, <2>3, <2>4, <1>BusySame
  <2> QED BY <2>1, <2>5 DEF BarrierInv
<1> USE DEF shareVars, heapVars, workVars
<1>1. ASSUME NEW w \in Worker, Launch(w) PROVE BarrierInv' BY <1>1, <1>LaunchSteps
<1>2. ASSUME NEW w \in Worker, Enter(w) PROVE BarrierInv' BY <1>2, <1>EnterSteps
<1>3. ASSUME NEW w \in Worker, WorkerStep(w) PROVE BarrierInv'
  <2>1. ASSUME pc[w] \in BarrierLoc, Sync(w, After(w)),
               UNCHANGED <<num_busy, asleep, blockVars, heapVars, workVars, sliceVars>>
        PROVE  BarrierInv'
    BY <2>1, <1>SyncSteps
  <2> QED BY <1>3, <2>1, <1>StartSteps, <1>MarkingSteps, <1>WaitSteps, <1>QuietSteps, <1>AnnounceSteps,
             <1>DecideSteps, <1>LeaveSteps, SyncIsAfter DEF WorkerStep
<1>4. CASE FinalizeMarking BY <1>4, <1>FinalizeSteps
<1>5. CASE Wakeup BY <1>5, <1>BarrierUnchanged DEF Wakeup, SpuriousWakeup
<1>6. CASE UNCHANGED vars BY <1>6, <1>BarrierUnchanged DEF vars
<1> QED BY <1>1, <1>2, <1>3, <1>4, <1>5, <1>6 DEF Next

(* On the deferred marking stack or in a local block of it.                *)
Held(o) == o \in deferred \/ \E w \in Worker : o \in local_deferred[w]

(* Marked, or a worker or a root slice will come to it.                    *)
Known(p) ==
  \/ p \in marked
  \/ Held(p)
  \/ \E w \in Worker : p \in scan[w] \/ p \in acquire[w]
  \/ \E s \in DOMAIN heap.roots : s > root_slices_started_ /\ p \in heap.roots[s]

(* On the marking stack or in a local block of it.                         *)
Gray(o) ==
  \/ \E b \in stack : o \in b
  \/ \E w \in Worker : o \in local_input_[w] \/ o \in local_output_[w]

(* On a delayed list, or taken from one by ProcessPendingWeakProperties.   *)
Listed(o) ==
  o \in global_list_ \/ \E w \in Worker : o \in delayed_[w] \/ o \in pending[w]

Weak(o) == M!Weak(heap, o)

(* What o holds is found, or o waits for its key.                          *)
Settled(o) ==
  /\ \/ \A p \in heap.ptr[o] : Known(p)
     \/ Is(o, "property") /\ (Listed(o) \/ o \in cleared)
  /\ Weak(o) => Known(heap.key[o]) \/ Listed(o) \/ o \in cleared

-----------------------------------------------------------------------------
(* The invariant about the objects.                                        *)

DataTypes ==
  /\ heap \in Heaps /\ live = M!Live(heap)
  /\ marked \subseteq Obj /\ deferred \subseteq Obj /\ global_list_ \subseteq Obj
  /\ stack \subseteq SUBSET Obj /\ {} \notin stack
  /\ local_input_ \in [Worker -> SUBSET Obj] /\ local_output_ \in [Worker -> SUBSET Obj]
  /\ local_deferred \in [Worker -> SUBSET Obj] /\ delayed_ \in [Worker -> SUBSET Obj]
  /\ scan \in [Worker -> SUBSET Obj] /\ pending \in [Worker -> SUBSET Obj]
  /\ acquire \in [Worker -> SUBSET Obj]
  /\ root_slices_started_ \in Nat /\ weak_slices_started_ \in Nat
  /\ asleep \subseteq Worker
  /\ cleared \subseteq Obj

(* Only live objects are found.  A deferred object was so from the start   *)
(* or is code.                                                             *)
Sound ==
  /\ \A p \in Obj : Known(p) => p \in live
  /\ \A o \in Obj : Held(o) => o \in heap.deferred \/ Is(o, "code")

(* No live object is lost.                                                 *)
Traced ==
  /\ \A p \in heap.marked \cup heap.deferred \cup M!Roots(heap) : Known(p)
  /\ \A o \in marked : Gray(o) \/ Held(o) \/ Settled(o)
  /\ \A w \in Worker : \A o \in acquire[w] :
       acquire[w] = {o} /\ \A p \in M!AllPtrs(heap, o) : Known(p)
  /\ \A o \in heap.deferred : Held(o) \/ \A p \in M!AllPtrs(heap, o) : Known(p)

(* An object is in one block of the marking stack at most.                 *)
GrayOnce ==
  /\ \A b, c \in stack : b # c => b \cap c = {}
  /\ \A w \in Worker :
       /\ local_input_[w] \cap local_output_[w] = {}
       /\ \A b \in stack : b \cap (local_input_[w] \cup local_output_[w]) = {}
       /\ \A v \in Worker \ {w} :
            (local_input_[v] \cup local_output_[v])
              \cap (local_input_[w] \cup local_output_[w]) = {}
  /\ \A o \in Obj : Gray(o) => o \in marked

(* A weak object is on one list at most, once it has left the stack.       *)
ListedOnce ==
  /\ \A w \in Worker :
       /\ delayed_[w] \cap pending[w] = {}
       /\ global_list_ \cap (delayed_[w] \cup pending[w]) = {}
       /\ \A v \in Worker \ {w} :
            (delayed_[v] \cup pending[v]) \cap (delayed_[w] \cup pending[w]) = {}
       /\ \A o \in pending[w] : Is(o, "property")
  /\ \A o \in Obj : Listed(o) => o \in marked /\ ~Gray(o) /\ Weak(o)

TraceInv == DataTypes /\ Sound /\ Traced /\ GrayOnce /\ ListedOnce

-----------------------------------------------------------------------------
(* The invariant about the places in the code.                             *)

(* The worker will look at the marking stack before it stops.              *)
WillCheck(w) ==
  \/ Now(w) \in {"launch", "start", "roots", "deferred", "first", "drain", "weak", "again"}
  \/ /\ Now(w) \in {"first_weak", "pending", "announce", "announced", "decide", "decided"}
     /\ more_to_mark[w]

Leftover(w) ==
  /\ scan[w] # {} =>
       Now(w) \in {"roots", "deferred", "drain", "first_weak", "weak", "pending"}
  /\ Now(w) \in {"first_weak", "pending"} /\ ~more_to_mark[w] => scan[w] \subseteq marked
  /\ acquire[w] # {} => Now(w) \in {"deferred", "deferred2"}
  /\ pending[w] # {} => Now(w) \in {"first_weak", "weak", "pending"}
  /\ local_input_[w] \cup local_output_[w] # {} => WillCheck(w)
  /\ local_deferred[w] # {} =>
       Now(w) \notin {"queued", "gone", "marked"} \cup Mourning \cup Ended
  /\ Now(w) \notin {"none", "launch"} => \A o \in local_deferred[w] : Is(o, "code")
  /\ Now(w) \in {"queued", "gone", "weak_roots", "end"} \cup Ended =>
       \A o \in delayed_[w] : Is(o, "entry")

-----------------------------------------------------------------------------
(* The heap and what is live in it.                                        *)

\* What HeapsAssumption says of the heap at hand.
LEMMA HeapFacts ==
    ASSUME heap \in Heaps
    PROVE  /\ heap.ptr \in [Obj -> SUBSET Obj]
           /\ \A o \in Obj : Weak(o) => heap.key[o] \in Obj /\ ~Is(heap.key[o], "code")
           /\ \A o \in Obj : Is(o, "code") => heap.ptr[o] = {} /\ ~Weak(o)
           /\ \A o \in Obj : M!AllPtrs(heap, o) \subseteq Obj
           /\ \A o \in Obj : heap.ptr[o] \subseteq M!AllPtrs(heap, o)
           /\ \A o \in Obj : Weak(o) => heap.key[o] \in M!AllPtrs(heap, o)
           /\ \A o \in Obj : Is(o, "code") => M!AllPtrs(heap, o) = {}
           /\ \A o \in Obj : \A p \in M!AllPtrs(heap, o) :
                p \in heap.ptr[o] \/ (Weak(o) /\ p = heap.key[o])
           /\ \A o \in Obj : Is(o, "property") \/ Is(o, "reference") \/ Is(o, "entry")
                               <=> Weak(o)
           /\ heap.marked \subseteq Obj /\ heap.deferred \subseteq Obj
           /\ Len(heap.roots) \in Nat /\ DOMAIN heap.roots = 1..Len(heap.roots)
           /\ \A s \in DOMAIN heap.roots : heap.roots[s] \subseteq Obj
           /\ M!Roots(heap) \subseteq Obj
<1> USE Zenon
<1>1. M!HeapTypes(heap) BY HeapsAssumption DEF M!WellFormed
<1>2. \A o \in Obj : Is(o, "property") \/ Is(o, "reference") \/ Is(o, "entry") <=> Weak(o)
  BY DEF Weak, M!Weak, Is
<1>3. \A o \in Obj : Is(o, "code") => ~Weak(o) BY DEF Weak, M!Weak, Is
<1>4. /\ heap.ptr \in [Obj -> SUBSET Obj]
      /\ \A o \in Obj : Is(o, "code") => heap.ptr[o] = {}
      /\ \A o \in Obj : Weak(o) => heap.key[o] \in Obj /\ ~Is(heap.key[o], "code")
      /\ heap.roots \in Seq(SUBSET Obj)
      /\ heap.marked \subseteq Obj /\ heap.deferred \subseteq Obj
  BY <1>1 DEF M!HeapTypes, Weak, Is
<1>5. \A o : M!AllPtrs(heap, o) = heap.ptr[o] \cup IF Weak(o) THEN {heap.key[o]} ELSE {}
  BY DEF M!AllPtrs, Weak
<1>6. /\ Len(heap.roots) \in Nat /\ DOMAIN heap.roots = 1..Len(heap.roots)
      /\ \A s \in DOMAIN heap.roots : heap.roots[s] \subseteq Obj
  BY <1>4, SMT
<1>7. M!Roots(heap) \subseteq Obj BY <1>6 DEF M!Roots
<1> QED BY <1>2, <1>3, <1>4, <1>5, <1>6, <1>7, SMT

\* live is the least closed set that holds what is known at the start.
LEMMA LiveFacts ==
    ASSUME heap \in Heaps, live = M!Live(heap)
    PROVE  /\ live \subseteq Obj
           /\ heap.marked \cup heap.deferred \cup M!Roots(heap) \subseteq live
           /\ M!Closed(heap, live)
           /\ \A S \in SUBSET Obj :
                heap.marked \cup heap.deferred \cup M!Roots(heap) \subseteq S
                  /\ M!Closed(heap, S) => live \subseteq S
<1> USE Zenon
<1> DEFINE Base == heap.marked \cup heap.deferred \cup M!Roots(heap)
<1>0. Base \subseteq Obj BY HeapFacts
<1> HIDE DEF Base
<1>1. live = {o \in Obj : \A S \in SUBSET Obj : (Base \subseteq S /\ M!Closed(heap, S)) => o \in S}
  BY DEF M!Live, Base
<1>2. live \subseteq Obj /\ Base \subseteq live BY <1>0, <1>1
<1>3. ASSUME NEW S \in SUBSET Obj, Base \subseteq S /\ M!Closed(heap, S)
      PROVE  live \subseteq S
  BY <1>1, <1>3
<1>4. ASSUME NEW o \in live, Is(o, "property") => heap.key[o] \in live
      PROVE  heap.ptr[o] \subseteq live
  <2>1. SUFFICES ASSUME NEW p \in heap.ptr[o], NEW S \in SUBSET Obj,
                        Base \subseteq S /\ M!Closed(heap, S)
                 PROVE  p \in Obj /\ p \in S
    BY <1>1, HeapFacts
  <2>2. o \in Obj /\ o \in S BY <1>2, <1>3, <2>1
  <2>3. Is(o, "property") => heap.key[o] \in S BY <1>3, <1>4, <2>1
  <2> QED BY <2>1, <2>2, <2>3, HeapFacts DEF M!Closed, Is
<1>5. ASSUME NEW o \in live, o \in heap.deferred
      PROVE  M!AllPtrs(heap, o) \subseteq live
  <2>1. SUFFICES ASSUME NEW p \in M!AllPtrs(heap, o), NEW S \in SUBSET Obj,
                        Base \subseteq S /\ M!Closed(heap, S)
                 PROVE  p \in Obj /\ p \in S
    BY <1>1, <1>2, HeapFacts
  <2>2. o \in Obj /\ o \in S BY <1>2, <1>3, <2>1
  <2> QED BY <1>5, <2>1, <2>2, HeapFacts DEF M!Closed
<1>6. M!Closed(heap, live) BY <1>4, <1>5 DEF M!Closed, Is
<1> QED BY <1>2, <1>3, <1>6 DEF Base

\* Where a worker is when it is not in Sync.
\* Where a worker is when it is not in Sync.
LEMMA NowIsPc ==
    ASSUME BarrierInv, NEW w \in Worker, pc[w] \notin BarrierLoc
    PROVE  Now(w) = pc[w]
BY Zenon DEF BarrierInv, ArrivedAt, Now, Released

\* All the helpers are launched when the main thread goes on.
LEMMA NotNone ==
    ASSUME BarrierInv, NEW w \in Worker, Now(Main) # "launch"
    PROVE  Now(w) # "none"
<1> USE Zenon
<1>1. SUFFICES ASSUME Now(w) = "none" PROVE FALSE OBVIOUS
<1>2. pc[w] = "none"
  BY <1>1, AfterFacts DEF Now, Released, BarrierInv, ArrivedAt
<1>3. pc[Main] = "launch" BY <1>2 DEF BarrierInv, ArrivedAt
<1>4. Now(Main) = "launch" BY <1>3, NowIsPc, MainIsWorker DEF BarrierLoc
<1> QED BY <1>4

\* When the main thread is past the last barrier all are.
LEMMA AllEnded ==
    ASSUME BarrierInv, Now(Main) \in Ended, NEW w \in Worker
    PROVE  Now(w) \in Ended \cup {"queued", "gone"}
<1>1. PICK S \in Sections :
        Now(Main) \in S /\ \A v \in Worker : Now(v) \in S \cup Outside
  BY Zenon DEF BarrierInv, Together
<1>2. S = Ended BY <1>1, SectionFacts DEF Sections
<1>3. Now(w) # "none" BY NotNone, Zenon DEF Ended
<1> QED BY <1>1, <1>2, <1>3, Zenon DEF Ended, Outside

\* There is a list of weak slices, numbered from 1.
LEMMA SlotFacts ==
    /\ Len(WeakSlots) \in Nat /\ DOMAIN WeakSlots = 1..Len(WeakSlots)
    /\ \A s \in DOMAIN WeakSlots : s \in Nat /\ ~(s <= 0)
  BY SlotsAssumption

\* A count that stays as it is has not fallen.
LEMMA SameIsNoLess == \A n \in Nat : n >= n OBVIOUS

-----------------------------------------------------------------------------
(* The initial states: what WellFormed says of concurrent marking.         *)

LEMMA TraceInit == ASSUME Init PROVE TraceInv
<1> USE Zenon
<1> USE DEF Init, ShareInit, None
<1>0. heap \in Heaps /\ live = M!Live(heap) /\ M!WellFormed(heap)
      /\ DOMAIN heap.delayed = 1..NumTasks + 1
  BY HeapsAssumption, ZenonT(30)
<1>1. M!HeapTypes(heap) BY <1>0, ZenonT(30) DEF M!WellFormed
<1>2. /\ 1 \in Worker /\ Worker \subseteq DOMAIN heap.delayed
      /\ NumTasks + 1 \in DOMAIN heap.delayed /\ NumTasks + 1 \notin Worker
      /\ \A i \in DOMAIN heap.delayed : i \in Worker \/ i = NumTasks + 1
  BY <1>0, TasksAssumption, SMT DEF Worker
<1>3. /\ heap.marked \subseteq Obj /\ heap.deferred \subseteq Obj
      /\ heap.gray \subseteq heap.marked
  BY <1>1, ZenonT(30) DEF M!HeapTypes
<1>4. \A i \in DOMAIN heap.delayed : \A o \in heap.delayed[i] :
        o \in heap.marked /\ o \notin heap.gray /\ Weak(o)
  BY <1>0, ZenonT(30) DEF M!WellFormed, Weak
<1>5. \A i, j \in DOMAIN heap.delayed : i # j => heap.delayed[i] \cap heap.delayed[j] = {}
  BY <1>0, ZenonT(30) DEF M!WellFormed
<1>6. \A w \in Worker : /\ scan[w] = {} /\ acquire[w] = {} /\ pending[w] = {}
                        /\ local_input_[w] = {} /\ local_output_[w] = {}
                        /\ delayed_[w] = heap.delayed[w]
                        /\ local_deferred[w] = IF w = 1 THEN heap.deferred ELSE {}
  OBVIOUS
<1>7. DataTypes
  <2>1. \A w \in Worker : heap.delayed[w] \subseteq Obj BY <1>2, <1>3, <1>4, ZenonT(30)
  <2>2. global_list_ \subseteq Obj BY <1>2, <1>3, <1>4, ZenonT(30)
  <2> QED BY <1>0, <1>3, <2>1, <2>2, ZenonT(30) DEF DataTypes
<1>8. \A o : Held(o) <=> o \in heap.deferred BY <1>2, <1>6, ZenonT(30) DEF Held
<1>9. \A o : Gray(o) <=> o \in heap.gray BY <1>6, ZenonT(30) DEF Gray
<1>10. \A o : Listed(o) <=> \E i \in DOMAIN heap.delayed : o \in heap.delayed[i]
  BY <1>2, <1>6, ZenonT(30) DEF Listed
<1>11. \A p : Known(p) <=> p \in heap.marked \cup heap.deferred \cup M!Roots(heap)
  <2>1. \A s \in DOMAIN heap.roots : s > 0 BY <1>0, HeapFacts, SMT
  <2>2. \A p : p \in M!Roots(heap) <=> \E s \in DOMAIN heap.roots : p \in heap.roots[s]
    BY DEF M!Roots
  <2> QED BY <1>6, <1>8, <2>1, <2>2, ZenonT(30) DEF Known
<1>12. Sound BY <1>0, <1>8, <1>11, LiveFacts DEF Sound
<1>13. Traced
  <2>1. ASSUME NEW o \in marked, ~Gray(o), ~Held(o) PROVE Settled(o)
    <3>1. o \in heap.marked \ (heap.gray \cup heap.deferred) BY <1>8, <1>9, <2>1, ZenonT(30)
    <3>2. \/ heap.ptr[o] \subseteq heap.marked \cup heap.deferred \cup M!Roots(heap)
          \/ Is(o, "property") /\ o \in M!Delayed(heap)
      BY <1>0, <3>1, ZenonT(30) DEF M!WellFormed, Is
    <3>3. Weak(o) => \/ heap.key[o] \in heap.marked \cup heap.deferred \cup M!Roots(heap)
                     \/ o \in M!Delayed(heap)
      BY <1>0, <3>1, ZenonT(30) DEF M!WellFormed, Weak
    <3>4. o \in M!Delayed(heap) => Listed(o) BY <1>10 DEF M!Delayed
    <3> QED BY <1>11, <3>2, <3>3, <3>4, ZenonT(30) DEF Settled
  <2>2. \A w \in Worker : acquire[w] = {} BY <1>6
  <2> QED BY <1>8, <1>11, <2>1, <2>2 DEF Traced
<1>14. GrayOnce
  <2>1. \A b \in stack : b = heap.gray OBVIOUS
  <2>2. \A o \in Obj : Gray(o) => o \in marked BY <1>3, <1>9, ZenonT(30)
  <2> QED BY <1>6, <2>1, <2>2, ZenonT(30) DEF GrayOnce
<1>15. ListedOnce
  <2>1. \A o \in Obj : Listed(o) => o \in marked /\ ~Gray(o) /\ Weak(o)
    BY <1>4, <1>9, <1>10, ZenonT(30)
  <2>2. \A w \in Worker : /\ pending[w] = {} /\ delayed_[w] = heap.delayed[w]
                          /\ global_list_ = heap.delayed[NumTasks + 1]
    BY <1>6
  <2>3. \A w \in Worker : global_list_ \cap delayed_[w] = {} BY <1>2, <1>5, <2>2, ZenonT(30)
  <2>4. \A v, w \in Worker : v # w => delayed_[v] \cap delayed_[w] = {}
    BY <1>2, <1>5, <2>2, ZenonT(30)
  <2> QED BY <2>1, <2>2, <2>3, <2>4, ZenonT(30) DEF ListedOnce
<1> QED BY <1>7, <1>12, <1>13, <1>14, <1>15, ZenonT(30) DEF TraceInv

LEMMA TraceNext ==
    ASSUME BarrierInv, TraceInv, \A w \in Worker : Leftover(w), [Next]_vars, ~IsFull({})
    PROVE  TraceInv'
\* What a live object holds is live.
<1> USE Zenon
<1>LiveHolds.
      ASSUME heap \in Heaps, live = M!Live(heap), NEW o \in live
      PROVE  /\ o \in Obj
             /\ (Is(o, "property") => heap.key[o] \in live) => heap.ptr[o] \subseteq live
             /\ Is(o, "property") /\ heap.key[o] \in live => M!AllPtrs(heap, o) \subseteq live
             /\ o \in heap.deferred => M!AllPtrs(heap, o) \subseteq live
  <2> USE <1>LiveHolds
  <2>1. o \in Obj /\ M!Closed(heap, live) BY LiveFacts
  <2>2. /\ (Is(o, "property") => heap.key[o] \in live) => heap.ptr[o] \subseteq live
        /\ o \in heap.deferred => M!AllPtrs(heap, o) \subseteq live
    BY <2>1 DEF M!Closed, Is
  <2> QED BY <2>1, <2>2, HeapFacts
\* What a step must not lose for the objects to stay traced.
<1>TracedStep.
      ASSUME TraceInv, UNCHANGED heap, marked \subseteq marked', marked' \subseteq Obj,
             acquire' \in [Worker -> SUBSET Obj],
             \A p \in Obj : Known(p) => Known(p)',
             \A o \in Obj : Gray(o) => Gray(o)' \/ Settled(o)',
             \A o \in Obj : Held(o) =>
               Held(o)' \/ \A p \in M!AllPtrs(heap, o) : Known(p)',
             \A o \in Obj : Listed(o) \/ o \in cleared =>
               \/ Listed(o)' \/ o \in cleared'
               \/ \A p \in M!AllPtrs(heap, o) : Known(p)'
               \/ ~Is(o, "property") /\ Known(heap.key[o])',
             \A o \in marked' \ marked :
               Gray(o)' \/ \A p \in M!AllPtrs(heap, o) : Known(p)',
             \A w \in Worker : \A o \in acquire'[w] :
               acquire'[w] = {o} /\ \A p \in M!AllPtrs(heap, o) : Known(p)'
      PROVE  Traced'
  <2> USE <1>TracedStep
  <2>0. heap \in Heaps BY DEF TraceInv, DataTypes
  <2>1. \A o \in Obj : (\A p \in M!AllPtrs(heap, o) : Known(p)') => Settled(o)'
    BY <2>0, HeapFacts DEF Settled, Weak, Is
  <2>2. ASSUME NEW o \in Obj, Settled(o) PROVE Settled(o)'
    <3>1. (\A p \in heap.ptr[o] : Known(p)) => \A p \in heap.ptr[o] : Known(p)'
      BY <2>0, HeapFacts
    <3>2. Weak(o) => (Known(heap.key[o]) => Known(heap.key[o])') BY <2>0, HeapFacts
    <3>3. Is(o, "property") => Weak(o) BY <2>0, HeapFacts
    <3>4. Is(o, "property")' <=> Is(o, "property") BY DEF Is
    <3>5. Weak(o)' <=> Weak(o) BY DEF Weak, M!Weak
    <3>6. CASE \A p \in M!AllPtrs(heap, o) : Known(p)' BY <2>1, <3>6
    <3>7. CASE Listed(o) \/ o \in cleared => Listed(o)' \/ o \in cleared'
      BY <2>2, <3>1, <3>2, <3>4, <3>5, <3>7 DEF Settled
    <3>8. CASE ~Is(o, "property") /\ Known(heap.key[o])'
      BY <2>2, <3>1, <3>2, <3>4, <3>5, <3>8 DEF Settled
    <3> QED BY <3>6, <3>7, <3>8
  <2>3. \A p \in heap'.marked \cup heap'.deferred \cup M!Roots(heap)' : Known(p)'
    <3>1. heap.marked \cup heap.deferred \cup M!Roots(heap) \subseteq Obj BY <2>0, HeapFacts
    <3>2. M!Roots(heap)' = M!Roots(heap) BY SMT DEF M!Roots
    <3> QED BY <3>1, <3>2 DEF TraceInv, Traced
  <2>4. \A o : M!AllPtrs(heap, o)' = M!AllPtrs(heap, o) BY DEF M!AllPtrs, M!Weak
  <2>5. ASSUME NEW o \in marked' PROVE Gray(o)' \/ Held(o)' \/ Settled(o)'
    <3>1. o \in Obj OBVIOUS
    <3>2. CASE o \in marked
      BY <2>1, <2>2, <3>1, <3>2 DEF TraceInv, Traced
    <3>3. CASE o \notin marked BY <2>1, <3>1, <3>3
    <3> QED BY <3>2, <3>3
  <2>6. \A o \in heap'.deferred :
          Held(o)' \/ \A p \in M!AllPtrs(heap, o)' : Known(p)'
    BY <2>0, <2>4, HeapFacts DEF TraceInv, Traced
  <2> QED BY <2>3, <2>4, <2>5, <2>6 DEF Traced
\* A step that finds no more than what live objects hold.
<1>SoundStep.
      ASSUME TraceInv, UNCHANGED <<heap, live>>,
             \A p \in Obj : Known(p)' => Known(p) \/ p \in live,
             \A o \in Obj : Held(o)' => Held(o) \/ Is(o, "code")
      PROVE  Sound'
  BY <1>SoundStep DEF TraceInv, Sound, Is
\* The lists stay as they are, or an object moves from one to another.
<1>ListedSame.
      ASSUME TraceInv, UNCHANGED <<heap, delayed_, pending, global_list_>>,
             marked \subseteq marked',
             \A o \in marked : Gray(o)' => Gray(o)
      PROVE  ListedOnce' /\ \A o : Listed(o)' <=> Listed(o)
  <2> USE <1>ListedSame
  <2>1. \A o : Listed(o)' <=> Listed(o) BY DEF Listed
  <2>2. \A o : Weak(o)' <=> Weak(o) BY DEF Weak, M!Weak
  <2>3. \A o : Is(o, "property")' <=> Is(o, "property") BY DEF Is
  <2> QED BY <2>1, <2>2, <2>3 DEF TraceInv, ListedOnce
<1>GraySame.
      ASSUME TraceInv, UNCHANGED blockVars, marked \subseteq marked'
      PROVE  GrayOnce' /\ \A o : Gray(o)' <=> Gray(o)
  <2> USE <1>GraySame
  <2>1. \A o : Gray(o)' <=> Gray(o) BY DEF Gray, blockVars
  <2> QED BY <2>1 DEF TraceInv, GrayOnce, blockVars
<1>TraceUnchanged.
      ASSUME TraceInv, UNCHANGED <<heap, live, marked, deferred, local_deferred, delayed_,
                                   global_list_, scan, acquire, pending,
                                   root_slices_started_, cleared, blockVars>>,
             asleep' \subseteq Worker, weak_slices_started_' \in Nat
      PROVE  TraceInv'
  <2> USE <1>TraceUnchanged
  <2>1. DataTypes' BY DEF TraceInv, DataTypes, blockVars
  <2>2. \A o : (Held(o)' <=> Held(o)) /\ (Known(o)' <=> Known(o)) BY DEF Held, Known
  <2>3. GrayOnce' /\ \A o : Gray(o)' <=> Gray(o) BY <1>GraySame
  <2>4. ListedOnce' /\ \A o : Listed(o)' <=> Listed(o) BY <2>3, <1>ListedSame
  <2>5. Sound' BY <2>2, <1>SoundStep
  <2>6. Traced' BY <2>2, <2>3, <2>4, <1>TracedStep DEF TraceInv, DataTypes, Traced
  <2> QED BY <2>1, <2>3, <2>4, <2>5, <2>6 DEF TraceInv
<1>LaunchTrace.
      ASSUME TraceInv, NEW w \in Worker, Launch(w)
      PROVE  TraceInv'
  <2> USE <1>LaunchTrace
  <2> USE DEF shareVars, heapVars, sliceVars
  <2>0. /\ delayed_ \in [Worker -> SUBSET Obj] /\ local_deferred \in [Worker -> SUBSET Obj]
        /\ global_list_ \subseteq Obj /\ deferred \subseteq Obj /\ heap \in Heaps
    BY DEF TraceInv, DataTypes
  <2>1. /\ UNCHANGED <<heap, live, marked, scan, acquire, pending, root_slices_started_,
                       weak_slices_started_, cleared, asleep>>
        /\ UNCHANGED blockVars
        /\ deferred' = deferred \cup local_deferred[w]
        /\ local_deferred' = [local_deferred EXCEPT ![w] = {}]
    BY DEF Launch, FlushDeferred
  <2>2. \/ /\ delayed_' = [delayed_ EXCEPT ![w] = global_list_ \cup delayed_[w]]
           /\ global_list_' = {}
        \/ /\ global_list_' = global_list_ \cup delayed_[w]
           /\ delayed_' = [delayed_ EXCEPT ![w] = {}]
    BY DEF Launch, FlushedList
  <2>3. DataTypes' BY <2>0, <2>1, <2>2, SMT DEF TraceInv, DataTypes, blockVars
  <2>4. \A o : Held(o)' <=> Held(o) BY <2>0, <2>1 DEF Held
  <2>5. \A o : Known(o)' <=> Known(o) BY <2>1, <2>4 DEF Known
  <2>6. GrayOnce' /\ \A o : Gray(o)' <=> Gray(o) BY <2>1, <1>GraySame
  <2>7. \A o : Listed(o)' <=> Listed(o) BY <2>0, <2>1, <2>2 DEF Listed
  <2>8. ListedOnce'
    <3>1. ASSUME NEW v \in Worker
          PROVE  /\ delayed_'[v] \cap pending'[v] = {}
                 /\ global_list_' \cap (delayed_'[v] \cup pending'[v]) = {}
                 /\ \A u \in Worker \ {v} :
                      (delayed_'[u] \cup pending'[u]) \cap (delayed_'[v] \cup pending'[v]) = {}
                 /\ \A o \in pending'[v] : Is(o, "property")'
      BY <2>0, <2>1, <2>2, SMT DEF TraceInv, ListedOnce, Is
    <3>2. \A o : Weak(o)' <=> Weak(o) BY <2>1 DEF Weak, M!Weak
    <3>3. \A o \in Obj : Listed(o)' => o \in marked' /\ ~Gray(o)' /\ Weak(o)'
      BY <2>1, <2>6, <2>7, <3>2 DEF TraceInv, ListedOnce
    <3> QED BY <3>1, <3>3 DEF ListedOnce
  <2>9. Sound' BY <2>1, <2>4, <2>5, <1>SoundStep
  <2>10. Traced' BY <2>1, <2>4, <2>5, <2>6, <2>7, <1>TracedStep DEF TraceInv, DataTypes, Traced
  <2> QED BY <2>3, <2>6, <2>8, <2>9, <2>10 DEF TraceInv
\* A newly marked object is pushed.
<1>PushFacts.
      ASSUME TraceInv, NEW w \in Worker, NEW o \in Obj, o \notin marked,
             marked' = marked \cup {o}, Push(w, o), ~IsFull({})
      PROVE  /\ GrayOnce'
             /\ stack' \subseteq SUBSET Obj /\ {} \notin stack' /\ asleep' \subseteq Worker
             /\ local_input_' \in [Worker -> SUBSET Obj]
             /\ local_output_' \in [Worker -> SUBSET Obj]
             /\ \A x : Gray(x)' <=> Gray(x) \/ x = o
  <2> USE <1>PushFacts
  <2>0. /\ stack \subseteq SUBSET Obj /\ {} \notin stack /\ asleep \subseteq Worker
        /\ local_input_ \in [Worker -> SUBSET Obj] /\ local_output_ \in [Worker -> SUBSET Obj]
    BY DEF TraceInv, DataTypes
  <2>1. ~Gray(o) BY DEF TraceInv, GrayOnce
  <2>2. asleep' \subseteq Worker BY <2>0 DEF Push, NotifyIf
  <2>3. CASE /\ IsFull(local_output_[w])
             /\ stack' = stack \cup {local_output_[w]}
             /\ local_output_' = [local_output_ EXCEPT ![w] = {o}]
             /\ UNCHANGED local_input_
    <3>1. local_output_[w] # {} BY <2>3
    <3>2. \A x : Gray(x)' <=> Gray(x) \/ x = o
      <4>1. ASSUME NEW x, Gray(x)' PROVE Gray(x) \/ x = o
        BY <2>0, <2>3, <4>1, SMT DEF Gray
      <4>2. ASSUME NEW x, Gray(x) PROVE Gray(x)'
        <5>1. CASE \E b \in stack : x \in b BY <2>3, <5>1 DEF Gray
        <5>2. ASSUME NEW v \in Worker, x \in local_input_[v] PROVE Gray(x)'
          BY <2>3, <5>2 DEF Gray
        <5>3. ASSUME NEW v \in Worker, x \in local_output_[v] PROVE Gray(x)'
          <6>1. CASE v = w BY <2>3, <5>3, <6>1 DEF Gray
          <6>2. CASE v # w
            <7>1. local_output_'[v] = local_output_[v] BY <2>0, <2>3, <6>2
            <7> QED BY <5>3, <7>1 DEF Gray
          <6> QED BY <6>1, <6>2
        <5> QED BY <4>2, <5>1, <5>2, <5>3 DEF Gray
      <4>3. Gray(o)'
        <5>1. o \in local_output_'[w] BY <2>0, <2>3
        <5> QED BY <5>1 DEF Gray
      <4> QED BY <4>1, <4>2, <4>3
    <3>3. GrayOnce'
      <4>1. \A b \in stack : o \notin b BY <2>1 DEF Gray
      <4>2. \A v \in Worker : o \notin local_input_[v] /\ o \notin local_output_[v]
        BY <2>1 DEF Gray
      <4>3. \A v \in Worker : local_output_'[v] = IF v = w THEN {o} ELSE local_output_[v]
        BY <2>0, <2>3
      <4>4. \A b, c \in stack' : b # c => b \cap c = {}
        BY <2>3, SMT DEF TraceInv, GrayOnce
      <4>5. ASSUME NEW v \in Worker
            PROVE  /\ local_input_'[v] \cap local_output_'[v] = {}
                   /\ \A b \in stack' : b \cap (local_input_'[v] \cup local_output_'[v]) = {}
                   /\ \A u \in Worker \ {v} :
                        (local_input_'[u] \cup local_output_'[u])
                          \cap (local_input_'[v] \cup local_output_'[v]) = {}
        BY <2>3, <4>1, <4>2, <4>3, SMT DEF TraceInv, GrayOnce
      <4> QED BY <3>2, <4>4, <4>5 DEF TraceInv, GrayOnce
    <3> QED BY <2>0, <2>2, <2>3, <3>1, <3>2, <3>3, SMT
  <2>4. CASE /\ local_output_' = [local_output_ EXCEPT ![w] = local_output_[w] \cup {o}]
             /\ UNCHANGED <<stack, asleep, local_input_>>
    <3>1. \A v \in Worker : local_output_'[v] = IF v = w THEN local_output_[v] \cup {o}
                                                ELSE local_output_[v]
      BY <2>0, <2>4
    <3>2. \A x : Gray(x)' <=> Gray(x) \/ x = o BY <2>4, <3>1, SMT DEF Gray
    <3>3. GrayOnce'
      <4>1. \A b \in stack : o \notin b BY <2>1 DEF Gray
      <4>2. \A v \in Worker : o \notin local_input_[v] /\ o \notin local_output_[v]
        BY <2>1 DEF Gray
      <4>3. ASSUME NEW v \in Worker
            PROVE  /\ local_input_'[v] \cap local_output_'[v] = {}
                   /\ \A b \in stack' : b \cap (local_input_'[v] \cup local_output_'[v]) = {}
                   /\ \A u \in Worker \ {v} :
                        (local_input_'[u] \cup local_output_'[u])
                          \cap (local_input_'[v] \cup local_output_'[v]) = {}
        BY <2>4, <3>1, <4>1, <4>2, SMT DEF TraceInv, GrayOnce
      <4> QED BY <2>4, <3>2, <4>3 DEF TraceInv, GrayOnce
    <3> QED BY <2>0, <2>4, <3>2, <3>3
  <2> QED BY <2>3, <2>4 DEF Push
<1>MarkObjectTrace.
      ASSUME TraceInv, NEW w \in Worker, MarkObject(w), ~IsFull({})
      PROVE  TraceInv'
  <2> USE <1>MarkObjectTrace
  <2> USE DEF heapVars, sliceVars
  <2>0. /\ scan \in [Worker -> SUBSET Obj] /\ local_deferred \in [Worker -> SUBSET Obj]
        /\ marked \subseteq Obj /\ heap \in Heaps /\ asleep \subseteq Worker
        /\ acquire \in [Worker -> SUBSET Obj]
    BY DEF TraceInv, DataTypes
  <2>1. PICK o \in scan[w] :
          /\ scan' = [scan EXCEPT ![w] = @ \ {o}]
          /\ \/ /\ IsMarked(o)
                /\ UNCHANGED <<marked, local_deferred, blockVars, asleep>>
             \/ /\ ~IsMarked(o)
                /\ Is(o, "code")
                /\ local_deferred' = [local_deferred EXCEPT ![w] = @ \cup {o}]
                /\ UNCHANGED <<marked, blockVars, asleep>>
             \/ /\ ~IsMarked(o)
                /\ ~Is(o, "code")
                /\ marked' = marked \cup {o}
                /\ Push(w, o)
                /\ UNCHANGED local_deferred
    BY DEF MarkObject
  <2>2. UNCHANGED <<heap, live, deferred, delayed_, global_list_, acquire, pending,
                    root_slices_started_, weak_slices_started_, cleared>>
    BY DEF MarkObject
  <2>3. o \in Obj BY <2>0, <2>1
  <2>4. \A v \in Worker : scan'[v] = IF v = w THEN scan[v] \ {o} ELSE scan[v] BY <2>0, <2>1
  <2>5. Known(o) /\ o \in live BY <2>1, <2>3 DEF Known, TraceInv, Sound
  <2>6. /\ marked \subseteq marked' /\ marked' \subseteq marked \cup {o}
        /\ local_deferred' \in [Worker -> SUBSET Obj]
        /\ \A v \in Worker : /\ local_deferred[v] \subseteq local_deferred'[v]
                             /\ local_deferred'[v] \subseteq local_deferred[v] \cup {o}
                             /\ Is(o, "code") \/ local_deferred'[v] = local_deferred[v]
        /\ o \in marked' \/ o \in local_deferred'[w]
    BY <2>0, <2>1, <2>3, SMT DEF IsMarked
  <2>7. /\ \A x \in Obj : Held(x) => Held(x)'
        /\ \A x \in Obj : Held(x)' => Held(x) \/ (x = o /\ Is(o, "code"))
    <3>1. \A x \in Obj : Held(x) => Held(x)' BY <2>2, <2>6 DEF Held
    <3>2. CASE Is(o, "code") BY <2>2, <2>6, <3>1, <3>2, SMT DEF Held
    <3>3. CASE ~Is(o, "code") BY <2>2, <2>6, <3>1, <3>3, SMT DEF Held
    <3> QED BY <3>2, <3>3
  <2>8. \A x \in Obj : (Known(x) => Known(x)') /\ (Known(x)' => Known(x))
    <3>1. Known(o)' BY <2>6 DEF Known, Held
    <3>2. ASSUME NEW x \in Obj, x # o, Known(x) PROVE Known(x)'
      <4>1. CASE x \in marked BY <2>6, <4>1 DEF Known
      <4>2. CASE Held(x) BY <2>7, <4>2 DEF Known
      <4>3. ASSUME NEW v \in Worker, x \in scan[v] \/ x \in acquire[v] PROVE Known(x)'
        <5>1. x \in scan'[v] \/ x \in acquire'[v] BY <2>2, <2>4, <3>2, <4>3
        <5> QED BY <5>1 DEF Known
      <4>4. CASE \E s \in DOMAIN heap.roots : s > root_slices_started_ /\ x \in heap.roots[s]
        BY <2>2, <4>4 DEF Known
      <4> QED BY <3>2, <4>1, <4>2, <4>3, <4>4, SMT DEF Known
    <3>3. ASSUME NEW x \in Obj, Known(x)' PROVE Known(x)
      BY <2>2, <2>4, <2>5, <2>6, <2>7, <3>3 DEF Known
    <3> QED BY <3>1, <3>2, <3>3
  <2>9. /\ GrayOnce'
        /\ stack' \subseteq SUBSET Obj /\ {} \notin stack' /\ asleep' \subseteq Worker
        /\ local_input_' \in [Worker -> SUBSET Obj]
        /\ local_output_' \in [Worker -> SUBSET Obj]
        /\ \A x : Gray(x) => Gray(x)'
        /\ \A x \in marked : Gray(x)' => Gray(x)
        /\ o \in marked' \ marked => Gray(o)'
    <3>1. CASE UNCHANGED <<marked, blockVars, asleep>>
      <4>1. GrayOnce' /\ \A x : Gray(x)' <=> Gray(x) BY <3>1, <1>GraySame
      <4> QED BY <3>1, <4>1 DEF TraceInv, DataTypes, blockVars
    <3>2. CASE ~IsMarked(o) /\ marked' = marked \cup {o} /\ Push(w, o)
      BY <2>3, <3>2, <1>PushFacts DEF IsMarked
    <3> QED BY <2>1, <3>1, <3>2, SMT
  <2>10. ListedOnce' /\ \A x : Listed(x)' <=> Listed(x) BY <2>2, <2>6, <2>9, <1>ListedSame
  <2>11. DataTypes' BY <2>0, <2>1, <2>2, <2>3, <2>6, <2>9 DEF TraceInv, DataTypes
  <2>12. Sound' BY <2>2, <2>7, <2>8, <1>SoundStep
  <2>13. Traced'
    <3>1. marked' \subseteq Obj BY <2>0, <2>3, <2>6
    <3>2. \A x \in marked' \ marked : Gray(x)' BY <2>6, <2>9
    <3>3. \A v \in Worker : \A x \in acquire'[v] :
            acquire'[v] = {x} /\ \A p \in M!AllPtrs(heap, x) : Known(p)'
      BY <2>0, <2>2, <2>8, HeapFacts DEF TraceInv, Traced
    <3> QED BY <2>0, <2>2, <2>6, <2>7, <2>8, <2>9, <2>10, <3>1, <3>2, <3>3, <1>TracedStep
  <2> QED BY <2>9, <2>10, <2>11, <2>12, <2>13 DEF TraceInv
\* A worker goes on to visit the pointers in S.
<1>VisitKnown.
      ASSUME TraceInv, NEW w \in Worker, NEW S \in SUBSET Obj, scan[w] = {}, Visit(w, S),
             UNCHANGED <<heap, marked, deferred, local_deferred, acquire,
                         root_slices_started_>>
      PROVE  /\ scan' \in [Worker -> SUBSET Obj]
             /\ \A x : Held(x)' <=> Held(x)
             /\ \A x : Known(x)' <=> Known(x) \/ x \in S
  <2> USE <1>VisitKnown
  <2>0. scan \in [Worker -> SUBSET Obj] BY DEF TraceInv, DataTypes
  <2>1. scan' \in [Worker -> SUBSET Obj] BY <2>0 DEF Visit
  <2>2. \A v \in Worker : scan'[v] = IF v = w THEN S ELSE scan[v] BY <2>0 DEF Visit
  <2>3. \A x : Held(x)' <=> Held(x) BY DEF Held
  <2> QED BY <2>1, <2>2, <2>3 DEF Known
<1>IterateRootsTrace.
      ASSUME TraceInv, NEW w \in Worker, IterateRoots(w)
      PROVE  TraceInv'
  <2> USE <1>IterateRootsTrace
  <2> USE DEF heapVars, shareVars
  <2>0. /\ scan \in [Worker -> SUBSET Obj] /\ heap \in Heaps /\ root_slices_started_ \in Nat
        /\ live = M!Live(heap) /\ acquire \in [Worker -> SUBSET Obj]
    BY DEF TraceInv, DataTypes
  <2> DEFINE n == root_slices_started_
  <2>1. /\ scan[w] = {} /\ root_slices_started_' = n + 1
        /\ UNCHANGED <<heap, live, marked, deferred, local_deferred, delayed_, global_list_,
                       acquire, pending, weak_slices_started_, cleared, asleep>>
        /\ UNCHANGED blockVars
        /\ \/ n + 1 \in DOMAIN heap.roots /\ Visit(w, heap.roots[n + 1])
           \/ n + 1 \notin DOMAIN heap.roots /\ UNCHANGED scan
    BY DEF IterateRoots, At
  <2>2. \A v \in Worker : v # w => scan'[v] = scan[v] BY <2>0, <2>1 DEF Visit
  <2>3. scan' \in [Worker -> SUBSET Obj] BY <2>0, <2>1, HeapFacts DEF Visit
  <2>4. \A x : Held(x)' <=> Held(x) BY <2>1 DEF Held
  <2>5. \A x : Known(x) => Known(x)'
    <3>1. ASSUME NEW x, NEW s \in DOMAIN heap.roots, s > n, x \in heap.roots[s]
          PROVE  Known(x)'
      <4>1. s \in 1..Len(heap.roots) /\ Len(heap.roots) \in Nat BY <2>0, HeapFacts
      <4>2. n + 1 \in DOMAIN heap.roots BY <2>0, <3>1, <4>1, HeapFacts, SMT
      <4>3. CASE s = n + 1
        <5>1. scan'[w] = heap.roots[s] BY <2>0, <2>1, <4>2, <4>3 DEF Visit
        <5> QED BY <3>1, <5>1 DEF Known
      <4>4. CASE s # n + 1
        <5>1. s > n + 1 BY <2>0, <3>1, <4>1, <4>4, SMT
        <5> QED BY <2>1, <3>1, <5>1 DEF Known
      <4> QED BY <4>3, <4>4
    <3>2. ASSUME NEW x, NEW v \in Worker, x \in scan[v] PROVE Known(x)'
      <4>1. x \in scan'[v] BY <2>1, <2>2, <3>2
      <4> QED BY <4>1 DEF Known
    <3>3. ASSUME NEW x, x \in marked \/ Held(x) \/ \E v \in Worker : x \in acquire[v]
          PROVE  Known(x)'
      BY <2>1, <2>4, <3>3, ZenonT(30) DEF Known
    <3> QED BY <3>1, <3>2, <3>3 DEF Known
  <2>6. \A x \in Obj : Known(x)' => Known(x) \/ x \in live
    <3>1. \A s \in DOMAIN heap.roots : heap.roots[s] \subseteq live
      <4>1. \A s \in DOMAIN heap.roots : heap.roots[s] \subseteq M!Roots(heap)
        BY DEF M!Roots
      <4> QED BY <2>0, <4>1, LiveFacts
    <3>2. \A v \in Worker : \A x \in scan'[v] : x \in scan[v] \/ x \in live
      BY <2>0, <2>1, <2>2, <3>1 DEF Visit
    <3> QED BY <2>1, <2>4, <3>1, <3>2 DEF Known
  <2>7. GrayOnce' /\ \A x : Gray(x)' <=> Gray(x) BY <2>1, <1>GraySame
  <2>8. ListedOnce' /\ \A x : Listed(x)' <=> Listed(x) BY <2>1, <2>7, <1>ListedSame
  <2>9. DataTypes' BY <2>0, <2>1, <2>3, SMT DEF TraceInv, DataTypes, blockVars
  <2>10. Sound' BY <2>1, <2>4, <2>6, <1>SoundStep
  <2>11. Traced'
    <3>1. \A v \in Worker : \A x \in acquire'[v] :
            acquire'[v] = {x} /\ \A p \in M!AllPtrs(heap, x) : Known(p)'
      BY <2>1, <2>5 DEF TraceInv, Traced
    <3> QED BY <2>0, <2>1, <2>4, <2>5, <2>7, <2>8, <3>1, <1>TracedStep DEF TraceInv, DataTypes
  <2> QED BY <2>7, <2>8, <2>9, <2>10, <2>11 DEF TraceInv
<1>DeferredTrace.
      ASSUME TraceInv, NEW w \in Worker, NEW l, NEW next, ProcessDeferredMarking(w, l, next)
      PROVE  TraceInv'
  <2> USE <1>DeferredTrace
  <2> USE DEF heapVars, shareVars, sliceVars
  <2>0. /\ scan \in [Worker -> SUBSET Obj] /\ local_deferred \in [Worker -> SUBSET Obj]
        /\ marked \subseteq Obj /\ heap \in Heaps /\ deferred \subseteq Obj
        /\ acquire \in [Worker -> SUBSET Obj] /\ live = M!Live(heap)
    BY DEF TraceInv, DataTypes
  <2>1. /\ scan[w] = {}
        /\ UNCHANGED <<heap, live, delayed_, global_list_, pending, root_slices_started_,
                       weak_slices_started_, cleared, asleep>>
        /\ UNCHANGED blockVars
    BY DEF ProcessDeferredMarking, Rescans, At
  <2>2. \/ /\ acquire[w] # {} /\ marked' = marked \cup acquire[w]
           /\ acquire' = [acquire EXCEPT ![w] = {}]
           /\ UNCHANGED <<scan, deferred, local_deferred>>
        \/ \E o \in Obj :
             /\ acquire[w] = {} /\ Held(o)
             /\ local_deferred' = [local_deferred EXCEPT ![w] = @ \ {o}]
             /\ deferred' \subseteq deferred /\ deferred \ {o} \subseteq deferred'
             /\ Visit(w, M!AllPtrs(heap, o))
             /\ acquire' = [acquire EXCEPT ![w] = {o}]
             /\ UNCHANGED marked
        \/ UNCHANGED <<marked, scan, acquire, deferred, local_deferred>>
    <3>1. ASSUME NEW o \in IF local_deferred[w] # {} THEN local_deferred[w] ELSE deferred
          PROVE  o \in Obj /\ Held(o)
      BY <2>0 DEF Held
    <3> QED BY <3>1 DEF ProcessDeferredMarking, Rescans, DeferredPtrs
  <2>3. marked \subseteq marked' /\ marked' \subseteq Obj BY <2>0, <2>2
  <2>4. GrayOnce' /\ \A x : Gray(x)' <=> Gray(x) BY <2>1, <2>3, <1>GraySame
  <2>5. ListedOnce' /\ \A x : Listed(x)' <=> Listed(x) BY <2>1, <2>3, <2>4, <1>ListedSame, SMT
  <2>6. CASE /\ acquire[w] # {} /\ marked' = marked \cup acquire[w]
             /\ acquire' = [acquire EXCEPT ![w] = {}]
             /\ UNCHANGED <<scan, deferred, local_deferred>>
    <3>1. \A x : Held(x)' <=> Held(x) BY <2>6 DEF Held
    <3>2. \A v \in Worker : acquire'[v] = IF v = w THEN {} ELSE acquire[v] BY <2>0, <2>6
    <3>3. \A x : Known(x)' <=> Known(x) BY <2>1, <2>6, <3>1, <3>2, SMT DEF Known
    <3>4. DataTypes' BY <2>0, <2>1, <2>3, <2>6, SMT DEF TraceInv, DataTypes, blockVars
    <3>5. Sound' BY <2>1, <3>1, <3>3, <1>SoundStep, SMT
    <3>6. \A o \in acquire[w] : \A p \in M!AllPtrs(heap, o) : Known(p)'
      BY <3>3 DEF TraceInv, Traced
    <3>7. \A v \in Worker : \A x \in acquire'[v] :
            acquire'[v] = {x} /\ \A p \in M!AllPtrs(heap, x) : Known(p)'
      BY <3>2, <3>3 DEF TraceInv, Traced
    <3>8. acquire' \in [Worker -> SUBSET Obj] BY <2>0, <2>6
    <3>9. Traced'
      BY <2>1, <2>3, <2>4, <2>5, <2>6, <3>1, <3>3, <3>6, <3>7, <3>8, <1>TracedStep
    <3> QED BY <2>4, <2>5, <3>4, <3>5, <3>9, SMT DEF TraceInv
  <2>7. ASSUME NEW o \in Obj, Held(o), acquire[w] = {},
               local_deferred' = [local_deferred EXCEPT ![w] = @ \ {o}],
               deferred' \subseteq deferred, deferred \ {o} \subseteq deferred',
               Visit(w, M!AllPtrs(heap, o)), acquire' = [acquire EXCEPT ![w] = {o}],
               UNCHANGED marked
        PROVE  TraceInv'
    <3>1. M!AllPtrs(heap, o) \subseteq Obj BY <2>0, HeapFacts
    <3>2. /\ \A v \in Worker : scan'[v] = IF v = w THEN M!AllPtrs(heap, o) ELSE scan[v]
          /\ \A v \in Worker : acquire'[v] = IF v = w THEN {o} ELSE acquire[v]
          /\ \A v \in Worker : /\ local_deferred'[v] \subseteq local_deferred[v]
                               /\ local_deferred[v] \ {o} \subseteq local_deferred'[v]
      BY <2>0, <2>7, <3>1 DEF Visit
    <3>3. \A x : (Held(x)' => Held(x)) /\ (Held(x) => Held(x)' \/ x = o)
      BY <2>7, <3>2 DEF Held
    <3>4. \A p \in M!AllPtrs(heap, o) : Known(p)' BY <3>2 DEF Known
    <3>5. Known(o)' BY <3>2 DEF Known
    <3>6. \A x : Known(x) => Known(x)'
      <4>1. ASSUME NEW x, NEW v \in Worker, x \in scan[v] \/ x \in acquire[v] PROVE Known(x)'
        <5>1. x \in scan'[v] \/ x \in acquire'[v] BY <2>1, <2>7, <3>2, <4>1
        <5> QED BY <5>1 DEF Known
      <4>2. ASSUME NEW x, Held(x) PROVE Known(x)' BY <3>3, <3>5, <4>2 DEF Known
      <4> QED BY <2>1, <2>7, <4>1, <4>2 DEF Known
    <3>7. M!AllPtrs(heap, o) \subseteq live /\ Known(o)
      <4>1. Known(o) BY <2>7 DEF Known
      <4>2. o \in live BY <4>1 DEF TraceInv, Sound
      <4>3. o \in heap.deferred \/ Is(o, "code") BY <2>7 DEF TraceInv, Sound
      <4> QED BY <2>0, <4>1, <4>2, <4>3, <1>LiveHolds, HeapFacts
    <3>8. \A x \in Obj : Known(x)' => Known(x) \/ x \in live
      BY <2>1, <2>7, <3>2, <3>3, <3>7, SMT DEF Known
    <3>9. DataTypes'
      <4>1. /\ scan' \in [Worker -> SUBSET Obj] /\ acquire' \in [Worker -> SUBSET Obj]
            /\ local_deferred' \in [Worker -> SUBSET Obj] /\ deferred' \subseteq Obj
        BY <2>0, <2>7, <3>1 DEF Visit
      <4> QED BY <2>1, <2>3, <4>1 DEF TraceInv, DataTypes, blockVars
    <3>10. Sound' BY <2>1, <3>3, <3>8, <1>SoundStep
    <3>11. Traced'
      <4>1. \A x \in Obj : Held(x) =>
              Held(x)' \/ \A p \in M!AllPtrs(heap, x) : Known(p)'
        BY <3>3, <3>4
      <4>2. \A v \in Worker : \A x \in acquire'[v] :
              acquire'[v] = {x} /\ \A p \in M!AllPtrs(heap, x) : Known(p)'
        <5>1. ASSUME NEW v \in Worker, v # w, NEW x \in acquire[v]
              PROVE  acquire[v] = {x} /\ \A p \in M!AllPtrs(heap, x) : Known(p)'
          BY <3>6, <5>1 DEF TraceInv, Traced
        <5> HIDE DEF Visit
        <5> QED BY <3>2, <3>4, <5>1, SMT
      <4>3. acquire' \in [Worker -> SUBSET Obj] BY <2>0, <2>7
      <4> QED BY <2>1, <2>3, <2>4, <2>5, <2>7, <3>6, <4>1, <4>2, <4>3, <1>TracedStep
    <3> QED BY <2>4, <2>5, <3>9, <3>10, <3>11 DEF TraceInv
  <2>8. CASE UNCHANGED <<marked, scan, acquire, deferred, local_deferred>>
    BY <2>1, <2>8, <1>TraceUnchanged DEF TraceInv, DataTypes
  <2> QED BY <2>2, <2>6, <2>7, <2>8
\* An object leaves the marking stack.
<1>PopFacts.
      ASSUME TraceInv, NEW w \in Worker, NEW o \in Obj, Pop(w, o), UNCHANGED marked
      PROVE  /\ GrayOnce' /\ Gray(o)
             /\ stack' \subseteq SUBSET Obj /\ {} \notin stack'
             /\ local_input_' \in [Worker -> SUBSET Obj]
             /\ local_output_' \in [Worker -> SUBSET Obj]
             /\ \A x : Gray(x)' <=> Gray(x) /\ x # o
  <2> USE <1>PopFacts
  <2>0. /\ stack \subseteq SUBSET Obj /\ {} \notin stack
        /\ local_input_ \in [Worker -> SUBSET Obj] /\ local_output_ \in [Worker -> SUBSET Obj]
        /\ GrayOnce
    BY DEF TraceInv, DataTypes
  <2>1. CASE /\ o \in local_input_[w]
             /\ local_input_' = [local_input_ EXCEPT ![w] = @ \ {o}]
             /\ UNCHANGED <<local_output_, stack>>
    <3>1. \A v \in Worker : local_input_'[v] = IF v = w THEN local_input_[v] \ {o}
                                               ELSE local_input_[v]
      BY <2>0, <2>1
    <3>2. \A x : Gray(x)' <=> Gray(x) /\ x # o
      BY <2>0, <2>1, <3>1, SMT DEF Gray, GrayOnce
    <3>3. GrayOnce'
      <4>1. \A v \in Worker : local_input_'[v] \subseteq local_input_[v] BY <3>1
      <4> QED BY <2>0, <2>1, <3>2, <4>1, SMT DEF GrayOnce
    <3> QED BY <2>0, <2>1, <3>2, <3>3 DEF Gray
  <2>2. CASE /\ local_input_[w] = {} /\ o \in local_output_[w]
             /\ local_input_' = [local_input_ EXCEPT ![w] = local_output_[w] \ {o}]
             /\ local_output_' = [local_output_ EXCEPT ![w] = {}]
             /\ UNCHANGED stack
    <3>1. /\ \A v \in Worker : local_input_'[v] = IF v = w THEN local_output_[w] \ {o}
                                                  ELSE local_input_[v]
          /\ \A v \in Worker : local_output_'[v] = IF v = w THEN {} ELSE local_output_[v]
      BY <2>0, <2>2
    <3>2. \A x : Gray(x)' <=> Gray(x) /\ x # o
      BY <2>0, <2>2, <3>1, SMT DEF Gray, GrayOnce
    <3>3. GrayOnce'
      <4>1. \A v \in Worker :
              /\ local_input_'[v] \cup local_output_'[v]
                   \subseteq local_input_[v] \cup local_output_[v]
              /\ local_input_'[v] \cap local_output_'[v] = {}
        BY <2>0, <3>1, SMT DEF GrayOnce
      <4> QED BY <2>0, <2>2, <3>2, <4>1, SMT DEF GrayOnce
    <3> QED BY <2>0, <2>2, <3>2, <3>3 DEF Gray
  <2>3. ASSUME NEW b \in stack, o \in b, local_input_[w] = {}, local_output_[w] = {},
               local_input_' = [local_input_ EXCEPT ![w] = b \ {o}],
               stack' = stack \ {b}, UNCHANGED local_output_
        PROVE  /\ GrayOnce' /\ Gray(o)
               /\ stack' \subseteq SUBSET Obj /\ {} \notin stack'
               /\ local_input_' \in [Worker -> SUBSET Obj]
               /\ local_output_' \in [Worker -> SUBSET Obj]
               /\ \A x : Gray(x)' <=> Gray(x) /\ x # o
    <3>1. \A v \in Worker : local_input_'[v] = IF v = w THEN b \ {o} ELSE local_input_[v]
      BY <2>0, <2>3
    <3>2. \A x : Gray(x)' <=> Gray(x) /\ x # o
      <4>1. ASSUME NEW x, Gray(x), x # o PROVE Gray(x)'
        <5>1. ASSUME NEW c \in stack, x \in c PROVE Gray(x)'
          <6>1. CASE c = b BY <3>1, <4>1, <5>1, <6>1 DEF Gray
          <6>2. CASE c # b BY <2>3, <5>1, <6>2 DEF Gray
          <6> QED BY <6>1, <6>2
        <5>2. ASSUME NEW v \in Worker, x \in local_input_[v] \/ x \in local_output_[v]
              PROVE  Gray(x)'
          <6>1. v # w BY <2>3, <5>2
          <6> QED BY <2>3, <3>1, <5>2, <6>1 DEF Gray
        <5> QED BY <4>1, <5>1, <5>2 DEF Gray
      <4>2. ASSUME NEW x, Gray(x)' PROVE Gray(x) /\ x # o
        <5>1. ASSUME NEW c \in stack', x \in c PROVE Gray(x) /\ x # o
          BY <2>0, <2>3, <5>1, SMT DEF Gray, GrayOnce
        <5>2. ASSUME NEW v \in Worker, x \in local_input_'[v] \/ x \in local_output_'[v]
              PROVE  Gray(x) /\ x # o
          <6>1. CASE v = w BY <2>3, <3>1, <5>2, <6>1, SMT DEF Gray
          <6>2. CASE v # w BY <2>0, <2>3, <3>1, <5>2, <6>2, SMT DEF Gray, GrayOnce
          <6> QED BY <6>1, <6>2
        <5> QED BY <4>2, <5>1, <5>2 DEF Gray
      <4> QED BY <4>1, <4>2
    <3>3. GrayOnce'
      <4>1. \A c, d \in stack' : c # d => c \cap d = {} BY <2>0, <2>3 DEF GrayOnce
      <4>2. ASSUME NEW v \in Worker
            PROVE  /\ local_input_'[v] \cap local_output_'[v] = {}
                   /\ \A c \in stack' : c \cap (local_input_'[v] \cup local_output_'[v]) = {}
                   /\ \A u \in Worker \ {v} :
                        (local_input_'[u] \cup local_output_'[u])
                          \cap (local_input_'[v] \cup local_output_'[v]) = {}
        BY <2>0, <2>3, <3>1, SMT DEF GrayOnce
      <4> QED BY <2>0, <3>2, <4>1, <4>2, SMT DEF GrayOnce
    <3>4. Gray(o) BY <2>3 DEF Gray
    <3> QED BY <2>0, <2>3, <3>2, <3>3, <3>4
  <2> QED BY <2>1, <2>2, <2>3 DEF Pop
\* What ProcessMarkingStack visits in an object is live, and is all the object
\* holds unless it puts the object on a list.
<1>ProcessedFacts.
      ASSUME TraceInv, NEW o \in marked
      PROVE  /\ ProcessedPtrs(o) \subseteq live /\ ProcessedPtrs(o) \subseteq Obj
             /\ Delays(o) => Weak(o)
             /\ ~Delays(o) /\ Weak(o) => heap.key[o] \in marked
             /\ heap.ptr[o] \subseteq ProcessedPtrs(o) \/ (Is(o, "property") /\ Delays(o))
  <2> USE <1>ProcessedFacts
  <2>0. /\ heap \in Heaps /\ live = M!Live(heap) /\ o \in Obj /\ marked \subseteq live
    BY DEF TraceInv, DataTypes, Sound, Known
  <2>1. o \in live BY <2>0
  <2>2. CASE Is(o, "property")
    <3>1. ~Is(o, "entry") /\ ~Is(o, "reference") BY <2>2 DEF Is
    <3>2. ProcessedPtrs(o) = IF IsMarked(heap.key[o]) THEN M!AllPtrs(heap, o) ELSE {}
      BY <2>2 DEF ProcessedPtrs
    <3>3. Delays(o) <=> ~IsMarked(heap.key[o]) BY <2>2, <3>1 DEF Delays
    <3>4. IsMarked(heap.key[o]) => M!AllPtrs(heap, o) \subseteq live
      BY <2>0, <2>1, <2>2, <1>LiveHolds, SMT DEF IsMarked
    <3> QED BY <2>0, <2>2, <3>2, <3>3, <3>4, HeapFacts, LiveFacts, SMT DEF IsMarked
  <2>3. CASE ~Is(o, "property")
    <3>1. ProcessedPtrs(o) = heap.ptr[o] BY <2>3 DEF ProcessedPtrs
    <3>2. heap.ptr[o] \subseteq live BY <2>0, <2>1, <2>3, <1>LiveHolds
    <3>3. Delays(o) <=> Is(o, "entry") \/ (Is(o, "reference") /\ heap.key[o] \notin marked)
      BY <2>3 DEF Delays, IsMarked
    <3> QED BY <2>0, <2>3, <3>1, <3>2, <3>3, HeapFacts, LiveFacts, SMT
  <2> QED BY <2>2, <2>3
<1>PopTrace.
      ASSUME TraceInv, NEW w \in Worker, NEW o \in Obj, scan[w] = {}, Pop(w, o),
             Visit(w, ProcessedPtrs(o)),
             delayed_' = [delayed_ EXCEPT ![w] = @ \cup {x \in {o} : Delays(x)}],
             UNCHANGED <<heap, live, marked, deferred, local_deferred, global_list_, acquire,
                         pending, root_slices_started_, weak_slices_started_, cleared,
                         asleep>>
      PROVE  TraceInv'
  <2> USE <1>PopTrace
  <2>0. /\ heap \in Heaps /\ live = M!Live(heap) /\ delayed_ \in [Worker -> SUBSET Obj]
        /\ acquire \in [Worker -> SUBSET Obj]
    BY DEF TraceInv, DataTypes
  <2>1. /\ GrayOnce' /\ Gray(o)
        /\ stack' \subseteq SUBSET Obj /\ {} \notin stack'
        /\ local_input_' \in [Worker -> SUBSET Obj]
        /\ local_output_' \in [Worker -> SUBSET Obj]
        /\ \A x : Gray(x)' <=> Gray(x) /\ x # o
    BY <1>PopFacts
  <2>2. o \in marked /\ ~Listed(o) BY <2>1 DEF TraceInv, GrayOnce, ListedOnce
  <2>3. /\ ProcessedPtrs(o) \subseteq live /\ ProcessedPtrs(o) \subseteq Obj
        /\ Delays(o) => Weak(o)
        /\ ~Delays(o) /\ Weak(o) => heap.key[o] \in marked
        /\ heap.ptr[o] \subseteq ProcessedPtrs(o) \/ (Is(o, "property") /\ Delays(o))
    BY <2>2, <1>ProcessedFacts
  <2> HIDE DEF Pop, Visit, ProcessedPtrs, Delays
  <2>4. /\ scan' \in [Worker -> SUBSET Obj]
        /\ \A x : Held(x)' <=> Held(x)
        /\ \A x : Known(x)' <=> Known(x) \/ x \in ProcessedPtrs(o)
    BY <2>3, <1>VisitKnown
  <2>5. \A v \in Worker : delayed_'[v] = IF v = w /\ Delays(o) THEN delayed_[v] \cup {o}
                                         ELSE delayed_[v]
    BY <2>0
  <2>6. \A x : Listed(x)' <=> Listed(x) \/ (x = o /\ Delays(o))
    <3>1. CASE Delays(o)
      <4>1. ASSUME NEW v \in Worker
            PROVE  delayed_[v] \subseteq delayed_'[v] /\ delayed_'[v] \subseteq delayed_[v] \cup {o}
        <5>1. CASE v = w
          <6>1. delayed_'[v] = delayed_[v] \cup {o} BY <2>5, <3>1, <5>1
          <6> QED BY <6>1
        <5>2. CASE v # w
          <6>1. delayed_'[v] = delayed_[v] BY <2>5, <5>2
          <6> QED BY <6>1
        <5> QED BY <5>1, <5>2
      <4>2. o \in {x \in {o} : Delays(x)} BY <3>1
      <4>3. o \in delayed_'[w] BY <2>0, <4>2
      <4> QED BY <3>1, <4>1, <4>3 DEF Listed
    <3>2. CASE ~Delays(o)
      <4>1. \A v \in Worker : delayed_'[v] = delayed_[v] BY <2>5, <3>2
      <4> QED BY <3>2, <4>1 DEF Listed
    <3> QED BY <3>1, <3>2
  <2>7. \A x : Weak(x)' <=> Weak(x) BY DEF Weak, M!Weak
  <2>8. ListedOnce'
    <3>1. /\ o \notin global_list_
          /\ \A v \in Worker : o \notin delayed_[v] /\ o \notin pending[v]
      BY <2>2 DEF Listed
    <3>2. ASSUME NEW v \in Worker
          PROVE  /\ delayed_'[v] \cap pending'[v] = {}
                 /\ global_list_' \cap (delayed_'[v] \cup pending'[v]) = {}
                 /\ \A u \in Worker \ {v} :
                      (delayed_'[u] \cup pending'[u]) \cap (delayed_'[v] \cup pending'[v]) = {}
                 /\ \A x \in pending'[v] : Is(x, "property")'
      BY <2>5, <3>1, SMT DEF TraceInv, ListedOnce, Is
    <3>3. \A x \in Obj : Listed(x)' => x \in marked' /\ ~Gray(x)' /\ Weak(x)'
      BY <2>1, <2>2, <2>3, <2>6, <2>7 DEF TraceInv, ListedOnce
    <3> QED BY <3>2, <3>3 DEF ListedOnce
  <2>9. DataTypes'
    <3>1. delayed_' \in [Worker -> SUBSET Obj] BY <2>0
    <3> QED BY <2>1, <2>4, <3>1 DEF TraceInv, DataTypes
  <2>10. Sound' BY <2>3, <2>4, <1>SoundStep
  <2>11. Traced'
    <3>1. Settled(o)'
      <4>1. heap.key[o] \in marked => Known(heap.key[o])' BY DEF Known
      <4>2. Is(o, "property")' <=> Is(o, "property") BY DEF Is
      <4> QED BY <2>3, <2>4, <2>6, <2>7, <4>1, <4>2 DEF Settled
    <3>2. \A v \in Worker : \A x \in acquire'[v] :
            acquire'[v] = {x} /\ \A p \in M!AllPtrs(heap, x) : Known(p)'
      BY <2>4 DEF TraceInv, Traced
    <3>3. marked' \subseteq Obj BY DEF TraceInv, DataTypes
    <3> QED BY <2>0, <2>1, <2>4, <2>6, <3>1, <3>2, <3>3, <1>TracedStep
  <2> QED BY <2>1, <2>8, <2>9, <2>10, <2>11 DEF TraceInv
\* Each worker keeps or drops the weak objects it has.
<1>ListedShrinks.
      ASSUME TraceInv, UNCHANGED <<heap, marked, blockVars, global_list_>>,
             \A v \in Worker :
               /\ delayed_'[v] \cup pending'[v] \subseteq delayed_[v] \cup pending[v]
               /\ delayed_'[v] \cap pending'[v] = {}
               /\ \A o \in pending'[v] : Is(o, "property")
      PROVE  ListedOnce' /\ \A o : Listed(o)' => Listed(o)
  <2> USE <1>ListedShrinks
  <2>1. \A o : Listed(o)' => Listed(o) BY DEF Listed
  <2>2. \A o : Weak(o)' <=> Weak(o) BY DEF Weak, M!Weak
  <2>3. \A o : Is(o, "property")' <=> Is(o, "property") BY DEF Is
  <2>4. \A o : Gray(o)' <=> Gray(o) BY DEF Gray, blockVars
  <2> QED BY <2>1, <2>2, <2>3, <2>4 DEF TraceInv, ListedOnce
<1>BeginPendingTrace.
      ASSUME TraceInv, NEW w \in Worker, pending[w] = {}, BeginPending(w),
             UNCHANGED <<heap, live, marked, deferred, local_deferred, global_list_, scan,
                         acquire, root_slices_started_, weak_slices_started_, cleared, asleep,
                         blockVars>>
      PROVE  TraceInv'
  <2> USE <1>BeginPendingTrace
  <2>0. delayed_ \in [Worker -> SUBSET Obj] /\ pending \in [Worker -> SUBSET Obj]
    BY DEF TraceInv, DataTypes
  <2>1. /\ delayed_' \in [Worker -> SUBSET Obj] /\ pending' \in [Worker -> SUBSET Obj]
        /\ delayed_'[w] = {o \in delayed_[w] : ~Is(o, "property")}
        /\ pending'[w] = {o \in delayed_[w] : Is(o, "property")}
        /\ \A v \in Worker \ {w} : delayed_'[v] = delayed_[v] /\ pending'[v] = pending[v]
    BY <2>0 DEF BeginPending
  <2>2. \A v \in Worker :
          /\ delayed_'[v] \cup pending'[v] = delayed_[v] \cup pending[v]
          /\ delayed_'[v] \cap pending'[v] = {}
          /\ \A o \in pending'[v] : Is(o, "property")
    BY <2>1 DEF TraceInv, ListedOnce
  <2> HIDE DEF BeginPending
  <2>3. ListedOnce' BY <2>2, <1>ListedShrinks
  <2>4. \A o : Listed(o)' <=> Listed(o) BY <2>2 DEF Listed
  <2>5. \A o : (Held(o)' <=> Held(o)) /\ (Known(o)' <=> Known(o)) BY DEF Held, Known
  <2>6. GrayOnce' /\ \A o : Gray(o)' <=> Gray(o) BY <1>GraySame
  <2>7. DataTypes' BY <2>1 DEF TraceInv, DataTypes, blockVars
  <2>8. Sound' BY <2>5, <1>SoundStep
  <2>9. Traced' BY <2>4, <2>5, <2>6, <1>TracedStep DEF TraceInv, DataTypes, Traced
  <2> QED BY <2>3, <2>6, <2>7, <2>8, <2>9 DEF TraceInv
<1>PendingTrace.
      ASSUME TraceInv, NEW w \in Worker, NEW l, NEW more, NEW none,
             ProcessPendingWeakProperties(w, l, more, none)
      PROVE  TraceInv'
  <2> USE <1>PendingTrace
  <2> USE DEF shareVars, heapVars, sliceVars
  <2>0. /\ delayed_ \in [Worker -> SUBSET Obj] /\ pending \in [Worker -> SUBSET Obj]
        /\ heap \in Heaps /\ live = M!Live(heap) /\ acquire \in [Worker -> SUBSET Obj]
        /\ asleep \subseteq Worker /\ weak_slices_started_ \in Nat /\ marked \subseteq Obj
    BY DEF TraceInv, DataTypes
  <2>1. /\ UNCHANGED <<heap, live, marked, deferred, local_deferred, global_list_, acquire,
                       root_slices_started_, weak_slices_started_, cleared, asleep>>
        /\ UNCHANGED blockVars /\ scan[w] = {}
    BY DEF ProcessPendingWeakProperties, At
  <2>2. ASSUME NEW o \in pending[w], pending' = [pending EXCEPT ![w] = @ \ {o}],
               IsMarked(heap.key[o]), Visit(w, M!AllPtrs(heap, o)), UNCHANGED delayed_
        PROVE  TraceInv'
    <3>1. Listed(o) /\ o \in Obj /\ Is(o, "property")
      BY <2>0 DEF Listed, TraceInv, ListedOnce
    <3>2. o \in marked BY <3>1 DEF TraceInv, ListedOnce
    <3>3. M!AllPtrs(heap, o) \subseteq live /\ M!AllPtrs(heap, o) \subseteq Obj
      <4>1. marked \subseteq live BY <2>0 DEF TraceInv, Sound, Known
      <4> QED BY <2>0, <2>2, <3>1, <3>2, <4>1, <1>LiveHolds, HeapFacts DEF IsMarked
    <3>4. /\ scan' \in [Worker -> SUBSET Obj]
          /\ \A x : Held(x)' <=> Held(x)
          /\ \A x : Known(x)' <=> Known(x) \/ x \in M!AllPtrs(heap, o)
      BY <2>1, <2>2, <3>3, <1>VisitKnown
    <3>5. /\ pending' \in [Worker -> SUBSET Obj]
          /\ \A v \in Worker : pending'[v] = IF v = w THEN pending[v] \ {o} ELSE pending[v]
      BY <2>0, <2>2
    <3>6. ListedOnce'
      <4>1. \A v \in Worker :
              /\ delayed_'[v] \cup pending'[v] \subseteq delayed_[v] \cup pending[v]
              /\ delayed_'[v] \cap pending'[v] = {}
              /\ \A x \in pending'[v] : Is(x, "property")
        BY <2>2, <3>5 DEF TraceInv, ListedOnce
      <4> QED BY <2>1, <4>1, <1>ListedShrinks
    <3>7. \A x : Listed(x) => Listed(x)' \/ x = o BY <2>1, <2>2, <3>5 DEF Listed
    <3>8. GrayOnce' /\ \A x : Gray(x)' <=> Gray(x) BY <2>1, <1>GraySame
    <3>9. DataTypes' BY <2>1, <2>2, <3>4, <3>5 DEF TraceInv, DataTypes, blockVars
    <3>10. Sound' BY <2>1, <3>3, <3>4, <1>SoundStep
    <3>11. Traced'
      <4>1. \A v \in Worker : \A x \in acquire'[v] :
              acquire'[v] = {x} /\ \A p \in M!AllPtrs(heap, x) : Known(p)'
        BY <2>1, <3>4 DEF TraceInv, Traced
      <4> QED BY <2>0, <2>1, <3>4, <3>7, <3>8, <4>1, <1>TracedStep
    <3> QED BY <3>6, <3>8, <3>9, <3>10, <3>11 DEF TraceInv
  <2>3. ASSUME NEW o \in pending[w], pending' = [pending EXCEPT ![w] = @ \ {o}],
               delayed_' = [delayed_ EXCEPT ![w] = @ \cup {o}], UNCHANGED scan
        PROVE  TraceInv'
    <3>1. /\ pending' \in [Worker -> SUBSET Obj] /\ delayed_' \in [Worker -> SUBSET Obj]
          /\ \A v \in Worker : pending'[v] = IF v = w THEN pending[v] \ {o} ELSE pending[v]
          /\ \A v \in Worker : delayed_'[v] = IF v = w THEN delayed_[v] \cup {o}
                                              ELSE delayed_[v]
      BY <2>0, <2>3
    <3>2. \A v \in Worker :
            /\ delayed_'[v] \cup pending'[v] = delayed_[v] \cup pending[v]
            /\ delayed_'[v] \cap pending'[v] = {}
            /\ \A x \in pending'[v] : Is(x, "property")
      BY <2>3, <3>1, SMT DEF TraceInv, ListedOnce
    <3>3. ListedOnce' BY <2>1, <3>2, <1>ListedShrinks
    <3>4. \A x : Listed(x)' <=> Listed(x) BY <2>1, <3>2 DEF Listed
    <3>5. \A x : (Held(x)' <=> Held(x)) /\ (Known(x)' <=> Known(x))
      BY <2>1, <2>3 DEF Held, Known
    <3>6. GrayOnce' /\ \A x : Gray(x)' <=> Gray(x) BY <2>1, <1>GraySame
    <3>7. DataTypes' BY <2>1, <2>3, <3>1 DEF TraceInv, DataTypes, blockVars
    <3>8. Sound' BY <2>1, <3>5, <1>SoundStep
    <3>9. Traced' BY <2>1, <3>4, <3>5, <3>6, <1>TracedStep DEF TraceInv, DataTypes, Traced
    <3> QED BY <3>3, <3>6, <3>7, <3>8, <3>9 DEF TraceInv
  <2>4. CASE UNCHANGED <<delayed_, scan, pending>> BY <2>0, <2>1, <2>4, <1>TraceUnchanged
  <2> QED BY <2>2, <2>3, <2>4 DEF ProcessPendingWeakProperties
\* WaitForWork moves a block from the stack to the worker.
<1>WaitTrace.
      ASSUME TraceInv, NEW w \in Worker, Idle(w) \/ Wake(w), local_input_[w] = {}
      PROVE  TraceInv'
  <2> USE <1>WaitTrace
  <2> USE DEF heapVars, sliceVars, workVars
  <2>0. /\ stack \subseteq SUBSET Obj /\ {} \notin stack /\ asleep \subseteq Worker
        /\ local_input_ \in [Worker -> SUBSET Obj] /\ weak_slices_started_ \in Nat
    BY DEF TraceInv, DataTypes
  <2>1. UNCHANGED <<heap, live, marked, deferred, local_deferred, delayed_, global_list_,
                    scan, acquire, pending, root_slices_started_, weak_slices_started_,
                    cleared, local_output_>>
    BY DEF Idle, Wake, WaitForWork, WaitForWorkWake
  <2>2. /\ \/ UNCHANGED <<stack, local_input_>>
           \/ \E b \in stack : /\ stack' = stack \ {b}
                               /\ local_input_' = [local_input_ EXCEPT ![w] = b]
        /\ asleep' \subseteq Worker
    BY <2>0 DEF Idle, Wake, WaitForWork, WaitForWorkWake, TakeBlockOrWait, NonEmpty,
                NotifyIf, SleepersWoken
  <2>3. CASE UNCHANGED <<stack, local_input_>>
    BY <2>0, <2>1, <2>2, <2>3, <1>TraceUnchanged DEF blockVars
  <2>4. ASSUME NEW b \in stack, stack' = stack \ {b},
               local_input_' = [local_input_ EXCEPT ![w] = b]
        PROVE  TraceInv'
    <3>1. /\ local_input_' \in [Worker -> SUBSET Obj]
          /\ \A v \in Worker : local_input_'[v] = IF v = w THEN b ELSE local_input_[v]
      BY <2>0, <2>4
    <3>2. \A x : Gray(x)' <=> Gray(x)
      <4>1. ASSUME NEW x, Gray(x) PROVE Gray(x)'
        <5>1. ASSUME NEW c \in stack, x \in c PROVE Gray(x)'
          <6>1. CASE c = b BY <3>1, <5>1, <6>1 DEF Gray
          <6>2. CASE c # b BY <2>4, <5>1, <6>2 DEF Gray
          <6> QED BY <6>1, <6>2
        <5>2. ASSUME NEW v \in Worker, x \in local_input_[v] \/ x \in local_output_[v]
              PROVE  Gray(x)'
          <6>1. x \in local_input_'[v] \/ x \in local_output_'[v] BY <2>1, <3>1, <5>2, ZenonT(30)
          <6> QED BY <6>1 DEF Gray
        <5> QED BY <4>1, <5>1, <5>2 DEF Gray
      <4>2. ASSUME NEW x, Gray(x)' PROVE Gray(x)
        BY <2>1, <2>4, <3>1, <4>2 DEF Gray
      <4> QED BY <4>1, <4>2
    <3>3. GrayOnce'
      <4>1. ASSUME NEW v \in Worker
            PROVE  /\ local_input_'[v] \cap local_output_'[v] = {}
                   /\ \A c \in stack' : c \cap (local_input_'[v] \cup local_output_'[v]) = {}
                   /\ \A u \in Worker \ {v} :
                        (local_input_'[u] \cup local_output_'[u])
                          \cap (local_input_'[v] \cup local_output_'[v]) = {}
        BY <2>1, <2>4, <3>1, ZenonT(30) DEF TraceInv, GrayOnce
      <4> QED BY <2>1, <2>4, <3>2, <4>1 DEF TraceInv, GrayOnce
    <3>4. ListedOnce' /\ \A x : Listed(x)' <=> Listed(x) BY <2>1, <3>2, <1>ListedSame
    <3>5. \A x : (Held(x)' <=> Held(x)) /\ (Known(x)' <=> Known(x))
      BY <2>1 DEF Held, Known
    <3>6. DataTypes' BY <2>0, <2>1, <2>2, <2>4, <3>1 DEF TraceInv, DataTypes
    <3>7. Sound' BY <2>1, <3>5, <1>SoundStep
    <3>8. Traced' BY <2>1, <3>2, <3>4, <3>5, <1>TracedStep DEF TraceInv, DataTypes, Traced
    <3> QED BY <3>3, <3>4, <3>6, <3>7, <3>8 DEF TraceInv
  <2> QED BY <2>2, <2>3, <2>4
\* Weak objects leave the lists: cleared, or with a key that is found.
<1>DropTrace.
      ASSUME TraceInv, delayed_' \in [Worker -> SUBSET Obj],
             \A v \in Worker : delayed_'[v] \subseteq delayed_[v],
             cleared \subseteq cleared', cleared' \subseteq Obj,
             \A v \in Worker : \A o \in delayed_[v] \ delayed_'[v] :
               o \in cleared' \/ (~Is(o, "property") /\ heap.key[o] \in marked),
             UNCHANGED <<heap, live, marked, deferred, local_deferred, global_list_, scan,
                         acquire, pending, root_slices_started_, weak_slices_started_, asleep,
                         blockVars>>
      PROVE  TraceInv'
  <2> USE <1>DropTrace
  <2>1. ListedOnce'
    <3>1. \A v \in Worker :
            /\ delayed_'[v] \cup pending'[v] \subseteq delayed_[v] \cup pending[v]
            /\ delayed_'[v] \cap pending'[v] = {}
            /\ \A x \in pending'[v] : Is(x, "property")
      BY DEF TraceInv, ListedOnce
    <3> QED BY <3>1, <1>ListedShrinks
  <2>2. \A o : (Held(o)' <=> Held(o)) /\ (Known(o)' <=> Known(o)) BY DEF Held, Known
  <2>3. GrayOnce' /\ \A o : Gray(o)' <=> Gray(o) BY <1>GraySame
  <2>4. DataTypes' BY DEF TraceInv, DataTypes, blockVars
  <2>5. Sound' BY <2>2, <1>SoundStep
  <2>6. \A o \in Obj : Listed(o) \/ o \in cleared =>
          \/ Listed(o)' \/ o \in cleared'
          \/ ~Is(o, "property") /\ Known(heap.key[o])'
    <3>1. \A o \in Obj : heap.key[o] \in marked => Known(heap.key[o])' BY DEF Known
    <3> QED BY <3>1 DEF Listed
  <2>7. Traced' BY <2>2, <2>3, <2>6, <1>TracedStep DEF TraceInv, DataTypes, Traced
  <2> QED BY <2>1, <2>3, <2>4, <2>5, <2>7 DEF TraceInv
<1>MournTrace.
      ASSUME TraceInv, NEW w \in Worker, Mourn(w)
      PROVE  TraceInv'
  <2> USE <1>MournTrace
  <2> USE DEF shareVars, heapVars
  <2> DEFINE mine == {o \in delayed_[w] : ~Is(o, "entry")}
  <2>0. delayed_ \in [Worker -> SUBSET Obj] /\ cleared \subseteq Obj
    BY DEF TraceInv, DataTypes
  <2>1. /\ cleared' = cleared \cup {o \in mine : Is(o, "property") \/ Dead(o)}
        /\ delayed_' = [delayed_ EXCEPT ![w] = @ \ mine]
        /\ UNCHANGED <<heap, live, marked, deferred, local_deferred, global_list_, scan,
                       acquire, pending, root_slices_started_, weak_slices_started_, asleep,
                       blockVars>>
    BY DEF Mourn
  <2>2. /\ delayed_' \in [Worker -> SUBSET Obj]
        /\ \A v \in Worker : delayed_'[v] = IF v = w THEN delayed_[v] \ mine ELSE delayed_[v]
    BY <2>0, <2>1
  <2>3. cleared \subseteq cleared' /\ cleared' \subseteq Obj BY <2>0, <2>1
  <2>4. \A o \in mine : o \in cleared' \/ (~Is(o, "property") /\ heap.key[o] \in marked)
    BY <2>1 DEF Dead, IsMarked
  <2> HIDE DEF mine
  <2>5. \A v \in Worker : \A o \in delayed_[v] \ delayed_'[v] : o \in mine BY <2>2
  <2> QED BY <2>1, <2>2, <2>3, <2>4, <2>5, <1>DropTrace
<1>FinalizeTrace.
      ASSUME TraceInv, FinalizeMarking,
             \A w \in Worker : \A o \in delayed_[w] : Is(o, "entry")
      PROVE  TraceInv'
  <2> USE <1>FinalizeTrace
  <2> USE DEF shareVars, heapVars
  <2> DEFINE entries == UNION {delayed_[w] : w \in Worker}
  <2>0. delayed_ \in [Worker -> SUBSET Obj] /\ cleared \subseteq Obj
    BY DEF TraceInv, DataTypes
  <2>1. /\ cleared' = cleared \cup {o \in entries : Dead(o)}
        /\ delayed_' = [w \in Worker |-> {}]
        /\ UNCHANGED <<heap, live, marked, deferred, local_deferred, global_list_, scan,
                       acquire, pending, root_slices_started_, weak_slices_started_, asleep,
                       blockVars>>
    BY DEF FinalizeMarking, None
  <2>2. \A w \in Worker : delayed_[w] \subseteq entries OBVIOUS
  <2>3. entries \subseteq Obj BY <2>0
  <2> HIDE DEF entries
  <2>4. cleared \subseteq cleared' /\ cleared' \subseteq Obj BY <2>0, <2>1, <2>3
  <2>5. \A v \in Worker : \A o \in delayed_[v] \ delayed_'[v] :
          o \in cleared' \/ (~Is(o, "property") /\ heap.key[o] \in marked)
    BY <2>1, <2>2 DEF Dead, IsMarked, Is
  <2>6. delayed_' \in [Worker -> SUBSET Obj]
        /\ \A v \in Worker : delayed_'[v] \subseteq delayed_[v]
    BY <2>1
  <2> QED BY <2>1, <2>4, <2>5, <2>6, <1>DropTrace
<1> USE DEF shareVars, heapVars, workVars, sliceVars
<1>0. asleep \subseteq Worker /\ weak_slices_started_ \in Nat BY DEF TraceInv, DataTypes
<1>1. ASSUME NEW w \in Worker, Launch(w) PROVE TraceInv' BY <1>1, <1>LaunchTrace
<1>2. ASSUME UNCHANGED <<blockVars, heapVars, marked, deferred, local_deferred, delayed_,
                         global_list_, scan, acquire, pending, root_slices_started_,
                         cleared>>,
             asleep' \subseteq Worker, weak_slices_started_' \in Nat
      PROVE  TraceInv'
  BY <1>2, <1>TraceUnchanged
<1>3. ASSUME NEW w \in Worker, Enter(w) PROVE TraceInv' BY <1>0, <1>2, <1>3 DEF Enter
<1>4. ASSUME NEW w \in Worker, WorkerStep(w) PROVE TraceInv'
  <2>1. CASE Start(w) BY <1>0, <1>2, <2>1 DEF Start
  <2>2. CASE MarkObject(w) BY <2>2, <1>MarkObjectTrace
  <2>3. CASE IterateRoots(w) BY <2>3, <1>IterateRootsTrace
  <2>4. CASE ProcessDeferredMarking(w, "deferred", "first") BY <2>4, <1>DeferredTrace
  <2>5. CASE ProcessMarkingStack(w)
    <3>0. /\ scan[w] = {} /\ pc[w] \in {"first", "drain", "again"}
          /\ UNCHANGED <<heapVars, marked, deferred, local_deferred, global_list_,
                         acquire, root_slices_started_, weak_slices_started_, cleared,
                         asleep>>
      BY <2>5 DEF ProcessMarkingStack, At
    <3>1. ASSUME NEW o \in Obj, Pop(w, o), Visit(w, ProcessedPtrs(o)),
                 delayed_' = [delayed_ EXCEPT ![w] = @ \cup {x \in {o} : Delays(x)}],
                 UNCHANGED pending
          PROVE  TraceInv'
      BY <3>0, <3>1, <1>PopTrace
    <3>2. CASE UNCHANGED <<delayed_, pending, blockVars, scan>>
      BY <1>0, <1>2, <3>0, <3>2
    <3>3. CASE BeginPending(w) /\ UNCHANGED <<blockVars, scan>>
      <4>1. Now(w) = pc[w] BY <3>0, NowIsPc DEF BarrierLoc
      <4>2. pending[w] = {} BY <3>0, <4>1 DEF Leftover
      <4> QED BY <3>0, <3>3, <4>2, <1>BeginPendingTrace
    <3> QED BY <2>5, <3>1, <3>2, <3>3 DEF ProcessMarkingStack
  <2>6. CASE \/ ProcessPendingWeakProperties(w, "first_weak", "again", "idle")
             \/ ProcessPendingWeakProperties(w, "weak", "again", "again")
             \/ ProcessPendingWeakProperties(w, "pending", "announce", "announced")
    BY <2>6, <1>PendingTrace
  <2>7. CASE Idle(w) \/ Wake(w)
    <3>1. Now(w) = pc[w] /\ pc[w] \in {"idle", "waiting"}
      BY <2>7, NowIsPc DEF BarrierLoc, Idle, Wake
    <3>2. local_input_[w] = {} BY <3>1 DEF Leftover, WillCheck
    <3> QED BY <2>7, <3>2, <1>WaitTrace
  <2>8. ASSUME UNCHANGED <<num_busy, asleep, blockVars, heapVars, workVars, sliceVars>>
        PROVE  TraceInv'
    BY <1>0, <1>2, <2>8
  <2>9. CASE \/ SyncAt(w, "stopped", IF debug THEN "check" ELSE "begin_pending")
             \/ SyncAt(w, "checked", "begin_pending")
             \/ SyncAt(w, "announced", "decide")
             \/ SyncAt(w, "decided", IF more_to_mark[w] THEN "first" ELSE "deferred2")
             \/ SyncAt(w, "marked", "mourn")
             \/ SyncAt(w, "end", "release")
    BY <2>8, <2>9, SyncIsAfter
  <2>10. CASE Check(w) \/ Announce(w) \/ Leave(w)
    BY <1>0, <1>2, <2>10 DEF Check, Announce, Leave
  <2>11. CASE StartPending(w)
    <3>1. Now(w) = pc[w] /\ pc[w] = "begin_pending"
      BY <2>11, NowIsPc DEF BarrierLoc, StartPending
    <3>2. pending[w] = {} BY <3>1 DEF Leftover
    <3> QED BY <2>11, <3>2, <1>BeginPendingTrace DEF StartPending
  <2>12. CASE Decide(w) BY <1>0, <1>2, <2>12 DEF Decide
  <2>13. CASE ProcessDeferredMarking(w, "deferred2", "marked") BY <2>13, <1>DeferredTrace
  <2>14. CASE Mourn(w) BY <2>14, <1>MournTrace
  <2>15. CASE IterateWeakRoots(w)
    BY <1>0, <1>2, <2>15, SMT DEF IterateWeakRoots
  <2> QED BY <1>4, <2>1, <2>2, <2>3, <2>4, <2>5, <2>6, <2>7, <2>9, <2>10, <2>11, <2>12,
             <2>13, <2>14, <2>15 DEF WorkerStep
<1>5. CASE FinalizeMarking
  <2>1. Now(Main) = pc[Main] /\ pc[Main] = "finalize"
    BY <1>5, NowIsPc, MainIsWorker DEF BarrierLoc, FinalizeMarking
  <2>2. \A w \in Worker : Now(w) \in Ended \cup {"queued", "gone"}
    BY <2>1, AllEnded DEF Ended
  <2>3. \A w \in Worker : \A o \in delayed_[w] : Is(o, "entry")
    BY <2>2 DEF Leftover
  <2> QED BY <1>5, <2>3, <1>FinalizeTrace
<1>6. CASE Wakeup
  BY <1>0, <1>2, <1>6 DEF Wakeup, SpuriousWakeup, blockVars
<1>7. CASE UNCHANGED vars BY <1>0, <1>2, <1>7 DEF vars
<1> QED BY <1>1, <1>3, <1>4, <1>5, <1>6, <1>7 DEF Next

=============================================================================
