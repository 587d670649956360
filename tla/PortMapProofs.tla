--------------------------- MODULE PortMapProofs ---------------------------
(***************************************************************************)
(* Proofs about the port map: a handler and the map agree, and no thread   *)
(* uses a deleted handler, for every number of isolates, native ports and  *)
(* messages.  The invariant follows a native handler through its life.     *)
(***************************************************************************)
EXTENDS PortMap, FiniteSetTheorems, TLAPS

(* The live ports of h, but for the one that ClosePort is removing.        *)
Counts(h) ==
  {p \in Port : ports_[p].handler = h /\ ports_[p].state = "live" /\ mutex_ # p}

Types ==
  /\ open \in BOOLEAN /\ mutex_ \in Native \cup {None}
  /\ ports_ \in [Port -> [handler : Handler \cup {None}, state : State]]
  /\ handlerPorts \in [Handler -> SUBSET Port]
  /\ live_ports_ \in [Handler -> Int]
  /\ life \in [Handler -> {"unborn", "created", "alive", "closed", "deleted"}]
  /\ queue_ \in [Native -> 0 .. MaxQueue]
  /\ pool_ \in [Native -> BOOLEAN] /\ task_running_ \in [Native -> BOOLEAN]
  /\ delete_me_ \in [Native -> BOOLEAN]
  /\ task \in [Native -> {"none", "queued", "busy", "delete"}]
  /\ closing \in [Native -> {"no", "begin", "decremented", "removed", "delete"}]

(* Who owns a port, and that its owner counts it.                          *)
Owned ==
  /\ \A p \in IsolatePort : Contains(p) =>
       ports_[p].handler \in Isolate /\ life[ports_[p].handler] = "alive"
  /\ \A n \in Native : Contains(n) => ports_[n].handler = n /\ ports_[n].state = "live"
  /\ \A h \in Handler : live_ports_[h] = Cardinality(Counts(h))
  /\ open => \A h \in Handler : handlerPorts[h] = PortsOf(h)
  /\ ~open => \A h \in Handler : life[h] \in {"unborn", "deleted"}
  /\ \A i \in Isolate : life[i] \in {"alive", "closed", "deleted"}

(* The life of a native handler.  Its port is in the map until ClosePort   *)
(* removes it; then ClosePort deletes the handler or, when it has a task,  *)
(* leaves that to the task.                                                *)
NativeLife(n) ==
  /\ life[n] \in {"unborn", "deleted"} =>
       ~Contains(n) /\ closing[n] = "no" /\ task[n] = "none"
  /\ life[n] \in {"unborn", "created"} =>
       /\ task[n] = "none" /\ queue_[n] = 0
       /\ ~task_running_[n] /\ ~pool_[n] /\ ~delete_me_[n]
  /\ life[n] # "closed"
  /\ life[n] \in {"created", "alive"} =>
       (Contains(n) <=> closing[n] \notin {"removed", "delete"} /\ ~delete_me_[n])
  /\ life[n] = "alive" =>
       /\ delete_me_[n] => closing[n] = "no" /\ task[n] # "none"
       /\ task[n] \in {"queued", "busy"} <=> task_running_[n]
       /\ task[n] = "delete" => delete_me_[n]
       /\ closing[n] = "delete" => ~task_running_[n]
       /\ queue_[n] > 0 => task_running_[n]
       /\ Contains(n) /\ mutex_ # n => pool_[n]
  /\ closing[n] = "decremented" <=> mutex_ = n

IInv == Types /\ Owned /\ \A n \in Native : NativeLife(n)

-----------------------------------------------------------------------------
(* Sets of ports.                                                          *)

LEMMA FinitePorts ==
    ASSUME NEW S \in SUBSET Port
    PROVE  IsFiniteSet(S) /\ Cardinality(S) \in 0..Cardinality(Port)
<1>1. IsFiniteSet(Port) BY HandlerAssumption, FS_Union, Zenon DEF Port
<1> QED BY <1>1, FS_Subset, FS_CardinalityType

\* What Live makes of the ports of a handler.
LEMMA LiveIsCounts ==
    ASSUME Types, NEW h \in Handler
    PROVE  Live(PortsOf(h) \ {n \in PortsOf(h) : mutex_ = n}) = Counts(h)
BY DEF Live, PortsOf, Counts

\* The numbers of live ports are right when the map is the same.
LEMMA CountsSame ==
    ASSUME Owned, UNCHANGED <<ports_, mutex_, live_ports_>>
    PROVE  \A h \in Handler : live_ports_'[h] = Cardinality(Counts(h)')
<1>1. \A h : Counts(h)' = Counts(h) BY DEF Counts
<1> QED BY <1>1 DEF Owned

\* Taking ports P of h out of the map takes the live ones of them from the count.
LEMMA CountsLess ==
    ASSUME Types, Owned, NEW h \in Handler, NEW P \in SUBSET Port,
           \A p \in P : ports_[p].handler = h /\ mutex_ # p,
           live_ports_' = Decremented(h, P),
           \A g \in Handler : Counts(g)' = Counts(g) \ P
    PROVE  \A g \in Handler : live_ports_'[g] = Cardinality(Counts(g)')
<1>0. live_ports_ \in [Handler -> Int] BY DEF Types
<1>1. ASSUME NEW g \in Handler \ {h} PROVE live_ports_'[g] = Cardinality(Counts(g)')
  <2>1. Counts(g)' = Counts(g) BY DEF Counts
  <2>2. live_ports_'[g] = live_ports_[g] BY <1>0 DEF Decremented
  <2> QED BY <2>1, <2>2 DEF Owned
<1>2. live_ports_'[h] = Cardinality(Counts(h)')
  <2>1. Live(P) \in SUBSET Port /\ Counts(h)' \in SUBSET Port /\ Counts(h) \in SUBSET Port
    BY DEF Live, Counts
  <2>2. Counts(h) = Live(P) \cup Counts(h)' /\ Live(P) \cap Counts(h)' = {}
    BY DEF Live, Counts
  <2>3. /\ IsFiniteSet(Live(P)) /\ IsFiniteSet(Counts(h)')
        /\ Cardinality(Live(P)) \in Nat /\ Cardinality(Counts(h)') \in Nat
        /\ Cardinality({}) = 0
    BY <2>1, FinitePorts, FS_CardinalityType, FS_EmptySet
  <2> DEFINE A == Live(P)
             B == Counts(h)'
  <2> HIDE DEF A, B
  <2>4. IsFiniteSet(A) /\ IsFiniteSet(B) /\ A \cap B = {} BY <2>2, <2>3 DEF A, B
  <2>5. Cardinality(Counts(h)) = Cardinality(Live(P)) + Cardinality(Counts(h)')
    <3>1. Cardinality(A \cup B) = Cardinality(A) + Cardinality(B) - Cardinality(A \cap B)
      BY <2>4, FS_Union
    <3>2. Cardinality(A) \in Nat /\ Cardinality(B) \in Nat /\ Cardinality(A \cap B) = 0
      BY <2>3, <2>4, Zenon DEF A, B
    <3>3. Cardinality(A \cup B) = Cardinality(A) + Cardinality(B) BY <3>1, <3>2
    <3> QED BY <2>2, <3>3 DEF A, B
  <2>6. live_ports_'[h] = live_ports_[h] - Cardinality(Live(P)) BY <1>0 DEF Decremented
  <2>7. live_ports_[h] = Cardinality(Counts(h)) BY DEF Owned
  <2> QED BY <2>3, <2>5, <2>6, <2>7
<1> QED BY <1>1, <1>2

\* A native handler that a step does not touch.
LEMMA NativeSame ==
    ASSUME NEW n \in Native, NativeLife(n),
           ports_'[n] = ports_[n], life'[n] = life[n], mutex_' = n <=> mutex_ = n,
           queue_'[n] = queue_[n], pool_'[n] = pool_[n],
           task_running_'[n] = task_running_[n], delete_me_'[n] = delete_me_[n],
           task'[n] = task[n], closing'[n] = closing[n]
    PROVE  NativeLife(n)'
<1>1. Contains(n)' <=> Contains(n) BY DEF Contains
<1> QED BY <1>1 DEF NativeLife

-----------------------------------------------------------------------------
(* The operations of an isolate.                                           *)

LEMMA CreateSteps ==
    ASSUME IInv, NEW i \in Isolate, NEW p \in IsolatePort, CreatePort(i, p)
    PROVE  IInv'
<1> USE HandlerAssumption DEF map, run
<1>0. Types /\ Owned /\ i \in Handler /\ p \in Port /\ i # None BY DEF IInv, Handler, Port
<1>1. /\ open /\ mutex_ = None /\ life[i] = "alive" /\ ~Contains(p)
      /\ ports_' = [ports_ EXCEPT ![p] = [handler |-> i, state |-> "new"]]
      /\ handlerPorts' = [handlerPorts EXCEPT ![i] = @ \cup {p}]
      /\ UNCHANGED <<open, mutex_, live_ports_, life, queue_, pool_, task_running_,
                     delete_me_, task, closing>>
  BY DEF CreatePort, Locked, Opened
<1>2. Types'
  <2>1. [handler |-> i, state |-> "new"] \in [handler : Handler \cup {None}, state : State]
    BY <1>0 DEF State
  <2> QED BY <1>0, <1>1, <2>1 DEF Types
<1>3. /\ ports_'[p].handler = i /\ ports_'[p].state = "new"
      /\ \A q \in Port \ {p} : ports_'[q] = ports_[q]
  BY <1>0, <1>1 DEF Types
<1>4. \A h \in Handler : Counts(h)' = Counts(h)
  <2>1. SUFFICES ASSUME NEW h \in Handler, NEW q \in Port
                 PROVE  (ports_'[q].handler = h /\ ports_'[q].state = "live")
                          <=> (ports_[q].handler = h /\ ports_[q].state = "live")
    BY <1>1 DEF Counts
  <2>2. CASE q = p
    <3>1. ports_[p].handler # h BY <1>1, HandlerAssumption DEF Contains, Handler
    <3> QED BY <1>3, <2>2, <3>1
  <2>3. CASE q # p BY <1>3, <2>3
  <2> QED BY <2>2, <2>3
<1>5. \A h \in Handler : PortsOf(h)' = IF h = i THEN PortsOf(h) \cup {p} ELSE PortsOf(h)
  <2>1. \A h \in Handler : ports_[p].handler # h BY <1>1 DEF Contains, Handler
  <2> QED BY <1>0, <1>3, <2>1 DEF PortsOf
<1>6. Owned'
  <2>1. \A q \in IsolatePort : Contains(q)' =>
          ports_'[q].handler \in Isolate /\ life'[ports_'[q].handler] = "alive"
    BY <1>0, <1>1, <1>3 DEF Owned, Contains, Port
  <2>2. \A n \in Native : Contains(n)' => ports_'[n].handler = n /\ ports_'[n].state = "live"
    BY <1>0, <1>3 DEF Owned, Contains, Port
  <2>3. \A h \in Handler : handlerPorts'[h] = PortsOf(h)'
    BY <1>0, <1>1, <1>5 DEF Owned, Types
  <2> QED BY <1>0, <1>1, <1>4, <2>1, <2>2, <2>3 DEF Owned
<1>7. \A n \in Native : NativeLife(n)'
  <2>1. \A n \in Native : ports_'[n] = ports_[n] BY <1>3 DEF Port
  <2> QED BY <1>1, <2>1, NativeSame DEF IInv
<1> QED BY <1>2, <1>6, <1>7 DEF IInv

LEMMA StateSteps ==
    ASSUME IInv, NEW p \in IsolatePort, NEW state \in State, SetPortState(p, state)
    PROVE  IInv'
<1> USE HandlerAssumption DEF map, run
<1> DEFINE i == ports_[p].handler
           old == ports_[p].state
<1>0. Types /\ Owned /\ p \in Port BY DEF IInv, Port
<1>1. /\ open /\ mutex_ = None /\ Contains(p)
      /\ \/ old = "new" /\ state \in {"live", "control"}
         \/ old = "live" /\ state = "inactive"
         \/ old = "inactive" /\ state = "live"
      /\ ports_' = [ports_ EXCEPT ![p].state = state]
      /\ live_ports_' = [live_ports_ EXCEPT ![i] = IF state = "live" THEN @ + 1
                           ELSE IF state = "inactive" /\ old = "live" THEN @ - 1 ELSE @]
      /\ UNCHANGED <<open, handlerPorts, mutex_, life, queue_, pool_, task_running_,
                     delete_me_, task, closing>>
  BY DEF SetPortState, Locked
<1>2. i \in Isolate /\ i \in Handler /\ life[i] = "alive" BY <1>0, <1>1 DEF Owned, Handler
<1>3. /\ ports_'[p].handler = i /\ ports_'[p].state = state
      /\ \A q \in Port \ {p} : ports_'[q] = ports_[q]
      /\ ports_' \in [Port -> [handler : Handler \cup {None}, state : State]]
  BY <1>0, <1>1 DEF Types
<1>4. Types'
  <2>1. live_ports_' \in [Handler -> Int]
    <3>1. live_ports_ \in [Handler -> Int] /\ live_ports_[i] \in Int BY <1>0, <1>2 DEF Types
    <3> DEFINE x == IF state = "live" THEN live_ports_[i] + 1
                    ELSE IF state = "inactive" /\ old = "live" THEN live_ports_[i] - 1
                    ELSE live_ports_[i]
    <3>2. live_ports_' = [live_ports_ EXCEPT ![i] = x] BY <1>1
    <3>3. x \in Int BY <3>1
    <3> HIDE DEF x
    <3> QED BY <3>1, <3>2, <3>3, Zenon
  <2> QED BY <1>0, <1>1, <1>3, <2>1 DEF Types
<1>5. ASSUME NEW h \in Handler PROVE live_ports_'[h] = Cardinality(Counts(h)')
  <2>0. /\ Counts(h) \in SUBSET Port /\ IsFiniteSet(Counts(h))
        /\ live_ports_[h] = Cardinality(Counts(h)) /\ Cardinality(Counts(h)) \in Nat
    BY <1>0, FinitePorts, FS_CardinalityType, Zenon DEF Counts, Owned
  <2>1. CASE h # i
    <3>1. Counts(h)' = Counts(h) BY <1>1, <1>3, <2>1 DEF Counts
    <3> QED BY <1>0, <1>1, <2>0, <2>1, <3>1 DEF Types
  <2>2. CASE h = i /\ state = "live"
    <3>1. p \notin Counts(h) /\ Counts(h)' = Counts(h) \cup {p}
      BY <1>0, <1>1, <1>3, <2>2 DEF Counts
    <3>2. Cardinality(Counts(h) \cup {p}) = Cardinality(Counts(h)) + 1
      BY <2>0, <3>1, FS_AddElement, Zenon
    <3>3. live_ports_'[h] = live_ports_[h] + 1 BY <1>0, <1>1, <1>2, <2>2 DEF Types
    <3> QED BY <2>0, <3>1, <3>2, <3>3
  <2>3. CASE h = i /\ state = "inactive"
    <3>1. p \in Counts(h) /\ Counts(h)' = Counts(h) \ {p}
      BY <1>0, <1>1, <1>3, <2>3 DEF Counts
    <3>2. Cardinality(Counts(h) \ {p}) = Cardinality(Counts(h)) - 1
      BY <2>0, <3>1, FS_RemoveElement, Zenon
    <3>3. live_ports_'[h] = live_ports_[h] - 1 BY <1>0, <1>1, <1>2, <2>3 DEF Types
    <3> QED BY <2>0, <3>1, <3>2, <3>3
  <2>4. CASE h = i /\ state = "control"
    <3>1. Counts(h)' = Counts(h) BY <1>0, <1>1, <1>3, <2>4 DEF Counts
    <3>2. live_ports_'[h] = live_ports_[h] BY <1>0, <1>1, <1>2, <2>4 DEF Types
    <3> QED BY <2>0, <3>1, <3>2
  <2> QED BY <1>1, <2>1, <2>2, <2>3, <2>4
<1>6. Owned'
  <2>1. \A q \in Port : ports_'[q].handler = ports_[q].handler BY <1>3
  <2>2. /\ \A q \in Port : Contains(q)' <=> Contains(q)
        /\ \A h \in Handler : PortsOf(h)' = PortsOf(h)
    BY <2>1 DEF Contains, PortsOf
  <2>3. \A q \in IsolatePort : Contains(q)' =>
          ports_'[q].handler \in Isolate /\ life'[ports_'[q].handler] = "alive"
    BY <1>0, <1>1, <2>1, <2>2 DEF Owned, Port
  <2>4. \A n \in Native : Contains(n)' => ports_'[n].handler = n /\ ports_'[n].state = "live"
    BY <1>0, <1>3, <2>2 DEF Owned, Port
  <2> QED BY <1>0, <1>1, <1>5, <2>2, <2>3, <2>4 DEF Owned
<1>7. \A n \in Native : NativeLife(n)'
  <2>1. \A n \in Native : ports_'[n] = ports_[n] BY <1>3 DEF Port
  <2> QED BY <1>1, <2>1, NativeSame DEF IInv
<1> QED BY <1>4, <1>6, <1>7 DEF IInv

\* ClosePort and ClosePorts of an isolate.
LEMMA IsolateCloses ==
    ASSUME IInv, NEW i \in Isolate, NEW P \in SUBSET Port,
           open, mutex_ = None, life[i] = "alive",
           \A p \in P : ports_[p].handler = i,
           live_ports_' = Decremented(i, P), Removed(i, P),
           UNCHANGED <<mutex_, queue_, pool_, task_running_, delete_me_, task, closing>>,
           \/ UNCHANGED life
           \/ life' = [life EXCEPT ![i] = "closed"] /\ P = PortsOf(i)
    PROVE  IInv'
<1> USE HandlerAssumption
<1>0. Types /\ Owned /\ i \in Handler /\ i # None BY DEF IInv, Handler
<1>1. /\ \A q \in Port : ports_'[q] = IF q \in P THEN NoEntry ELSE ports_[q]
      /\ handlerPorts' = [handlerPorts EXCEPT ![i] = @ \ P] /\ open' = open
  BY DEF Removed
<1>2. Types'
  <2>1. NoEntry \in [handler : Handler \cup {None}, state : State] BY DEF NoEntry, State
  <2>2. ports_' \in [Port -> [handler : Handler \cup {None}, state : State]]
    BY <1>0, <2>1 DEF Removed, Types
  <2>3. live_ports_' \in [Handler -> Int]
    <3>1. Cardinality(Live(P)) \in Int
      <4>1. Live(P) \in SUBSET Port BY DEF Live
      <4> QED BY <4>1, FinitePorts, FS_CardinalityType
    <3> QED BY <1>0, <3>1 DEF Decremented, Types
  <2> QED BY <1>0, <1>1, <2>2, <2>3, Zenon DEF Types
<1>3. \A h \in Handler : Counts(h)' = Counts(h) \ P
  BY <1>1 DEF Counts, NoEntry, Handler
<1>4. \A p \in P : mutex_ # p
  <2>1. None \notin Port BY DEF Port
  <2> QED BY <2>1
<1>5. \A h \in Handler : live_ports_'[h] = Cardinality(Counts(h)')
  BY <1>0, <1>3, <1>4, CountsLess
<1>6. \A h \in Handler : PortsOf(h)' = PortsOf(h) \ P
  BY <1>1 DEF PortsOf, NoEntry, Handler
<1>7. Owned'
  <2>1. \A h \in Handler : handlerPorts'[h] = PortsOf(h)'
    <3>1. \A h \in Handler \ {i} : PortsOf(h) \cap P = {} BY DEF PortsOf
    <3>2. \A h \in Handler : handlerPorts[h] = PortsOf(h) BY <1>0 DEF Owned
    <3>3. handlerPorts \in [Handler -> SUBSET Port] BY <1>0 DEF Types
    <3>4. /\ handlerPorts'[i] = handlerPorts[i] \ P
          /\ \A h \in Handler \ {i} : handlerPorts'[h] = handlerPorts[h]
      BY <1>0, <1>1, <3>3
    <3>5. \A h \in Handler \ {i} : PortsOf(h) \ P = PortsOf(h) BY <3>1
    <3> QED BY <1>6, <3>2, <3>4, <3>5
  <2>2. ASSUME NEW q \in IsolatePort, Contains(q)'
        PROVE  ports_'[q].handler \in Isolate /\ life'[ports_'[q].handler] = "alive"
    <3>1. q \in Port /\ q \notin P /\ ports_'[q] = ports_[q]
      BY <1>1, <2>2 DEF Contains, NoEntry, Port
    <3>2. ports_[q].handler \in Isolate /\ life[ports_[q].handler] = "alive"
      BY <1>0, <2>2, <3>1 DEF Owned, Contains
    <3>3. P = PortsOf(i) => ports_[q].handler # i BY <3>1 DEF PortsOf
    <3> QED BY <1>0, <3>1, <3>2, <3>3 DEF Types, Handler
  <2>3. \A n \in Native : Contains(n)' => ports_'[n].handler = n /\ ports_'[n].state = "live"
    BY <1>0, <1>1 DEF Owned, Contains, Port, NoEntry
  <2>4. \A j \in Isolate : life'[j] \in {"alive", "closed", "deleted"}
    BY <1>0 DEF Owned, Types, Handler
  <2> QED BY <1>1, <1>5, <2>1, <2>2, <2>3, <2>4 DEF Owned
<1>8. \A n \in Native : NativeLife(n)'
  <2>1. SUFFICES ASSUME NEW n \in Native PROVE NativeLife(n)' OBVIOUS
  <2>2. n \in Port /\ n \notin P
    <3>1. n \in Port BY DEF Port
    <3>2. n \in P => ports_[n].handler = n /\ n = i BY <1>0, <3>1 DEF Owned, Contains
    <3> QED BY <3>1, <3>2
  <2>3. ports_'[n] = ports_[n] /\ life'[n] = life[n]
    BY <1>0, <1>1, <2>2 DEF Types, Handler
  <2> QED BY <2>3, NativeSame DEF IInv
<1> QED BY <1>2, <1>7, <1>8 DEF IInv

LEMMA CloseSteps ==
    ASSUME IInv,
           \/ \E p \in IsolatePort : ClosePort(p)
           \/ \E i \in Isolate : ClosePorts(i)
    PROVE  IInv'
<1> USE DEF run, Locked
<1>1. ASSUME NEW p \in IsolatePort, ClosePort(p) PROVE IInv'
  <2>1. ports_[p].handler \in Isolate /\ life[ports_[p].handler] = "alive"
    BY <1>1 DEF IInv, Owned, ClosePort
  <2>2. {p} \in SUBSET Port BY DEF Port
  <2> QED BY <1>1, <2>1, <2>2, IsolateCloses DEF ClosePort
<1>2. ASSUME NEW i \in Isolate, ClosePorts(i) PROVE IInv'
  <2>1. handlerPorts[i] = PortsOf(i) BY <1>2 DEF IInv, Owned, ClosePorts, Handler
  <2>2. PortsOf(i) \in SUBSET Port /\ \A p \in PortsOf(i) : ports_[p].handler = i
    BY DEF PortsOf
  <2> QED BY <1>2, <2>1, <2>2, IsolateCloses, Zenon DEF ClosePorts
<1> QED BY <1>1, <1>2

LEMMA DeleteHandlerSteps ==
    ASSUME IInv, NEW i \in Isolate, DeleteHandler(i)
    PROVE  IInv'
<1> USE HandlerAssumption DEF map, run
<1>0. Types /\ Owned /\ i \in Handler BY DEF IInv, Handler
<1>1. /\ life[i] = "closed" /\ life' = [life EXCEPT ![i] = "deleted"]
      /\ UNCHANGED <<open, ports_, handlerPorts, mutex_, live_ports_, queue_, pool_,
                     task_running_, delete_me_, task, closing>>
  BY DEF DeleteHandler
<1>2. Types' BY <1>0, <1>1 DEF Types
<1>3. \A h \in Handler \ {i} : life'[h] = life[h] BY <1>0, <1>1 DEF Types
<1>4. Owned'
  <2>1. \A h \in Handler : live_ports_'[h] = Cardinality(Counts(h)')
    BY <1>0, <1>1, CountsSame
  <2>2. \A q \in IsolatePort : Contains(q)' =>
          ports_'[q].handler \in Isolate /\ life'[ports_'[q].handler] = "alive"
    BY <1>0, <1>1, <1>3 DEF Owned, Contains, Handler
  <2>3. \A h \in Handler : PortsOf(h)' = PortsOf(h) BY <1>1 DEF PortsOf
  <2>4. \A n \in Native : Contains(n)' => ports_'[n].handler = n /\ ports_'[n].state = "live"
    BY <1>0, <1>1 DEF Owned, Contains
  <2> QED BY <1>0, <1>1, <1>3, <2>1, <2>2, <2>3, <2>4 DEF Owned, Types, Handler
<1>5. \A n \in Native : NativeLife(n)'
  BY <1>1, <1>3, NativeSame DEF IInv, Handler
<1> QED BY <1>2, <1>4, <1>5 DEF IInv

-----------------------------------------------------------------------------
(* The operations on a native port.                                        *)

\* A step of a native handler that leaves the map alone.
LEMMA NativeStep ==
    ASSUME IInv, NEW n \in Native, life[n] \in {"created", "alive"},
           UNCHANGED <<open, ports_, handlerPorts, mutex_, live_ports_>>,
           \A h \in Handler \ {n} : life'[h] = life[h],
           \A m \in Native \ {n} :
             /\ queue_'[m] = queue_[m] /\ pool_'[m] = pool_[m]
             /\ task_running_'[m] = task_running_[m] /\ delete_me_'[m] = delete_me_[m]
             /\ task'[m] = task[m] /\ closing'[m] = closing[m],
           Types', NativeLife(n)'
    PROVE  IInv'
<1> USE HandlerAssumption
<1>0. Types /\ Owned /\ n \in Handler BY DEF IInv, Handler
<1>1. Owned'
  <2>1. \A h \in Handler : live_ports_'[h] = Cardinality(Counts(h)') BY <1>0, CountsSame, Zenon
  <2>2. /\ \A q : Contains(q)' <=> Contains(q)
        /\ \A h : PortsOf(h)' = PortsOf(h)
    BY Zenon DEF Contains, PortsOf
  <2>3. \A i \in Isolate : i \in Handler \ {n} BY Zenon DEF Handler
  <2>4. open BY <1>0 DEF Owned
  <2> QED BY <1>0, <2>1, <2>2, <2>3, <2>4 DEF Owned
<1>2. \A m \in Native : NativeLife(m)'
  <2>1. \A m \in Native \ {n} : m \in Handler \ {n} BY DEF Handler
  <2> QED BY <2>1, NativeSame DEF IInv
<1> QED BY <1>1, <1>2 DEF IInv

LEMMA RunSteps ==
    ASSUME IInv, NEW n \in Native, Run(n)
    PROVE  IInv'
<1> USE DEF map
<1>0. Types /\ NativeLife(n) /\ n \in Handler BY DEF IInv, Handler
<1>1. /\ life[n] = "created" /\ closing[n] = "no" /\ Contains(n)
      /\ UNCHANGED <<open, ports_, handlerPorts, mutex_, live_ports_, queue_, delete_me_>>
  BY DEF Run
<1>2. Contains(n)' BY <1>1 DEF Contains
<1>3. CASE /\ life' = [life EXCEPT ![n] = "alive"] /\ pool_' = [pool_ EXCEPT ![n] = TRUE]
           /\ task_running_' = [task_running_ EXCEPT ![n] = TRUE]
           /\ task' = [task EXCEPT ![n] = "queued"] /\ UNCHANGED closing
  <2>1. /\ Types' /\ life'[n] = "alive" /\ pool_'[n] /\ task_running_'[n]
        /\ task'[n] = "queued"
        /\ \A h \in Handler \ {n} : life'[h] = life[h]
        /\ \A m \in Native \ {n} : /\ pool_'[m] = pool_[m] /\ task'[m] = task[m]
                                   /\ task_running_'[m] = task_running_[m]
    BY <1>0, <1>1, <1>3 DEF Types
  <2>2. NativeLife(n)' BY <1>0, <1>1, <1>2, <1>3, <2>1, Zenon DEF NativeLife
  <2> QED BY <1>1, <1>3, <2>1, <2>2, NativeStep, Zenon
<1>4. CASE /\ closing' = [closing EXCEPT ![n] = "begin"]
           /\ UNCHANGED <<life, pool_, task_running_, task>>
  <2>1. /\ Types' /\ closing'[n] = "begin"
        /\ \A m \in Native \ {n} : closing'[m] = closing[m]
    BY <1>0, <1>1, <1>4 DEF Types
  <2>2. NativeLife(n)' BY <1>0, <1>1, <1>2, <1>4, <2>1 DEF NativeLife
  <2> QED BY <1>1, <1>4, <2>1, <2>2, NativeStep, Zenon
<1> QED BY <1>3, <1>4 DEF Run

LEMMA PostSteps ==
    ASSUME IInv, NEW n \in Native, PostMessage(n)
    PROVE  IInv'
<1> USE DEF map
<1>0. Types /\ NativeLife(n) BY DEF IInv
<1>1. /\ mutex_ = None /\ Contains(n) /\ life[n] = "alive" /\ queue_[n] < MaxQueue
      /\ queue_' = [queue_ EXCEPT ![n] = @ + 1]
      /\ UNCHANGED <<open, ports_, handlerPorts, mutex_, live_ports_, life, pool_,
                     delete_me_, closing>>
  BY DEF PostMessage, Locked
<1>2. pool_[n] BY <1>0, <1>1, HandlerAssumption DEF NativeLife
<1>3. \/ /\ ~task_running_[n] /\ task_running_' = [task_running_ EXCEPT ![n] = TRUE]
         /\ task' = [task EXCEPT ![n] = "queued"]
      \/ task_running_[n] /\ UNCHANGED <<task_running_, task>>
  BY <1>2 DEF PostMessage, NeedsTask
<1>4. /\ Types' /\ task_running_'[n] /\ task'[n] \in {"queued", "busy"}
      /\ \A m \in Native \ {n} : /\ queue_'[m] = queue_[m] /\ task'[m] = task[m]
                                 /\ task_running_'[m] = task_running_[m]
  <2>1. queue_' \in [Native -> 0 .. MaxQueue] BY <1>0, <1>1, HandlerAssumption DEF Types
  <2>2. task_running_'[n] /\ task'[n] \in {"queued", "busy"}
    BY <1>0, <1>1, <1>3 DEF Types, NativeLife
  <2> QED BY <1>0, <1>1, <1>3, <2>1, <2>2, Zenon DEF Types
<1>5. Contains(n)' BY <1>1, Zenon DEF Contains
<1>6. NativeLife(n)' BY <1>0, <1>1, <1>4, <1>5, Zenon DEF NativeLife
<1> QED BY <1>1, <1>4, <1>6, NativeStep

\* The one live port of a native handler, if it has one.
LEMMA NativeCount ==
    ASSUME IInv, NEW n \in Native
    PROVE  /\ Contains(n) /\ mutex_ # n => live_ports_[n] = 1
           /\ ~Contains(n) \/ mutex_ = n => live_ports_[n] = 0
<1> USE HandlerAssumption
<1>0. Types /\ Owned /\ n \in Handler /\ n \in Port /\ n # None BY DEF IInv, Handler, Port
<1>1. \A p \in Counts(n) : p = n
  BY <1>0 DEF Counts, Owned, Contains, Port
<1>2. n \in Counts(n) <=> Contains(n) /\ mutex_ # n
  BY <1>0 DEF Counts, Owned, Contains
<1>3. Contains(n) /\ mutex_ # n => Counts(n) = {n} BY <1>1, <1>2
<1>4. ~Contains(n) \/ mutex_ = n => Counts(n) = {} BY <1>1, <1>2
<1>5. live_ports_[n] = Cardinality(Counts(n)) BY <1>0 DEF Owned
<1>6. Cardinality({n}) = 1 /\ Cardinality({}) = 0 BY FS_EmptySet, FS_Singleton, Zenon
<1> QED BY <1>3, <1>4, <1>5, <1>6

LEMMA TaskSteps ==
    ASSUME IInv, NEW n \in Native, TaskCallback(n)
    PROVE  IInv'
<1> USE DEF map
<1>0. Types /\ NativeLife(n) BY DEF IInv
<1>1. /\ task[n] \in {"queued", "busy"} /\ HandleOrExit(n)
      /\ UNCHANGED <<open, ports_, handlerPorts, mutex_, live_ports_, life, delete_me_,
                     closing>>
  BY DEF TaskCallback
<1>2. life[n] = "alive" /\ task_running_[n] BY <1>0, <1>1 DEF NativeLife, Types, Handler
<1>3. Contains(n)' <=> Contains(n) BY <1>1, Zenon DEF Contains
<1>4. CASE queue_[n] > 0
  <2>1. /\ queue_' = [queue_ EXCEPT ![n] = @ - 1] /\ task' = [task EXCEPT ![n] = "busy"]
        /\ UNCHANGED <<pool_, task_running_>>
    BY <1>1, <1>4 DEF HandleOrExit
  <2>2. queue_' \in [Native -> 0 .. MaxQueue]
    BY <1>0, <1>4, <2>1, HandlerAssumption DEF Types
  <2>3. /\ Types' /\ task'[n] = "busy"
        /\ \A m \in Native \ {n} : queue_'[m] = queue_[m] /\ task'[m] = task[m]
    BY <1>0, <1>1, <2>1, <2>2 DEF Types
  <2>4. NativeLife(n)' BY <1>0, <1>1, <1>2, <1>3, <2>1, <2>3, Zenon DEF NativeLife
  <2> QED BY <1>1, <1>2, <2>1, <2>3, <2>4, NativeStep
<1>5. CASE ~(queue_[n] > 0)
  <2>1. /\ task_running_' = [task_running_ EXCEPT ![n] = FALSE] /\ UNCHANGED queue_
        /\ \/ /\ live_ports_[n] > 0
              /\ task' = [task EXCEPT ![n] = "none"] /\ UNCHANGED pool_
           \/ /\ ~(live_ports_[n] > 0)
              /\ task' = [task EXCEPT ![n] = IF delete_me_[n] THEN "delete" ELSE "none"]
              /\ pool_' = [pool_ EXCEPT ![n] = FALSE]
    BY <1>1, <1>5 DEF HandleOrExit
  <2>2. Contains(n) /\ mutex_ # n <=> live_ports_[n] > 0 BY NativeCount
  <2>3. /\ Types'
        /\ \A m \in Native \ {n} : /\ pool_'[m] = pool_[m] /\ task'[m] = task[m]
                                   /\ task_running_'[m] = task_running_[m]
        /\ ~task_running_'[n]
        /\ task'[n] = IF (Contains(n) /\ mutex_ # n) \/ ~delete_me_[n] THEN "none" ELSE "delete"
        /\ Contains(n) /\ mutex_ # n => pool_'[n] = pool_[n]
    BY <1>0, <1>1, <2>1, <2>2, Zenon DEF Types
  <2>4. delete_me_[n] => ~Contains(n) BY <1>0, <1>2 DEF NativeLife
  <2>5. NativeLife(n)'
    BY <1>0, <1>1, <1>2, <1>3, <1>5, <2>1, <2>3, <2>4, Zenon DEF NativeLife
  <2> QED BY <1>1, <1>2, <2>1, <2>3, <2>5, NativeStep, Zenon
<1> QED BY <1>4, <1>5

LEMMA DeleteSteps ==
    ASSUME IInv, NEW n \in Native, DeleteMe(n) \/ DeleteThis(n)
    PROVE  IInv'
<1> USE DEF map, run
<1>0. Types /\ NativeLife(n) /\ n \in Handler BY DEF IInv, Handler
<1>1. /\ task[n] = "delete" \/ closing[n] = "delete"
      /\ life' = [life EXCEPT ![n] = "deleted"]
      /\ UNCHANGED <<open, ports_, handlerPorts, mutex_, live_ports_, queue_, pool_,
                     task_running_, delete_me_>>
      /\ \/ task[n] = "delete" /\ task' = [task EXCEPT ![n] = "none"] /\ UNCHANGED closing
         \/ closing[n] = "delete" /\ closing' = [closing EXCEPT ![n] = "no"] /\ UNCHANGED task
  BY DEF DeleteMe, DeleteThis
<1>2. /\ life[n] \in {"created", "alive"} /\ ~Contains(n)
      /\ task[n] = "delete" => closing[n] = "no"
      /\ closing[n] = "delete" => task[n] = "none"
  BY <1>0, <1>1 DEF NativeLife, Types
<1>3. /\ Types' /\ life'[n] = "deleted" /\ task'[n] = "none" /\ closing'[n] = "no"
      /\ \A h \in Handler \ {n} : life'[h] = life[h]
      /\ \A m \in Native \ {n} : task'[m] = task[m] /\ closing'[m] = closing[m]
  BY <1>0, <1>1, <1>2 DEF Types
<1>4. ~Contains(n)' BY <1>1, <1>2 DEF Contains
<1>5. NativeLife(n)' BY <1>0, <1>1, <1>2, <1>3, <1>4, Zenon DEF NativeLife
<1> QED BY <1>1, <1>2, <1>3, <1>5, NativeStep

LEMMA CloseNativeSteps ==
    ASSUME IInv, NEW n \in Native, CloseNativePort(n) \/ RequestDeletion(n)
    PROVE  IInv'
<1> USE DEF map, run
<1>0. Types /\ NativeLife(n) BY DEF IInv
<1>1. /\ UNCHANGED <<open, ports_, handlerPorts, mutex_, live_ports_, life, queue_, pool_,
                     task_running_, task>>
      /\ Contains(n)' <=> Contains(n)
  BY DEF CloseNativePort, RequestDeletion, Contains
<1>2. CASE CloseNativePort(n)
  <2>1. /\ closing[n] = "no" /\ life[n] = "alive" /\ Contains(n)
        /\ closing' = [closing EXCEPT ![n] = "begin"] /\ UNCHANGED delete_me_
    BY <1>2 DEF CloseNativePort
  <2>2. /\ Types' /\ closing'[n] = "begin"
        /\ \A m \in Native \ {n} : closing'[m] = closing[m]
    BY <1>0, <1>1, <2>1 DEF Types
  <2>3. NativeLife(n)' BY <1>0, <1>1, <2>1, <2>2, Zenon DEF NativeLife
  <2> QED BY <1>1, <2>1, <2>2, <2>3, NativeStep
<1>3. CASE RequestDeletion(n)
  <2>1. /\ closing[n] = "removed" /\ life[n] \in {"created", "alive"} /\ ~Contains(n)
        /\ live_ports_[n] = 0 /\ mutex_ # n
    BY <1>0, <1>3, NativeCount DEF RequestDeletion, NativeLife, Types, Handler
  <2>2. CASE ~task_running_[n]
    <3>1. closing' = [closing EXCEPT ![n] = "delete"] /\ UNCHANGED delete_me_
      BY <1>3, <2>1, <2>2, Zenon DEF RequestDeletion, CanDelete
    <3>2. /\ Types' /\ closing'[n] = "delete"
          /\ \A m \in Native \ {n} : closing'[m] = closing[m]
      BY <1>0, <1>1, <3>1 DEF Types
    <3>3. NativeLife(n)' BY <1>0, <1>1, <2>1, <2>2, <3>1, <3>2, Zenon DEF NativeLife
    <3> QED BY <1>1, <2>1, <3>1, <3>2, <3>3, NativeStep, Zenon
  <2>3. CASE task_running_[n]
    <3>1. /\ closing' = [closing EXCEPT ![n] = "no"]
          /\ delete_me_' = [delete_me_ EXCEPT ![n] = TRUE]
      BY <1>3, <2>1, <2>3, Zenon DEF RequestDeletion, CanDelete
    <3>2. /\ Types' /\ closing'[n] = "no" /\ delete_me_'[n]
          /\ \A m \in Native \ {n} : /\ closing'[m] = closing[m]
                                     /\ delete_me_'[m] = delete_me_[m]
      BY <1>0, <1>1, <3>1 DEF Types
    <3>3. life[n] = "alive" /\ task[n] \in {"queued", "busy"}
      BY <1>0, <2>1, <2>3 DEF NativeLife
    <3>4. NativeLife(n)' BY <1>0, <1>1, <2>1, <2>3, <3>1, <3>2, <3>3, Zenon DEF NativeLife
    <3> QED BY <1>1, <2>1, <3>1, <3>2, <3>4, NativeStep, Zenon
  <2> QED BY <2>2, <2>3
<1> QED BY <1>2, <1>3

LEMMA NewNativeSteps ==
    ASSUME IInv, NEW n \in Native, NewNativePort(n)
    PROVE  IInv'
<1> USE HandlerAssumption DEF map, run
<1>0. Types /\ Owned /\ NativeLife(n) /\ n \in Handler /\ n \in Port /\ n # None
  BY DEF IInv, Handler, Port
<1>1. /\ open /\ mutex_ = None /\ life[n] = "unborn" /\ ~Contains(n)
      /\ ports_' = [ports_ EXCEPT ![n] = [handler |-> n, state |-> "live"]]
      /\ handlerPorts' = [handlerPorts EXCEPT ![n] = @ \cup {n}]
      /\ live_ports_' = [live_ports_ EXCEPT ![n] = @ + 1]
      /\ life' = [life EXCEPT ![n] = "created"]
      /\ UNCHANGED <<open, mutex_, queue_, pool_, task_running_, delete_me_, task, closing>>
  BY <1>0, Zenon DEF NewNativePort, Locked, Opened, NativeLife
<1>2. Types'
  <2>1. [handler |-> n, state |-> "live"] \in [handler : Handler \cup {None}, state : State]
    BY <1>0 DEF State
  <2> QED BY <1>0, <1>1, <2>1 DEF Types
<1>3. /\ ports_'[n].handler = n /\ ports_'[n].state = "live"
      /\ \A q \in Port \ {n} : ports_'[q] = ports_[q]
      /\ life'[n] = "created" /\ \A h \in Handler \ {n} : life'[h] = life[h]
  BY <1>0, <1>1 DEF Types
<1>4. /\ \A h \in Handler : ports_[n].handler # h
      /\ \A h \in Handler \ {n} : Counts(h)' = Counts(h) /\ PortsOf(h)' = PortsOf(h)
      /\ PortsOf(n)' = PortsOf(n) \cup {n}
  <2>1. \A h \in Handler : ports_[n].handler # h BY <1>1 DEF Contains, Handler
  <2>2. \A h \in Handler \ {n} : Counts(h)' = Counts(h) /\ PortsOf(h)' = PortsOf(h)
    BY <1>1, <1>3, <2>1 DEF Counts, PortsOf
  <2>3. PortsOf(n)' = PortsOf(n) \cup {n} BY <1>0, <1>3 DEF PortsOf
  <2> QED BY <2>1, <2>2, <2>3, Zenon
<1>5. live_ports_'[n] = 1 /\ Counts(n)' = {n}
  <2>1. live_ports_[n] = 0 BY <1>1, NativeCount
  <2>2. \A q \in Port \ {n} : ports_[q].handler # n
    BY <1>0 DEF Owned, Contains, Port
  <2>3. mutex_' # n BY <1>0, <1>1
  <2> QED BY <1>0, <1>1, <1>3, <2>1, <2>2, <2>3 DEF Types, Counts
<1>6. Owned'
  <2>1. ASSUME NEW h \in Handler PROVE live_ports_'[h] = Cardinality(Counts(h)')
    <3>1. CASE h = n
      <4>1. Cardinality({n}) = 1 BY FS_Singleton, Zenon
      <4> QED BY <1>5, <3>1, <4>1
    <3>2. CASE h # n BY <1>0, <1>1, <1>4, <3>2 DEF Owned, Types
    <3> QED BY <3>1, <3>2
  <2>2. \A h \in Handler : handlerPorts'[h] = PortsOf(h)'
    BY <1>0, <1>1, <1>4 DEF Owned, Types
  <2>3. ASSUME NEW q \in IsolatePort, Contains(q)'
        PROVE  ports_'[q].handler \in Isolate /\ life'[ports_'[q].handler] = "alive"
    <3>1. q \in Port /\ q # n /\ ports_'[q] = ports_[q] BY <1>3 DEF Port
    <3>2. ports_[q].handler \in Isolate /\ life[ports_[q].handler] = "alive"
      BY <1>0, <2>3, <3>1, Zenon DEF Owned, Contains
    <3>3. ports_[q].handler \in Handler \ {n} BY <3>2 DEF Handler
    <3> QED BY <1>3, <3>1, <3>2, <3>3, Zenon
  <2>4. ASSUME NEW m \in Native, Contains(m)'
        PROVE  ports_'[m].handler = m /\ ports_'[m].state = "live"
    BY <1>0, <1>3, <2>4 DEF Owned, Contains, Port
  <2>5. \A i \in Isolate : life'[i] = life[i] BY <1>3, Zenon DEF Handler
  <2> QED BY <1>0, <1>1, <2>1, <2>2, <2>3, <2>4, <2>5, Zenon DEF Owned
<1>7. ASSUME NEW m \in Native PROVE NativeLife(m)'
  <2>1. CASE m # n
    <3>1. ports_'[m] = ports_[m] /\ life'[m] = life[m] BY <1>3, <2>1 DEF Port, Handler
    <3> QED BY <1>1, <3>1, NativeSame, Zenon DEF IInv
  <2>2. CASE m = n
    <3>1. Contains(n)' BY <1>0, <1>3 DEF Contains
    <3>2. NativeLife(n)' BY <1>0, <1>1, <1>3, <3>1, Zenon DEF NativeLife
    <3> QED BY <2>2, <3>2
  <2> QED BY <2>1, <2>2
<1> QED BY <1>2, <1>6, <1>7 DEF IInv

LEMMA DecrementSteps ==
    ASSUME IInv, NEW n \in Native, ClosePortDecrement(n)
    PROVE  IInv'
<1> USE HandlerAssumption DEF map, run
<1>0. Types /\ Owned /\ NativeLife(n) /\ n \in Handler /\ n \in Port /\ n # None
  BY DEF IInv, Handler, Port
<1>1. /\ closing[n] = "begin" /\ open /\ mutex_ = None /\ mutex_' = n
      /\ live_ports_' = Decremented(n, {n})
      /\ closing' = [closing EXCEPT ![n] = "decremented"]
      /\ UNCHANGED <<open, ports_, handlerPorts, life, queue_, pool_, task_running_,
                     delete_me_, task>>
  BY DEF ClosePortDecrement, Locked
<1>2. Contains(n) /\ ports_[n].handler = n /\ life[n] \in {"created", "alive"}
  BY <1>0, <1>1 DEF NativeLife, Owned, Types
<1>3. closing'[n] = "decremented" /\ \A m \in Native \ {n} : closing'[m] = closing[m]
  BY <1>0, <1>1 DEF Types
<1>4. Types'
  <2>1. Cardinality(Live({n})) \in Int
    <3>1. Live({n}) \in SUBSET Port BY <1>0 DEF Live
    <3>2. IsFiniteSet(Live({n})) BY <3>1, FinitePorts
    <3> QED BY <3>2, FS_CardinalityType
  <2>2. live_ports_' \in [Handler -> Int] BY <1>0, <1>1, <2>1 DEF Types, Decremented
  <2> QED BY <1>0, <1>1, <2>2, Zenon DEF Types
<1>5. \A h \in Handler : live_ports_'[h] = Cardinality(Counts(h)')
  <2>1. \A h \in Handler : Counts(h)' = Counts(h) \ {n}
    <3>1. None \notin Port BY DEF Port
    <3> QED BY <1>1, <3>1, Zenon DEF Counts
  <2> QED BY <1>0, <1>1, <1>2, <2>1, CountsLess, Zenon
<1>6. \A q : Contains(q)' <=> Contains(q) BY <1>1 DEF Contains
<1>7. Owned'
  <2>1. \A h : PortsOf(h)' = PortsOf(h) BY <1>1 DEF PortsOf
  <2> QED BY <1>0, <1>1, <1>5, <1>6, <2>1, Zenon DEF Owned
<1>8. ASSUME NEW m \in Native PROVE NativeLife(m)'
  <2>1. CASE m # n BY <1>0, <1>1, <1>3, <2>1, NativeSame, Zenon DEF IInv
  <2>2. CASE m = n BY <1>0, <1>1, <1>2, <1>3, <1>6, <2>2, Zenon DEF NativeLife
  <2> QED BY <2>1, <2>2
<1> QED BY <1>4, <1>7, <1>8 DEF IInv

LEMMA RemoveSteps ==
    ASSUME IInv, NEW n \in Native, ClosePortRemove(n)
    PROVE  IInv'
<1> USE HandlerAssumption DEF map, run
<1>0. Types /\ Owned /\ NativeLife(n) /\ n \in Handler /\ n \in Port /\ n # None
  BY DEF IInv, Handler, Port
<1>1. /\ closing[n] = "decremented" /\ mutex_' = None
      /\ \A q \in Port : ports_'[q] = IF q = n THEN NoEntry ELSE ports_[q]
      /\ handlerPorts' = [handlerPorts EXCEPT ![n] = @ \ {n}]
      /\ closing' = [closing EXCEPT ![n] = "removed"]
      /\ UNCHANGED <<open, live_ports_, life, queue_, pool_, task_running_,
                     delete_me_, task>>
  BY Zenon DEF ClosePortRemove, Removed
<1>2. /\ mutex_ = n /\ Contains(n) /\ ports_[n].handler = n
      /\ life[n] \in {"created", "alive"} /\ open
  BY <1>0, <1>1 DEF NativeLife, Owned, Types
<1>3. closing'[n] = "removed" /\ \A m \in Native \ {n} : closing'[m] = closing[m]
  BY <1>0, <1>1, Zenon DEF Types
<1>4. Types'
  <2>1. NoEntry \in [handler : Handler \cup {None}, state : State] BY DEF NoEntry, State
  <2>2. ports_' \in [Port -> [handler : Handler \cup {None}, state : State]]
    BY <1>0, <2>1 DEF ClosePortRemove, Removed, Types
  <2> QED BY <1>0, <1>1, <2>2, Zenon DEF Types
<1>5. ports_'[n].handler = None /\ \A q \in Port \ {n} : ports_'[q] = ports_[q]
  BY <1>0, <1>1 DEF NoEntry
<1>6. \A h \in Handler : Counts(h)' = Counts(h)
  <2>1. \A h \in Handler : h # None /\ None \notin Port BY DEF Handler, Port
  <2> QED BY <1>1, <1>2, <1>5, <2>1, Zenon DEF Counts
<1>7. Owned'
  <2>1. \A h \in Handler : PortsOf(h)' = PortsOf(h) \ {n}
    <3>1. \A h \in Handler : h # None BY DEF Handler
    <3> QED BY <1>5, <3>1 DEF PortsOf
  <2>2. \A h \in Handler : handlerPorts'[h] = PortsOf(h)'
    <3>1. \A h \in Handler \ {n} : PortsOf(h) \ {n} = PortsOf(h) BY <1>2 DEF PortsOf
    <3>2. \A h \in Handler : handlerPorts[h] = PortsOf(h) BY <1>0, <1>2 DEF Owned
    <3>3. /\ handlerPorts'[n] = handlerPorts[n] \ {n}
          /\ \A h \in Handler \ {n} : handlerPorts'[h] = handlerPorts[h]
      BY <1>0, <1>1, Zenon DEF Types
    <3> QED BY <2>1, <3>1, <3>2, <3>3, Zenon
  <2>3. ASSUME NEW q \in IsolatePort, Contains(q)'
        PROVE  ports_'[q].handler \in Isolate /\ life'[ports_'[q].handler] = "alive"
    <3>1. q \in Port /\ q # n /\ ports_'[q] = ports_[q] BY <1>5 DEF Port
    <3> QED BY <1>0, <1>1, <2>3, <3>1 DEF Owned, Contains
  <2>4. ASSUME NEW m \in Native, Contains(m)'
        PROVE  ports_'[m].handler = m /\ ports_'[m].state = "live"
    <3>1. m \in Port /\ m # n /\ ports_'[m] = ports_[m] BY <1>5, <2>4 DEF Port, Contains
    <3> QED BY <1>0, <2>4, <3>1, Zenon DEF Owned, Contains
  <2> QED BY <1>0, <1>1, <1>2, <1>6, <2>2, <2>3, <2>4 DEF Owned
<1>8. ASSUME NEW m \in Native PROVE NativeLife(m)'
  <2>1. CASE m # n
    <3>1. ports_'[m] = ports_[m] BY <1>5, <2>1 DEF Port
    <3> QED BY <1>0, <1>1, <1>2, <1>3, <2>1, <3>1, NativeSame, Zenon DEF IInv
  <2>2. CASE m = n
    <3>1. ~Contains(n)' BY <1>5 DEF Contains
    <3>2. NativeLife(n)' BY <1>0, <1>1, <1>2, <1>3, <3>1, Zenon DEF NativeLife
    <3> QED BY <2>2, <3>2
  <2> QED BY <2>1, <2>2
<1> QED BY <1>4, <1>7, <1>8 DEF IInv

LEMMA CleanupSteps ==
    ASSUME IInv, Cleanup
    PROVE  IInv'
<1> USE HandlerAssumption DEF map, run
<1> DEFINE H == {ports_[p].handler : p \in {q \in Port : Contains(q)}}
<1>0. Types /\ Owned /\ (\A n \in Native : NativeLife(n)) BY DEF IInv
<1>1. /\ open /\ mutex_ = None /\ ~open'
      /\ \A i \in Isolate : life[i] = "deleted"
      /\ \A n \in Native : task[n] = "none" /\ closing[n] = "no" /\ life[n] # "created"
      /\ life' = [h \in Handler |-> IF h \in H THEN "deleted" ELSE life[h]]
      /\ live_ports_' = [h \in Handler |-> live_ports_[h] - Cardinality(Live(PortsOf(h)))]
      /\ ports_' = [p \in Port |-> NoEntry]
      /\ UNCHANGED <<handlerPorts, mutex_, queue_, pool_, task_running_, delete_me_,
                     task, closing>>
  BY Zenon DEF Cleanup, Locked
<1>2. \A h \in Handler : life'[h] = "deleted" \/ (life'[h] = "unborn" /\ life[h] = "unborn")
  <2>1. SUFFICES ASSUME NEW h \in Handler, h \notin H, life[h] # "deleted"
                 PROVE  life[h] = "unborn"
    BY <1>1, Zenon
  <2>2. h \in Native BY <1>1, <2>1, Zenon DEF Handler
  <2>3. ~Contains(h)
    <3>1. h \in Port BY <2>2 DEF Port
    <3> QED BY <1>0, <2>1, <2>2, <3>1 DEF Owned
  <2>4. NativeLife(h) /\ task[h] = "none" /\ closing[h] = "no" /\ life[h] # "created"
    BY <1>0, <1>1, <2>2, Zenon
  <2>5. life[h] \in {"unborn", "created", "alive", "closed", "deleted"} BY <1>0 DEF Types
  <2> QED BY <2>1, <2>3, <2>4, <2>5 DEF NativeLife
<1>3. \A h \in Handler : live_ports_'[h] = 0
  <2>1. SUFFICES ASSUME NEW h \in Handler PROVE live_ports_'[h] = 0 OBVIOUS
  <2>2. Live(PortsOf(h)) = Counts(h)
    <3>1. None \notin Port BY DEF Port
    <3> QED BY <1>1, <3>1, Zenon DEF Live, PortsOf, Counts
  <2>3. live_ports_[h] = Cardinality(Counts(h)) /\ live_ports_[h] \in Int
    BY <1>0 DEF Owned, Types
  <2> QED BY <1>1, <2>2, <2>3
<1>4. \A q \in Port : ~Contains(q)' BY <1>1 DEF Contains, NoEntry
<1> HIDE DEF H
<1>5. Types'
  <2>1. ports_' \in [Port -> [handler : Handler \cup {None}, state : State]]
    <3>1. NoEntry \in [handler : Handler \cup {None}, state : State] BY DEF NoEntry, State
    <3> QED BY <1>1, <3>1
  <2>2. live_ports_' \in [Handler -> Int]
    <3> DEFINE f == [h \in Handler |-> live_ports_[h] - Cardinality(Live(PortsOf(h)))]
    <3>1. \A h \in Handler : f[h] \in Int BY <1>1, <1>3
    <3>2. DOMAIN f = Handler /\ f = [h \in Handler |-> f[h]] OBVIOUS
    <3> HIDE DEF f
    <3>3. f \in [Handler -> Int] BY <3>1, <3>2
    <3> QED BY <1>1, <3>3, Zenon DEF f
  <2>3. life' \in [Handler -> {"unborn", "created", "alive", "closed", "deleted"}]
    BY <1>0, <1>1 DEF Types
  <2>4. open' \in BOOLEAN BY Zenon DEF Cleanup
  <2> QED BY <1>0, <1>1, <2>1, <2>2, <2>3, <2>4 DEF Types
<1>6. Owned'
  <2>1. \A h \in Handler : live_ports_'[h] = Cardinality(Counts(h)')
    <3>1. \A h \in Handler : Counts(h)' = {} BY <1>4 DEF Counts, Contains, Handler
    <3>2. Cardinality({}) = 0 BY FS_EmptySet
    <3> QED BY <1>3, <3>1, <3>2
  <2>2. \A i \in Isolate : life'[i] \in {"alive", "closed", "deleted"}
    BY <1>1, <1>2 DEF Handler
  <2> QED BY <1>1, <1>2, <1>4, <2>1, <2>2, Zenon DEF Owned, Port
<1>7. ASSUME NEW n \in Native PROVE NativeLife(n)'
  <2>1. ~Contains(n)' /\ (life'[n] = "deleted" \/ (life'[n] = "unborn" /\ life[n] = "unborn"))
    BY <1>2, <1>4 DEF Port, Handler
  <2>2. NativeLife(n) /\ task[n] = "none" /\ closing[n] = "no" BY <1>0, <1>1, Zenon
  <2> QED BY <1>1, <2>1, <2>2, Zenon DEF NativeLife
<1> QED BY <1>5, <1>6, <1>7 DEF IInv

-----------------------------------------------------------------------------
(* The invariant, and what follows from it.                                *)

LEMMA InitOK ==
    ASSUME Init
    PROVE  IInv
<1> USE HandlerAssumption
<1>1. NoEntry \in [handler : Handler \cup {None}, state : State] BY DEF NoEntry, State
<1>2. Types BY <1>1 DEF Init, Types
<1>3. \A p \in Port : ~Contains(p) /\ ports_[p].handler = None
  BY DEF Init, Contains, NoEntry
<1>4. Owned
  <2>1. \A h \in Handler : Counts(h) = {} /\ PortsOf(h) = {}
    BY <1>3, Zenon DEF Counts, PortsOf, Handler
  <2>2. Cardinality({}) = 0 BY FS_EmptySet
  <2> QED BY <1>3, <2>1, <2>2, Zenon DEF Init, Owned, Handler, Port
<1>5. ASSUME NEW n \in Native PROVE NativeLife(n)
  <2>1. ~Contains(n) /\ life[n] = "unborn" /\ mutex_ # n
    BY <1>3, Zenon DEF Init, Port, Handler
  <2> QED BY <2>1 DEF Init, NativeLife
<1> QED BY <1>2, <1>4, <1>5 DEF IInv

\* A step that changes nothing.
LEMMA StutterOK ==
    ASSUME IInv, UNCHANGED vars
    PROVE  IInv'
<1> USE DEF vars, map, run
<1>1. Types' BY DEF IInv, Types
<1>2. \A h \in Handler : live_ports_'[h] = Cardinality(Counts(h)')
  <2>1. UNCHANGED <<ports_, mutex_, live_ports_>> OBVIOUS
  <2> QED BY <2>1, CountsSame DEF IInv
<1>3. /\ \A q : Contains(q)' <=> Contains(q)
      /\ \A h : PortsOf(h)' = PortsOf(h)
  BY DEF Contains, PortsOf
<1>4. Owned' BY <1>2, <1>3, Zenon DEF IInv, Owned
<1>5. \A n \in Native : NativeLife(n)' BY NativeSame DEF IInv
<1> QED BY <1>1, <1>4, <1>5 DEF IInv

LEMMA NextOK ==
    ASSUME IInv, Next
    PROVE  IInv'
<1>1. ASSUME NEW i \in Isolate, ClosePorts(i) PROVE IInv' BY <1>1, CloseSteps
<1>2. ASSUME NEW i \in Isolate, DeleteHandler(i) PROVE IInv' BY <1>2, DeleteHandlerSteps
<1>3. ASSUME NEW i \in Isolate, NEW p \in IsolatePort, CreatePort(i, p) PROVE IInv'
  BY <1>3, CreateSteps
<1>4. ASSUME NEW p \in IsolatePort, ClosePort(p) PROVE IInv' BY <1>4, CloseSteps
<1>5. ASSUME NEW p \in IsolatePort, NEW state \in State, SetPortState(p, state) PROVE IInv'
  BY <1>5, StateSteps
<1>6. ASSUME NEW n \in Native, NewNativePort(n) PROVE IInv' BY <1>6, NewNativeSteps
<1>7. ASSUME NEW n \in Native, PostMessage(n) PROVE IInv' BY <1>7, PostSteps
<1>8. ASSUME NEW n \in Native, CloseNativePort(n) \/ RequestDeletion(n) PROVE IInv'
  BY <1>8, CloseNativeSteps
<1>9. ASSUME NEW n \in Native, TaskCallback(n) PROVE IInv' BY <1>9, TaskSteps
<1>10. ASSUME NEW n \in Native, DeleteMe(n) \/ DeleteThis(n) PROVE IInv'
  BY <1>10, DeleteSteps
<1>11. ASSUME NEW n \in Native, Run(n) PROVE IInv' BY <1>11, RunSteps
<1>12. ASSUME NEW n \in Native, ClosePortDecrement(n) PROVE IInv' BY <1>12, DecrementSteps
<1>13. ASSUME NEW n \in Native, ClosePortRemove(n) PROVE IInv' BY <1>13, RemoveSteps
<1>14. CASE Cleanup BY <1>14, CleanupSteps
<1> QED BY <1>1, <1>2, <1>3, <1>4, <1>5, <1>6, <1>7, <1>8, <1>9, <1>10, <1>11, <1>12,
           <1>13, <1>14 DEF Next, TaskStep, CallerStep

(* The ports, counts and states of the handlers fit together in every      *)
(* reachable state.                                                        *)
THEOREM PortMapInvariant == Spec => []IInv
<1>1. Init => IInv BY InitOK
<1>2. IInv /\ [Next]_vars => IInv' BY NextOK, StutterOK
<1> QED BY <1>1, <1>2, PTL DEF Spec

(* What a handler knows of its ports, its live ports and its task agrees   *)
(* with the port map: PortMap::CreatePort, SetPortState, ClosePort,        *)
(* ClosePorts and Cleanup keep ports_ and live_ports_ of the handlers in   *)
(* step with the map, the count never goes below zero, and Cleanup leaves  *)
(* no native handler behind.                                               *)
THEOREM MapAndHandlersAgree == Spec => []HandlersAgree
<1> USE HandlerAssumption
<1>1. IInv => HandlersAgree
  <2> SUFFICES ASSUME IInv PROVE HandlersAgree OBVIOUS
  <2>0. Types /\ Owned /\ \A n \in Native : NativeLife(n) BY DEF IInv
  <2>1. TypeOK
    <3>1. \A h \in Handler : live_ports_[h] \in 0 .. Cardinality(Port)
      <4>1. \A h \in Handler : Counts(h) \in SUBSET Port BY DEF Counts
      <4> QED BY <2>0, <4>1, FinitePorts DEF Owned
    <3>2. live_ports_ \in [Handler -> 0 .. Cardinality(Port)] BY <2>0, <3>1 DEF Types
    <3> QED BY <2>0, <3>2, Zenon DEF Types, TypeOK
  <2>2. ASSUME open, NEW h \in Handler
        PROVE  /\ handlerPorts[h] = PortsOf(h)
               /\ live_ports_[h] =
                    Cardinality(Live(PortsOf(h) \ {n \in PortsOf(h) : mutex_ = n}))
    BY <2>0, <2>2, LiveIsCounts DEF Owned
  <2>3. \A n \in Native : queue_[n] > 0 /\ life[n] # "deleted" => task_running_[n]
    <3>1. SUFFICES ASSUME NEW n \in Native, queue_[n] > 0, life[n] # "deleted"
                   PROVE  task_running_[n]
      OBVIOUS
    <3>2. life[n] \in {"unborn", "created", "alive", "closed", "deleted"}
      BY <2>0 DEF Types, Handler
    <3>3. NativeLife(n) BY <2>0
    <3> QED BY <3>1, <3>2, <3>3 DEF NativeLife
  <2>4. ~open => \A h \in Handler : life[h] \in {"unborn", "deleted"} BY <2>0, Zenon DEF Owned
  <2> QED BY <2>1, <2>2, <2>3, <2>4, Zenon DEF HandlersAgree
<1> QED BY <1>1, PortMapInvariant, PTL

(* No thread uses a message handler after it is deleted: what the port map *)
(* refers to, what a task runs and what ClosePort still works on is alive, *)
(* and of ClosePort and the task only one deletes a native handler.        *)
THEOREM HandlersUsedWhileAlive == Spec => []NoUseAfterDelete
<1> USE HandlerAssumption
<1>1. IInv => NoUseAfterDelete
  <2> SUFFICES ASSUME IInv PROVE NoUseAfterDelete OBVIOUS
  <2>0. Types /\ Owned /\ \A n \in Native : NativeLife(n) BY DEF IInv
  <2>1. ASSUME NEW n \in Native
        PROVE  life[n] \in {"unborn", "created", "alive", "closed", "deleted"} /\ NativeLife(n)
    BY <2>0 DEF Types, Handler
  <2>2. ASSUME NEW p \in Port, Contains(p)
        PROVE  life[ports_[p].handler] \in {"created", "alive"}
    <3>1. CASE p \in IsolatePort BY <2>0, <2>2, <3>1, Zenon DEF Owned
    <3>2. CASE p \in Native
      <4>1. ports_[p].handler = p BY <2>0, <2>2, <3>2, Zenon DEF Owned
      <4> QED BY <2>1, <2>2, <3>2, <4>1, Zenon DEF NativeLife
    <3> QED BY <3>1, <3>2 DEF Port
  <2>3. ASSUME NEW n \in Native
        PROVE  /\ closing[n] # "no" => life[n] \in {"created", "alive"}
               /\ task[n] # "none" => life[n] = "alive"
               /\ closing[n] = "delete" => task[n] = "none"
               /\ task[n] = "delete" => closing[n] = "no"
    <3>1. task[n] \in {"none", "queued", "busy", "delete"} BY <2>0 DEF Types
    <3> QED BY <2>1, <3>1, Zenon DEF NativeLife
  <2> QED BY <2>2, <2>3, Zenon DEF NoUseAfterDelete
<1> QED BY <1>1, PortMapInvariant, PTL
=============================================================================
