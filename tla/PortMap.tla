------------------------------ MODULE PortMap ------------------------------
(***************************************************************************)
(* The port map (runtime/vm/port.cc) and the life of the message handlers  *)
(* that it refers to.  An isolate owns its handler: it opens, closes and   *)
(* (de)activates ports on its own thread and deletes the handler when it   *)
(* shuts down.  The handler of a native port (native_message_handler.cc,   *)
(* native_api_impl.cc) is owned by the port map: it runs on the thread     *)
(* pool, any thread may close its port, and whoever finds it without live  *)
(* ports and without a task deletes it.                                    *)
(*                                                                         *)
(* Two locks: PortMap::mutex_ for the map, and the monitor_ of each        *)
(* handler.  A section under mutex_ is one action, but for the one of      *)
(* ClosePort, which a task can observe half done.                          *)
(***************************************************************************)
EXTENDS Integers, FiniteSets

CONSTANTS Isolate,       \* handlers of isolates
          Native,        \* handlers of native ports
          IsolatePort,   \* the port ids that isolates may get
          MaxQueue,      \* bound: messages in the queue of a handler
          None

ASSUME HandlerAssumption ==
  /\ IsFiniteSet(Isolate) /\ IsFiniteSet(Native) /\ IsFiniteSet(IsolatePort)
  /\ Isolate \cap Native = {} /\ IsolatePort \cap Native = {}
  /\ MaxQueue \in Nat /\ None \notin Isolate \cup Native \cup IsolatePort

Handler == Isolate \cup Native
Port == IsolatePort \cup Native   \* a native handler has one port, named as it

VARIABLES
  open,          \* ports_ != nullptr: Cleanup has not been called
  mutex_,        \* the native handler whose ClosePort holds it, or None
  ports_,        \* [Port -> entry or NoEntry]
  handlerPorts,  \* MessageHandler::ports_
  live_ports_,
  life,          \* of a handler: unborn, created, alive, closed, deleted
  queue_,        \* the number of messages for a native handler
  pool_, task_running_, delete_me_,
  task,          \* of a native handler
  closing        \* the ClosePort call for a native handler

map == <<open, ports_, handlerPorts>>
run == <<queue_, pool_, task_running_, delete_me_, task>>
vars == <<map, mutex_, live_ports_, life, run, closing>>

State == {"new", "live", "control", "inactive"}
NoEntry == [handler |-> None, state |-> "new"]
Contains(p) == ports_[p].handler # None
PortsOf(h) == {p \in Port : ports_[p].handler = h}

Init ==
  /\ open = TRUE /\ mutex_ = None
  /\ ports_ = [p \in Port |-> NoEntry]
  /\ handlerPorts = [h \in Handler |-> {}]
  /\ live_ports_ = [h \in Handler |-> 0]
  /\ life = [h \in Handler |-> IF h \in Isolate THEN "alive" ELSE "unborn"]
  /\ queue_ = [n \in Native |-> 0]
  /\ pool_ = [n \in Native |-> FALSE]
  /\ task_running_ = [n \in Native |-> FALSE]
  /\ delete_me_ = [n \in Native |-> FALSE]
  /\ task = [n \in Native |-> "none"]
  /\ closing = [n \in Native |-> "no"]

(* A caller can take mutex_ and finds the map.                             *)
Locked == open /\ mutex_ = None

-----------------------------------------------------------------------------
(* CreatePort and SetPortState, in the way their callers combine them: a   *)
(* port gets its state with its ReceivePort, and later an isolate makes a  *)
(* live port inactive (a timer port without timers) and live again.        *)
Opened(h, p, state) ==
  /\ ports_' = [ports_ EXCEPT ![p] = [handler |-> h, state |-> state]]
  /\ handlerPorts' = [handlerPorts EXCEPT ![h] = @ \cup {p}]
  /\ UNCHANGED open

CreatePort(i, p) ==
  /\ Locked /\ life[i] = "alive" /\ ~Contains(p)
  /\ Opened(i, p, "new")
  /\ UNCHANGED <<mutex_, live_ports_, life, run, closing>>

SetPortState(p, state) ==
  /\ Locked /\ Contains(p)
  /\ LET e == ports_[p] IN
     /\ \/ e.state = "new" /\ state \in {"live", "control"}
        \/ e.state = "live" /\ state = "inactive"
        \/ e.state = "inactive" /\ state = "live"
     /\ ports_' = [ports_ EXCEPT ![p].state = state]
     /\ live_ports_' =
          [live_ports_ EXCEPT ![e.handler] =
             IF state = "live" THEN @ + 1
             ELSE IF state = "inactive" /\ e.state = "live" THEN @ - 1
             ELSE @]
  /\ UNCHANGED <<open, handlerPorts, mutex_, life, run, closing>>

Removed(h, P) ==
  /\ ports_' = [p \in Port |-> IF p \in P THEN NoEntry ELSE ports_[p]]
  /\ handlerPorts' = [handlerPorts EXCEPT ![h] = @ \ P]
  /\ UNCHANGED open

Live(P) == {p \in P : ports_[p].state = "live"}

(* Mutants: ports of any state count; ClosePorts decrements once.          *)
DecrementedAny(h, P) == [live_ports_ EXCEPT ![h] = @ - Cardinality(P)]
DecrementedOnce(h, P) ==
  [live_ports_ EXCEPT ![h] = @ - IF Live(P) = {} THEN 0 ELSE 1]

Decremented(h, P) == [live_ports_ EXCEPT ![h] = @ - Cardinality(Live(P))]

(* ClosePort, by the isolate that owns the port.                           *)
ClosePort(p) ==
  /\ Locked /\ p \in IsolatePort /\ Contains(p)
  /\ LET i == ports_[p].handler IN
     /\ live_ports_' = Decremented(i, {p})
     /\ Removed(i, {p})
  /\ UNCHANGED <<mutex_, life, run, closing>>

(* Isolate::LowLevelShutdown: ClosePorts, then the handler is deleted.     *)
ClosePorts(i) ==
  /\ Locked /\ life[i] = "alive"
  /\ LET P == handlerPorts[i] IN
     /\ live_ports_' = Decremented(i, P)
     /\ Removed(i, P)
  /\ life' = [life EXCEPT ![i] = "closed"]
  /\ UNCHANGED <<mutex_, run, closing>>

DeleteHandler(i) ==
  /\ life[i] = "closed"
  /\ life' = [life EXCEPT ![i] = "deleted"]
  /\ UNCHANGED <<map, mutex_, live_ports_, run, closing>>

-----------------------------------------------------------------------------
(* Dart_NewNativePort: CreatePort, SetPortState, Run.  When Run fails the  *)
(* port is closed again; until it succeeds, nobody else has the port id.   *)
NewNativePort(n) ==
  /\ Locked /\ life[n] = "unborn"
  /\ Opened(n, n, "live")
  /\ live_ports_' = [live_ports_ EXCEPT ![n] = @ + 1]
  /\ life' = [life EXCEPT ![n] = "created"]
  /\ UNCHANGED <<mutex_, run, closing>>

Run(n) ==
  /\ life[n] = "created" /\ closing[n] = "no" /\ Contains(n)
  /\ \/ /\ life' = [life EXCEPT ![n] = "alive"]
        /\ pool_' = [pool_ EXCEPT ![n] = TRUE]
        /\ task_running_' = [task_running_ EXCEPT ![n] = TRUE]
        /\ task' = [task EXCEPT ![n] = "queued"]
        /\ UNCHANGED closing
     \/ /\ closing' = [closing EXCEPT ![n] = "begin"]
        /\ UNCHANGED <<life, pool_, task_running_, task>>
  /\ UNCHANGED <<map, mutex_, live_ports_, queue_, delete_me_>>

(* Mutant: queue_ is looked at as it was before the message.               *)
NeedsTaskIfQueued(n) == pool_[n] /\ ~task_running_[n] /\ queue_[n] > 0

NeedsTask(n) == pool_[n] /\ ~task_running_[n]

(* PostMessage to a native port: the handler is found and given the        *)
(* message with mutex_ held.                                               *)
PostMessage(n) ==
  /\ Locked /\ Contains(n) /\ life[n] = "alive"
  /\ queue_[n] < MaxQueue
  /\ queue_' = [queue_ EXCEPT ![n] = @ + 1]
  /\ IF NeedsTask(n)
     THEN /\ task_running_' = [task_running_ EXCEPT ![n] = TRUE]
          /\ task' = [task EXCEPT ![n] = "queued"]
     ELSE UNCHANGED <<task_running_, task>>
  /\ UNCHANGED <<map, mutex_, live_ports_, life, pool_, delete_me_, closing>>

-----------------------------------------------------------------------------
(* Mutant: the task waits for more messages after the last port is closed. *)
HandleOrExitNoExit(n) ==
  IF queue_[n] > 0
  THEN /\ queue_' = [queue_ EXCEPT ![n] = @ - 1]
       /\ task' = [task EXCEPT ![n] = "busy"]
       /\ UNCHANGED <<pool_, task_running_>>
  ELSE /\ live_ports_[n] > 0
       /\ task_running_' = [task_running_ EXCEPT ![n] = FALSE]
       /\ task' = [task EXCEPT ![n] = "none"]
       /\ UNCHANGED <<queue_, pool_>>

(* TaskCallback of a native handler: no pauses, no end callback, no        *)
(* errors.                                                                 *)
(* HandleMessages with monitor_ held: another message, or the end.         *)
HandleOrExit(n) ==
  IF queue_[n] > 0
  THEN /\ queue_' = [queue_ EXCEPT ![n] = @ - 1]
       /\ task' = [task EXCEPT ![n] = "busy"]
       /\ UNCHANGED <<pool_, task_running_>>
  ELSE /\ task_running_' = [task_running_ EXCEPT ![n] = FALSE]
       /\ IF live_ports_[n] > 0
          THEN /\ task' = [task EXCEPT ![n] = "none"]
               /\ UNCHANGED pool_
          ELSE /\ task' = [task EXCEPT ![n] = IF delete_me_[n] THEN "delete"
                                                              ELSE "none"]
               /\ pool_' = [pool_ EXCEPT ![n] = FALSE]
       /\ UNCHANGED queue_

TaskCallback(n) ==
  /\ task[n] \in {"queued", "busy"}
  /\ HandleOrExit(n)
  /\ UNCHANGED <<map, mutex_, live_ports_, life, delete_me_, closing>>

DeleteMe(n) ==
  /\ task[n] = "delete"
  /\ task' = [task EXCEPT ![n] = "none"]
  /\ life' = [life EXCEPT ![n] = "deleted"]
  /\ UNCHANGED <<map, mutex_, live_ports_, queue_, pool_, task_running_,
                 delete_me_, closing>>

-----------------------------------------------------------------------------
(* ClosePort for a native port, in any thread, also in the handler's own   *)
(* task.                                                                   *)
CloseNativePort(n) ==
  /\ closing[n] = "no" /\ life[n] = "alive" /\ Contains(n)
  /\ closing' = [closing EXCEPT ![n] = "begin"]
  /\ UNCHANGED <<map, mutex_, live_ports_, life, run>>

(* With mutex_ held: decrement_live_ports, under monitor_ ...              *)
ClosePortDecrement(n) ==
  /\ closing[n] = "begin" /\ Locked
  /\ mutex_' = n
  /\ live_ports_' = Decremented(n, {n})
  /\ closing' = [closing EXCEPT ![n] = "decremented"]
  /\ UNCHANGED <<map, life, run>>

(* ... then the entries are deleted.                                       *)
ClosePortRemove(n) ==
  /\ closing[n] = "decremented"
  /\ mutex_' = None
  /\ Removed(n, {n})
  /\ closing' = [closing EXCEPT ![n] = "removed"]
  /\ UNCHANGED <<live_ports_, life, run>>

(* Mutants: the handler is deleted although it has a task; deletion is     *)
(* always left to the task.                                                *)
CanDeleteAlways(n) == TRUE
CanDeleteNever(n) == FALSE

CanDelete(n) == ~task_running_[n]

(* handler->ClosePort, HasLivePorts, RequestDeletion.                      *)
RequestDeletion(n) ==
  /\ closing[n] = "removed"
  /\ IF live_ports_[n] = 0 /\ CanDelete(n)
     THEN closing' = [closing EXCEPT ![n] = "delete"] /\ UNCHANGED delete_me_
     ELSE /\ closing' = [closing EXCEPT ![n] = "no"]
          /\ delete_me_' = [delete_me_ EXCEPT ![n] = @ \/ live_ports_[n] = 0]
  /\ UNCHANGED <<map, mutex_, live_ports_, life, queue_, pool_, task_running_,
                 task>>

DeleteThis(n) ==
  /\ closing[n] = "delete"
  /\ closing' = [closing EXCEPT ![n] = "no"]
  /\ life' = [life EXCEPT ![n] = "deleted"]
  /\ UNCHANGED <<map, mutex_, live_ports_, run>>

(* Cleanup, from Dart_Cleanup: the isolates are gone, the thread pool has  *)
(* run its tasks, and no thread is in the API any more.                    *)
Cleanup ==
  /\ Locked
  /\ \A i \in Isolate : life[i] = "deleted"
  /\ \A n \in Native : task[n] = "none" /\ closing[n] = "no"
                       /\ life[n] # "created"
  /\ open' = FALSE
  /\ LET H == {ports_[p].handler : p \in {q \in Port : Contains(q)}} IN
     /\ life' = [h \in Handler |-> IF h \in H THEN "deleted" ELSE life[h]]
     /\ live_ports_' = [h \in Handler |->
                          live_ports_[h] - Cardinality(Live(PortsOf(h)))]
  /\ ports_' = [p \in Port |-> NoEntry]
  /\ UNCHANGED <<handlerPorts, mutex_, run, closing>>

(* The steps of the task of a native handler, and of the thread that       *)
(* creates it or closes its port.                                          *)
TaskStep(n) == TaskCallback(n) \/ DeleteMe(n)
CallerStep(n) ==
  \/ Run(n) \/ ClosePortDecrement(n) \/ ClosePortRemove(n)
  \/ RequestDeletion(n) \/ DeleteThis(n)

Next ==
  \/ \E i \in Isolate : ClosePorts(i) \/ DeleteHandler(i)
  \/ \E i \in Isolate, p \in IsolatePort : CreatePort(i, p)
  \/ \E p \in IsolatePort : ClosePort(p)
  \/ \E p \in IsolatePort, state \in State : SetPortState(p, state)
  \/ \E n \in Native : NewNativePort(n) \/ PostMessage(n)
                       \/ CloseNativePort(n) \/ TaskStep(n) \/ CallerStep(n)
  \/ Cleanup

Spec == Init /\ [][Next]_vars

(* The thread pool runs the task, native callbacks return, and a thread    *)
(* that is in ClosePort is scheduled.                                      *)
FairSpec ==
  Spec /\ \A n \in Native : WF_vars(TaskStep(n)) /\ WF_vars(CallerStep(n))

-----------------------------------------------------------------------------
(* Types; in particular no handler has fewer than zero live ports.         *)
TypeOK ==
  /\ open \in BOOLEAN /\ mutex_ \in Native \cup {None}
  /\ ports_ \in [Port -> [handler : Handler \cup {None}, state : State]]
  /\ handlerPorts \in [Handler -> SUBSET Port]
  /\ live_ports_ \in [Handler -> 0 .. Cardinality(Port)]
  /\ life \in [Handler -> {"unborn", "created", "alive", "closed", "deleted"}]
  /\ queue_ \in [Native -> 0 .. MaxQueue]
  /\ pool_ \in [Native -> BOOLEAN] /\ task_running_ \in [Native -> BOOLEAN]
  /\ delete_me_ \in [Native -> BOOLEAN]
  /\ task \in [Native -> {"none", "queued", "busy", "delete"}]
  /\ closing \in [Native -> {"no", "begin", "decremented", "removed", "delete"}]

(* No thread uses a handler that is deleted: not one that finds it in the  *)
(* port map, not its task, and not a thread in ClosePort, which goes on    *)
(* using it when it has released mutex_; and at most one of them will      *)
(* delete it ("The handler may have been deleted by another thread here if *)
(* it is a native message handler").                                       *)
NoUseAfterDelete ==
  /\ \A p \in Port : Contains(p) => life[ports_[p].handler]
                                      \in {"created", "alive"}
  /\ \A n \in Native :
       /\ closing[n] # "no" => life[n] \in {"created", "alive"}
       /\ task[n] # "none" => life[n] = "alive"
       /\ closing[n] = "delete" => task[n] = "none"
       /\ task[n] = "delete" => closing[n] = "no"

(* What a handler knows of itself agrees with the port map: its ports, the *)
(* number of the live ones, but for a port that ClosePort is about to      *)
(* remove, and that it has a task when a message waits.  When the map is   *)
(* closed no handler is left that has lost its port.                       *)
HandlersAgree ==
  /\ TypeOK
  /\ open => \A h \in Handler :
       /\ handlerPorts[h] = PortsOf(h)
       /\ LET leaving == {n \in PortsOf(h) : mutex_ = n}
          IN  live_ports_[h] = Cardinality(Live(PortsOf(h) \ leaving))
  /\ \A n \in Native : queue_[n] > 0 /\ life[n] # "deleted" => task_running_[n]
  /\ ~open => \A h \in Handler : life[h] \in {"unborn", "deleted"}

(* A native handler whose port is closed is eventually deleted, by the     *)
(* thread that closes the port or by its own task.                         *)
ClosedIsDeleted ==
  \A n \in Native : closing[n] = "begin" ~> life[n] = "deleted"
=============================================================================
