--------------------------- MODULE MessageHandler ---------------------------
(***************************************************************************)
(* The message handler of one isolate: runtime/vm/message_handler.cc, the  *)
(* queues of runtime/vm/message.cc, and what IsolateMessageHandler in      *)
(* runtime/vm/isolate.cc does with the messages it is given.               *)
(*                                                                         *)
(* Any thread posts messages.  One thread at a time handles them: a task   *)
(* on the thread pool (TaskCallback), or the embedder's thread when the    *)
(* handler was not given a pool.  Handling a message may run Dart code,    *)
(* which polls for out-of-band messages and may call Dart_WaitForEvent;    *)
(* both handle messages in turn.  `frames' is the stack of those calls.    *)
(*                                                                         *)
(* A section of code that runs under monitor_ is one action.               *)
(***************************************************************************)
EXTENDS Integers, Sequences, FiniteSets

CONSTANTS Posted,        \* the kinds of messages that are posted
          MaxMessages,   \* bound: the messages that are posted
          MaxDepth       \* bound: the calls on the stack

VARIABLES
  queue_,
  oob_queue_,
  frames,
  task,                  \* where the MessageHandlerTask is
  pool_,                 \* pool_ != nullptr
  task_running_,
  paused_for_messages_,
  should_pause_on_start_,
  should_pause_on_exit_,
  is_paused_on_start_,
  is_paused_on_exit_,
  paused,                \* resume capabilities outstanding: paused_ > 0
  has_live_ports,        \* live_ports_ > 0
  closed,                \* the ports are closed, the handler is deleted
  posted,                \* the number of messages posted so far
  events,                \* how many of them were events
  taken,                 \* the number of messages dequeued so far
  lastEvent,             \* the number of the last event dequeued
  failed,                \* HandleMessages has reported an error to the task
  killed                 \* the kill message of the VM has been handled

queues == <<queue_, oob_queue_, taken, lastEvent>>
flags == <<should_pause_on_start_, should_pause_on_exit_>>
pauses == <<is_paused_on_start_, is_paused_on_exit_>>
taskVars == <<task, pool_, task_running_, pauses, failed>>
vars == <<queues, frames, taskVars, paused_for_messages_, flags, paused,
          has_live_ports, closed, posted, events, killed>>

-----------------------------------------------------------------------------
(* Messages.                                                               *)
(*   pause, resume   Isolate.pause and Isolate.resume                      *)
(*   kill, vm_kill   Isolate.kill, and the kill message of Dart_Cleanup    *)
(*   service_resume  the service request to resume a paused isolate        *)
(*   pause_on_exit   the service request that sets should_pause_on_exit_   *)
(*   evaluate        a service request that runs Dart code                 *)
(*   before, late    control messages (ping, kill, drain) to be handled    *)
(*                   before the next event, or as an event                 *)
(*   lib_before, lib_late  the same, when HandleLibMessage has put them    *)
(*                   back into queue_; dest_port() is kIllegalPort         *)
(*   event           a message for a port                                  *)
OOBKind == {"pause", "resume", "kill", "vm_kill", "service_resume",
            "pause_on_exit", "evaluate", "before", "late"}
LibKind == {"lib_before", "lib_late"}
Kind == OOBKind \cup LibKind \cup {"event"}
Message == [kind : Kind, id : 1 .. MaxMessages]  \* events and others are
                                                 \* numbered separately

ASSUME BoundAssumption ==
  /\ MaxMessages \in Nat \ {0} /\ MaxDepth \in Nat \ {0}
  /\ Posted \subseteq OOBKind \cup {"event"}

IsOOB(m) == m.kind \in OOBKind
IsLib(m) == m.kind \in LibKind
RunsDart(m) == m.kind \in LibKind \cup {"event", "evaluate"}

(* The control messages at the head of the queue.                          *)
LeadingLib(q) ==
  CHOOSE n \in 0 .. Len(q) : /\ \A i \in 1 .. n : IsLib(q[i])
                             /\ n < Len(q) => ~IsLib(q[n + 1])

(* Mutant: the message takes the place of the one behind the splice.       *)
EnqueueOver(q, m, before_events) ==
  IF before_events
  THEN LET n == LeadingLib(q)
       IN  SubSeq(q, 1, n) \o <<m>> \o SubSeq(q, n + 2, Len(q))
  ELSE Append(q, m)

(* MessageQueue::Enqueue: with before_events the message goes behind the   *)
(* control messages at the head of the queue.                              *)
Enqueue(q, m, before_events) ==
  IF before_events
  THEN LET n == LeadingLib(q)
       IN  SubSeq(q, 1, n) \o <<m>> \o SubSeq(q, n + 1, Len(q))
  ELSE Append(q, m)

Status == {"ok", "error", "shutdown"}
Worse(s, t) == IF "shutdown" \in {s, t} THEN "shutdown"
               ELSE IF "error" \in {s, t} THEN "error" ELSE "ok"

-----------------------------------------------------------------------------
(* The stack.  A frame of HandleMessages is                                *)
(*   enter    in StartIsolateScope, before it takes monitor_ again         *)
(*   handle   in HandleMessage(msg)                                        *)
(*   handled  back from it with `status', about to take monitor_           *)
(* and returns to `ret': a place in TaskCallback (start, exit, main,       *)
(* exit_again), HandleNextMessage (next), HandleOOBMessages (oob), or      *)
(* PauseAndHandleAllMessages (wait_oob, wait_all).  The latter has a frame *)
(* of its own while it waits (wait): waiting, woken or timed_out.          *)
TaskRet == {"start", "exit", "main", "exit_again"}
Ret == TaskRet \cup {"next", "oob", "wait_oob", "wait_all", "wait"}
Phase == {"enter", "handle", "handled", "waiting", "woken", "timed_out"}
NoMessage == [kind |-> "event", id |-> 1]
Frame == [ret : Ret, phase : Phase, msg : Message, normal : BOOLEAN,
          multiple : BOOLEAN, max : Status, status : Status, sticky : Status]

NewFrame(ret, phase, normal, multiple) ==
  [ret |-> ret, phase |-> phase, msg |-> NoMessage, normal |-> normal,
   multiple |-> multiple, max |-> "ok", status |-> "ok",
   sticky |-> "ok"]

Top == frames[Len(frames)]
Below == SubSeq(frames, 1, Len(frames) - 1)
HasTop(phase) == frames # <<>> /\ Top.phase = phase

(* A call of HandleMessages; it gives up monitor_ first.                   *)
Calling(stack, ret, normal, multiple) ==
  Append(stack, NewFrame(ret, "enter", normal, multiple))

(* A nested call returns to Dart code, which goes on, or is unwound with   *)
(* the sticky error of the thread; that error is then the status of the    *)
(* message the Dart code was handling.  An error listener has cleared it.  *)
Unwind(stack, fr) ==
  [stack EXCEPT ![Len(stack)] =
     IF fr.max = "ok" THEN @
     ELSE [@ EXCEPT !.phase = "handled", !.status = fr.sticky,
                    !.sticky = fr.sticky]]

-----------------------------------------------------------------------------
Init ==
  /\ queue_ = <<>> /\ oob_queue_ = <<>>
  /\ frames = <<>>
  /\ task = "none" /\ pool_ = FALSE /\ task_running_ = FALSE
  /\ paused_for_messages_ = FALSE
  /\ should_pause_on_start_ \in BOOLEAN
  /\ should_pause_on_exit_ \in BOOLEAN
  /\ is_paused_on_start_ = FALSE /\ is_paused_on_exit_ = FALSE
  /\ paused \in BOOLEAN
  /\ has_live_ports = TRUE
  /\ closed = FALSE
  /\ posted = 0 /\ events = 0 /\ taken = 0 /\ lastEvent = 0
  /\ failed = FALSE /\ killed = FALSE

(* Run, called once for an isolate that a pool is to run.                  *)
Run ==
  /\ ~closed /\ ~pool_ /\ task = "none" /\ frames = <<>>
  /\ pool_' = TRUE
  /\ task_running_' = TRUE
  /\ task' = "queued"
  /\ UNCHANGED <<queues, frames, pauses, failed, paused_for_messages_, flags,
                 paused, has_live_ports, closed, posted, events, killed>>

(* Mutants: a task is started although one is running; control messages    *)
(* do not wake up a thread that waits.                                     *)
NeedsTaskAlways == pool_
NotifiesWaiterForEvents == paused_for_messages_ /\ queue_' # <<>>

NeedsTask == pool_ /\ ~task_running_
NotifiesWaiter == paused_for_messages_

(* PostMessage, in a thread that found the port in the port map.           *)
PostMessage(kind) ==
  /\ ~closed
  /\ posted < MaxMessages
  /\ posted' = posted + 1
  /\ IF kind \in OOBKind
     THEN LET m == [kind |-> kind, id |-> posted - events + 1]
          IN  /\ oob_queue_' = Enqueue(oob_queue_, m, FALSE)
              /\ UNCHANGED <<queue_, events>>
     ELSE LET m == [kind |-> kind, id |-> events + 1]
          IN  /\ queue_' = Enqueue(queue_, m, FALSE)
              /\ events' = events + 1
              /\ UNCHANGED oob_queue_
  /\ frames' = IF NotifiesWaiter /\ HasTop("waiting")
               THEN [frames EXCEPT ![Len(frames)].phase = "woken"]
               ELSE frames
  /\ IF NeedsTask
     THEN task_running_' = TRUE /\ task' = "queued"
     ELSE UNCHANGED <<task_running_, task>>
  /\ UNCHANGED <<taken, lastEvent, pool_, pauses, failed,
                 paused_for_messages_, flags, paused, has_live_ports, closed,
                 killed>>

-----------------------------------------------------------------------------
(* TaskCallback.  Each operator describes the rest of a section under      *)
(* monitor_, up to where it is released: in a call of HandleMessages, in   *)
(* NotifyPauseOnStart or NotifyPauseOnExit, or at the end of the task.     *)

ShouldPauseOnStart(status) == status # "shutdown" /\ should_pause_on_start_
ShouldPauseOnExit(status) == status # "shutdown" /\ should_pause_on_exit_

EndTask(onStart, onExit) ==
  /\ task' = "none"
  /\ task_running_' = FALSE
  /\ is_paused_on_start_' = onStart
  /\ is_paused_on_exit_' = onExit
  /\ frames' = <<>>
  /\ UNCHANGED pool_

CallFromTask(ret, normal, onStart, onExit) ==
  /\ frames' = Calling(<<>>, ret, normal, normal)
  /\ task' = "busy"
  /\ is_paused_on_start_' = onStart
  /\ is_paused_on_exit_' = onExit
  /\ UNCHANGED <<pool_, task_running_>>

(* pool_ = nullptr; the task goes on to the end callback.                  *)
Stop(onStart, onExit) ==
  /\ task' = "ending"
  /\ pool_' = FALSE
  /\ task_running_' = FALSE
  /\ is_paused_on_start_' = onStart
  /\ is_paused_on_exit_' = onExit
  /\ frames' = <<>>

PauseOnExit(onStart, onExit) ==
  /\ task' = "pausing_exit"
  /\ is_paused_on_start_' = onStart
  /\ is_paused_on_exit_' = onExit
  /\ frames' = <<>>
  /\ UNCHANGED <<pool_, task_running_>>

ExitOrIdle(status, onStart, onExit) ==
  IF status = "ok" /\ has_live_ports
  THEN EndTask(onStart, onExit)
  ELSE IF ShouldPauseOnExit(status)
       THEN PauseOnExit(onStart, onExit)
       ELSE Stop(onStart, onExit)

HandleOrExit(status, onStart, onExit) ==
  IF status = "ok" THEN CallFromTask("main", TRUE, onStart, onExit)
                   ELSE ExitOrIdle(status, onStart, onExit)

CheckPausedOnExit(status, onStart) ==
  IF is_paused_on_exit_
  THEN CallFromTask("exit", FALSE, onStart, TRUE)
  ELSE HandleOrExit(status, onStart, FALSE)

(* Mutant: is_paused_on_exit_ is not reset.                                *)
ResumedFromExitStillPaused(status) ==
  HandleOrExit(status, is_paused_on_start_, TRUE)

(* PausedOnExitLocked(&ml, false), and on.                                 *)
ResumedFromExit(status) == HandleOrExit(status, is_paused_on_start_, FALSE)

(* HandleMessages has returned to a place in TaskCallback.                 *)
ReturnToTask(ret, status) ==
  /\ failed' = (failed \/ status # "ok")
  /\ \/ /\ ret = "start"
        /\ IF ShouldPauseOnStart(status)
           THEN EndTask(TRUE, is_paused_on_exit_)
           ELSE CheckPausedOnExit(status, FALSE)
     \/ /\ ret = "exit"
        /\ IF ShouldPauseOnExit(status)
           THEN EndTask(is_paused_on_start_, TRUE)
           ELSE ResumedFromExit(status)
     \/ /\ ret = "main"
        /\ ExitOrIdle(status, is_paused_on_start_, is_paused_on_exit_)
     \/ /\ ret = "exit_again"
        /\ IF ShouldPauseOnExit(status)
           THEN EndTask(is_paused_on_start_, TRUE)
           ELSE Stop(is_paused_on_start_, FALSE)

(* The start of TaskCallback.                                              *)
TaskCallback ==
  /\ task = "queued"
  /\ IF ~ShouldPauseOnStart("ok")
     THEN CheckPausedOnExit("ok", is_paused_on_start_)
     ELSE IF is_paused_on_start_
          THEN CallFromTask("start", FALSE, TRUE, is_paused_on_exit_)
          ELSE /\ task' = "pausing_start"
               /\ UNCHANGED <<frames, pool_, task_running_, pauses>>
  /\ UNCHANGED <<queues, failed, paused_for_messages_, flags, paused,
                 has_live_ports, closed, posted, events, killed>>

(* Mutant: messages that came during the notification are not handled.     *)
PausedLockedNoHandle ==
  /\ \/ /\ task = "pausing_start"
        /\ CallFromTask("start", FALSE, TRUE, is_paused_on_exit_)
     \/ /\ task = "pausing_exit"
        /\ EndTask(is_paused_on_start_, TRUE)
  /\ UNCHANGED <<queues, failed, paused_for_messages_, flags, paused,
                 has_live_ports, closed, posted, events, killed>>

(* PausedOnStartLocked and PausedOnExitLocked take monitor_ again after    *)
(* the notification.                                                       *)
PausedLocked ==
  /\ \/ /\ task = "pausing_start"
        /\ CallFromTask("start", FALSE, TRUE, is_paused_on_exit_)
     \/ /\ task = "pausing_exit"
        /\ CallFromTask("exit_again", FALSE, is_paused_on_start_, TRUE)
  /\ UNCHANGED <<queues, failed, paused_for_messages_, flags, paused,
                 has_live_ports, closed, posted, events, killed>>

(* The end callback: ShutdownIsolate closes the ports, which drops what is *)
(* left in the queues, and deletes the handler.                            *)
EndCallback ==
  /\ task = "ending"
  /\ task' = "none"
  /\ closed' = TRUE
  /\ queue_' = <<>> /\ oob_queue_' = <<>>
  /\ UNCHANGED <<taken, lastEvent, frames, pool_, task_running_, pauses,
                 failed, paused_for_messages_, flags, paused, has_live_ports,
                 posted, events, killed>>

-----------------------------------------------------------------------------
(* Mutant: the loop goes on when there is a message, and handles only      *)
(* control messages.                                                       *)
WaitLoopGoesOn(stack, empty) ==
  /\ paused_for_messages_' = paused_for_messages_
  /\ frames' = IF empty
               THEN Append(stack, NewFrame("wait", "waiting", FALSE, FALSE))
               ELSE Calling(stack, "wait_oob", FALSE, FALSE)

(* The loop of PauseAndHandleAllMessages, with monitor_ held: wait for a   *)
(* message, or leave the loop and handle all.                              *)
WaitLoop(stack, empty) ==
  IF empty
  THEN /\ paused_for_messages_' = paused_for_messages_
       /\ frames' = Append(stack, NewFrame("wait", "waiting", FALSE, FALSE))
  ELSE /\ paused_for_messages_' = FALSE
       /\ frames' = Calling(stack, "wait_all", TRUE, TRUE)

(* HandleMessages returns max_status to its caller.  An embedder that      *)
(* gets an error from Dart_HandleMessage shuts the isolate down.           *)
Return(fr) ==
  \/ /\ fr.ret \in TaskRet
     /\ ReturnToTask(fr.ret, fr.max)
     /\ UNCHANGED paused_for_messages_
  \/ /\ fr.ret = "next"
     /\ frames' = <<>>
     /\ task' = IF fr.max = "ok" THEN "none" ELSE "ending"
     /\ UNCHANGED <<pool_, task_running_, pauses, failed,
                    paused_for_messages_>>
  \/ /\ fr.ret \in {"oob", "wait_all"}
     /\ frames' = Unwind(Below, fr)
     /\ UNCHANGED <<taskVars, paused_for_messages_>>
  \/ /\ fr.ret = "wait_oob"
     /\ IF fr.max = "ok"
        THEN WaitLoop(Below, queue_ = <<>>)
        ELSE /\ paused_for_messages_' = FALSE
             /\ frames' = Unwind(Below, fr)
     /\ UNCHANGED taskVars

Take(m, fr) ==
  /\ taken' = taken + 1
  /\ lastEvent' = IF m.kind = "event" THEN m.id ELSE lastEvent
  /\ frames' = Append(Below, [fr EXCEPT !.phase = "handle", !.msg = m])
  /\ UNCHANGED <<taskVars, paused_for_messages_>>

(* DequeueMessage with the priority that HandleMessages computes, or the   *)
(* end of its loop.                                                        *)
AllowNormal(fr) == fr.max = "ok" /\ fr.normal /\ ~paused
DequeueMessage(fr) ==
  \/ /\ oob_queue_ # <<>>
     /\ Take(Head(oob_queue_), fr)
     /\ oob_queue_' = Tail(oob_queue_)
     /\ UNCHANGED queue_
  \/ /\ oob_queue_ = <<>> /\ queue_ # <<>> /\ AllowNormal(fr)
     /\ Take(Head(queue_), fr)
     /\ queue_' = Tail(queue_)
     /\ UNCHANGED oob_queue_
  \/ /\ oob_queue_ = <<>> /\ (queue_ = <<>> \/ ~AllowNormal(fr))
     /\ Return(fr)
     /\ UNCHANGED queues

(* HandleMessages, from where it has entered the isolate.                  *)
HandleMessages ==
  /\ HasTop("enter")
  /\ DequeueMessage(Top)
  /\ UNCHANGED <<flags, paused, has_live_ports, closed, posted, events, killed>>

(* Mutants: an error ends the loop as well, and drops control messages;    *)
(* nothing ends it.                                                        *)
EndsLoopOnError(status) == status # "ok"
EndsLoopNever(status) == FALSE

EndsLoop(status) == status = "shutdown"

(* HandleMessages, after a message has been handled.                       *)
MessageHandled ==
  /\ HasTop("handled")
  /\ LET fr == [Top EXCEPT
                  !.max = Worse(@, Top.status),
                  !.normal = @ /\ (Top.multiple \/ IsOOB(Top.msg))]
     IN IF EndsLoop(Top.status)
        THEN /\ oob_queue_' = <<>>
             /\ Return(fr)
             /\ UNCHANGED <<queue_, taken, lastEvent>>
        ELSE DequeueMessage(fr)
  /\ UNCHANGED <<flags, paused, has_live_ports, closed, posted, events, killed>>

(* The embedder's thread, for a handler that has no pool.                  *)
HandleNextMessage ==
  /\ ~closed /\ ~pool_ /\ task = "none" /\ frames = <<>>
  /\ frames' = <<NewFrame("next", "enter", TRUE, FALSE)>>
  /\ UNCHANGED <<queues, taskVars, paused_for_messages_, flags, paused,
                 has_live_ports, closed, posted, events, killed>>

-----------------------------------------------------------------------------
(* HandleMessage.                                                          *)
Handling(kinds) == HasTop("handle") /\ Top.msg.kind \in kinds

(* HandleMessage returns `status' and leaves `sticky' in the thread.       *)
Finish(status, sticky) ==
  frames' = [frames EXCEPT ![Len(frames)] =
               [Top EXCEPT !.phase = "handled", !.status = status,
                           !.sticky = IF status = "ok" THEN Top.sticky
                                                       ELSE sticky]]

(* HandleLibMessage: pause and resume, with one resume capability.         *)
HandlePause ==
  /\ Handling({"pause", "resume"})
  /\ paused' = (Top.msg.kind = "pause")
  /\ Finish("ok", "ok")
  /\ UNCHANGED <<queues, taskVars, paused_for_messages_, flags,
                 has_live_ports, closed, posted, events, killed>>

(* HandleLibMessage: kill.  The unwind error becomes kError when a Dart    *)
(* program asked for it and kShutdown when the VM did.                     *)
HandleKill ==
  /\ Handling({"kill", "vm_kill"})
  /\ killed' = (killed \/ Top.msg.kind = "vm_kill")
  /\ LET status == IF Top.msg.kind = "kill" THEN "error" ELSE "shutdown"
     IN  Finish(status, status)
  /\ UNCHANGED <<queues, taskVars, paused_for_messages_, flags, paused,
                 has_live_ports, closed, posted, events>>

(* Mutants: the message keeps its tag; it goes to the tail of the queue.   *)
DelayedUnmarked(m) == m
BeforeEventsNever(m) == FALSE

Delayed(m) ==
  [m EXCEPT !.kind = IF @ = "before" THEN "lib_before" ELSE "lib_late"]
BeforeEvents(m) == m.kind = "before"

(* HandleLibMessage: a message that is not for now goes to queue_, with    *)
(* PostMessage.  That notifies nobody: this thread is the one that waits   *)
(* or runs the task.                                                       *)
HandleDelayed ==
  /\ Handling({"before", "late"})
  /\ queue_' = Enqueue(queue_, Delayed(Top.msg), BeforeEvents(Top.msg))
  /\ Finish("ok", "ok")
  /\ UNCHANGED <<oob_queue_, taken, lastEvent, taskVars,
                 paused_for_messages_, flags, paused, has_live_ports, closed,
                 posted, events, killed>>

(* Service::HandleIsolateMessage: Resume and SetIsolatePauseMode.          *)
HandleService ==
  /\ Handling({"service_resume", "pause_on_exit"})
  /\ \/ /\ Top.msg.kind = "service_resume"
        /\ should_pause_on_start_' = FALSE
        /\ should_pause_on_exit_' =
             (/\ should_pause_on_exit_
              /\ \/ is_paused_on_start_ \/ should_pause_on_start_
                 \/ ~is_paused_on_exit_)
     \/ /\ Top.msg.kind = "pause_on_exit"
        /\ should_pause_on_exit_' \in BOOLEAN
        /\ UNCHANGED should_pause_on_start_
  /\ Finish("ok", "ok")
  /\ UNCHANGED <<queues, taskVars, paused_for_messages_, paused,
                 has_live_ports, closed, posted, events, killed>>

(* Dart code returns, having opened and closed ports.  An unhandled        *)
(* exception is an error when errors are fatal; an error listener clears   *)
(* it from the thread.  A service request reports its errors in its reply. *)
DartReturns ==
  /\ HasTop("handle") /\ RunsDart(Top.msg)
  /\ has_live_ports' \in BOOLEAN
  /\ \/ Finish("ok", "ok")
     \/ /\ ~IsOOB(Top.msg)
        /\ \E sticky \in {"ok", "error"} : Finish("error", sticky)
  /\ UNCHANGED <<queues, taskVars, paused_for_messages_, flags, paused, closed,
                 posted, events, killed>>

(* Dart code polls for interrupts: HandleInterrupts, HandleOOBMessages.    *)
HandleOOBMessages ==
  /\ HasTop("handle") /\ RunsDart(Top.msg)
  /\ oob_queue_ # <<>>
  /\ Len(frames) < MaxDepth
  /\ frames' = Calling(frames, "oob", FALSE, FALSE)
  /\ UNCHANGED <<queues, taskVars, paused_for_messages_, flags, paused,
                 has_live_ports, closed, posted, events, killed>>

(* Dart code calls Dart_WaitForEvent.  The bound leaves room to handle the *)
(* messages that come during the wait, and an interrupt above them.        *)
PauseAndHandleAllMessages ==
  /\ HasTop("handle") /\ RunsDart(Top.msg)
  /\ task_running_
  /\ Len(frames) + 1 < MaxDepth
  /\ LET empty == queue_ = <<>> /\ oob_queue_ = <<>> IN
     /\ paused_for_messages_' = empty
     /\ frames' = IF empty
                  THEN Append(frames, NewFrame("wait", "waiting", FALSE, FALSE))
                  ELSE Calling(frames, "wait_all", TRUE, TRUE)
  /\ UNCHANGED <<queues, taskVars, flags, paused, has_live_ports, closed,
                 posted, events, killed>>

(* The wait times out, or ends with no reason.                             *)
WaitEnds ==
  /\ HasTop("waiting")
  /\ \E p \in {"timed_out", "woken"} :
       frames' = [frames EXCEPT ![Len(frames)].phase = p]
  /\ UNCHANGED <<queues, taskVars, paused_for_messages_, flags, paused,
                 has_live_ports, closed, posted, events, killed>>

WaitReturns ==
  /\ HasTop("woken") \/ HasTop("timed_out")
  /\ IF Top.phase = "woken" /\ queue_ = <<>>
     THEN /\ frames' = Calling(Below, "wait_oob", FALSE, FALSE)
          /\ UNCHANGED paused_for_messages_
     ELSE WaitLoop(Below, FALSE)
  /\ UNCHANGED <<queues, taskVars, flags, paused, has_live_ports, closed,
                 posted, events, killed>>

-----------------------------------------------------------------------------
(* The steps of the thread that handles messages, without those that Dart  *)
(* code takes.                                                             *)
TaskStep ==
  \/ TaskCallback \/ PausedLocked \/ EndCallback
  \/ HandleMessages \/ MessageHandled
  \/ HandlePause \/ HandleKill \/ HandleDelayed \/ HandleService
  \/ WaitReturns

Next ==
  \/ Run
  \/ \E kind \in Posted : PostMessage(kind)
  \/ HandleNextMessage
  \/ TaskStep
  \/ DartReturns \/ HandleOOBMessages \/ PauseAndHandleAllMessages
  \/ WaitEnds

Spec == Init /\ [][Next]_vars

(* The pool runs its tasks and the thread is scheduled; Dart code polls    *)
(* for interrupts (every function entry and loop does) but may never       *)
(* return.  The end of a wait is assumed only when it is notified.         *)
FairSpec == Spec /\ WF_vars(TaskStep) /\ WF_vars(HandleOOBMessages)

-----------------------------------------------------------------------------
(* Every variable has its type: only control messages are in oob_queue_,   *)
(* and a control message that comes into queue_ is marked as a delayed one.*)
TypeOK ==
  /\ \A i \in DOMAIN queue_ : queue_[i] \in Message /\ ~IsOOB(queue_[i])
  /\ \A i \in DOMAIN oob_queue_ : oob_queue_[i] \in Message
                                   /\ IsOOB(oob_queue_[i])
  /\ Len(frames) <= MaxDepth /\ \A i \in DOMAIN frames : frames[i] \in Frame
  /\ task \in {"none", "queued", "pausing_start", "pausing_exit", "busy",
               "ending"}
  /\ \A b \in {pool_, task_running_, paused_for_messages_,
              should_pause_on_start_, should_pause_on_exit_,
              is_paused_on_start_, is_paused_on_exit_, paused,
              has_live_ports, closed, failed, killed} : b \in BOOLEAN
  /\ posted \in 0 .. MaxMessages /\ events \in 0 .. posted
  /\ lastEvent \in 0 .. events
  /\ taken \in 0 .. 2 * posted

(* task_running_ is true exactly when there is a task for the handler, and *)
(* then nobody else handles its messages: "no other message handler tasks  *)
(* will be started until this one sets [task_running_] to false".          *)
OneTask ==
  /\ task_running_ <=> task \in {"queued", "pausing_start", "pausing_exit",
                                "busy"}
  /\ task_running_ => pool_
  /\ frames # <<>> => (task = "busy" <=> frames[1].ret \in TaskRet)
  /\ frames # <<>> /\ task # "busy" => task = "none" /\ ~pool_
  /\ frames = <<>> => task # "busy"

(* Nobody who should handle a message lets it lie.  When the task has gone *)
(* no control message is left, and events only while the isolate is paused *)
(* (TaskCallback: "Whenever we reacquire the monitor we *must* process all *)
(* pending OOB messages, or we may miss a request for vm shutdown.").  It  *)
(* stays paused because nobody has resumed it.  A thread that waits in     *)
(* PauseAndHandleAllMessages has nothing to handle: every message posted   *)
(* in the meantime wakes it up.                                            *)
NoMissedMessage ==
  /\ OneTask
  /\ pool_ /\ ~task_running_ =>
       /\ oob_queue_ = <<>>
       /\ queue_ # <<>> => paused \/ is_paused_on_start_ \/ is_paused_on_exit_
  /\ ~(is_paused_on_start_ /\ is_paused_on_exit_)
  /\ task = "none" /\ ~closed =>
       /\ is_paused_on_start_ => should_pause_on_start_
       /\ is_paused_on_exit_ => should_pause_on_exit_
  /\ HasTop("waiting") => queue_ = <<>> /\ oob_queue_ = <<>>

(* Every event that was posted is handled once and in the order of posting *)
(* until the ports are closed: those in queue_ are the ones that follow    *)
(* the last event dequeued, whatever control messages were put among them. *)
(* A control message to be handled before the next event is never behind   *)
(* an event in queue_, nor behind a later message of its own kind.         *)
MessagesInOrder ==
  /\ TypeOK
  /\ ~closed =>
       LET pending == {i \in DOMAIN queue_ : queue_[i].kind = "event"}
       IN  /\ {queue_[i].id : i \in pending} = (lastEvent + 1) .. events
           /\ \A i, j \in pending : i < j => queue_[i].id < queue_[j].id
  /\ \A j \in DOMAIN queue_ : queue_[j].kind = "lib_before" =>
       \A i \in 1 .. (j - 1) :
         /\ queue_[i].kind # "event"
         /\ queue_[i].kind = "lib_before" => queue_[i].id < queue_[j].id

(* Once the kill message of the VM has been handled, in whatever nested    *)
(* call, no further message is.                                            *)
ShutdownIsFinal == [][killed => taken' = taken]_vars

(* An isolate that runs on a pool and is sent the kill message of the VM   *)
(* shuts down, also when it is paused, waits for events or runs Dart code  *)
(* that never returns.                                                     *)
VmKillEnds ==
  (pool_ /\ \E i \in DOMAIN oob_queue_ : oob_queue_[i].kind = "vm_kill")
    ~> closed

(* If the Dart code that handles a message always returns, the messages in *)
(* queue_ are handled unless the isolate is paused or stops.               *)
EventsHandled ==
  WF_vars(DartReturns) =>
    ((pool_ /\ queue_ # <<>>) ~>
       (queue_ = <<>> \/ ~pool_ \/ paused \/ is_paused_on_start_
          \/ is_paused_on_exit_))

(* "The isolate exits when it encounters an error": once HandleMessages    *)
(* has reported an error to the task, no event is handled any more.        *)
ErrorIsFinal == [][failed => lastEvent' = lastEvent]_vars
=============================================================================
