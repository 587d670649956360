------------------------ MODULE MessageHandlerProofs ------------------------
(***************************************************************************)
(* Proofs about the message handler: no message is missed or handled out   *)
(* of order, and nothing is handled after the kill message of the VM, for  *)
(* every number of messages and every depth of nested calls.               *)
(***************************************************************************)
EXTENDS MessageHandler, TLAPS

(* The calls on the stack: one call of the task or the embedder at the     *)
(* bottom, and above it what Dart code in the call below has called.       *)
FrameOK(fr) ==
  /\ fr.phase \in {"waiting", "woken", "timed_out"} <=> fr.ret = "wait"
  /\ fr.ret = "main" => fr.normal /\ fr.multiple
  /\ fr.ret \in {"wait_oob", "wait"} =>
       ~fr.normal /\ (fr.phase = "handle" => IsOOB(fr.msg))

StackOK(f) ==
  /\ f \in Seq(Frame) /\ Len(f) <= MaxDepth
  /\ \A i \in 1 .. Len(f) :
       FrameOK(f[i]) /\ (f[i].ret \in TaskRet \cup {"next"} <=> i = 1)
  /\ \A i \in 1 .. Len(f) - 1 : f[i].phase = "handle" /\ RunsDart(f[i].msg)

(* From every place of a queue a walk past the library messages ends: at a  *)
(* message of another kind, or behind the last one.                        *)
Walk(q, j, k) ==
  /\ \A i \in j .. k - 1 : IsLib(q[i])
  /\ k <= Len(q) => ~IsLib(q[k])

WalksEnd(q) == \A j \in 1 .. Len(q) + 1 : \E k \in j .. Len(q) + 1 : Walk(q, j, k)

Root == IF frames = <<>> THEN "none" ELSE frames[1].ret

Types ==
  /\ queue_ \in Seq(Message) /\ oob_queue_ \in Seq(Message)
  /\ \A i \in 1 .. Len(queue_) : ~IsOOB(queue_[i])
  /\ WalksEnd(queue_)
  /\ \A i \in 1 .. Len(oob_queue_) : IsOOB(oob_queue_[i])
  /\ task \in {"none", "queued", "pausing_start", "pausing_exit", "busy",
               "ending"}
  /\ pool_ \in BOOLEAN /\ task_running_ \in BOOLEAN
  /\ paused_for_messages_ \in BOOLEAN
  /\ should_pause_on_start_ \in BOOLEAN /\ should_pause_on_exit_ \in BOOLEAN
  /\ is_paused_on_start_ \in BOOLEAN /\ is_paused_on_exit_ \in BOOLEAN
  /\ paused \in BOOLEAN /\ has_live_ports \in BOOLEAN /\ closed \in BOOLEAN
  /\ failed \in BOOLEAN /\ killed \in BOOLEAN
  /\ posted \in 0 .. MaxMessages /\ events \in 0 .. posted
  /\ lastEvent \in Nat /\ taken \in Nat

(* Where the task is, what it is paused on, and why.                       *)
Placed ==
  /\ task_running_ <=> task \in {"queued", "pausing_start", "pausing_exit",
                                "busy"}
  /\ task_running_ => pool_
  /\ task = "ending" => ~pool_
  /\ task = "busy" <=> Root \in TaskRet
  /\ Root = "next" => task = "none" /\ ~pool_ /\ ~closed
  /\ closed => /\ frames = <<>> /\ task = "none" /\ ~pool_
               /\ queue_ = <<>> /\ oob_queue_ = <<>>

Paused ==
  /\ ~pool_ /\ task = "none" /\ ~closed =>
       ~is_paused_on_start_ /\ ~is_paused_on_exit_
  /\ is_paused_on_exit_ => ~should_pause_on_start_ /\ ~is_paused_on_start_
  /\ task \in {"none", "queued"} /\ ~closed =>
       /\ is_paused_on_start_ => should_pause_on_start_
       /\ is_paused_on_exit_ => should_pause_on_exit_
  /\ task = "pausing_start" => ~is_paused_on_start_ /\ ~is_paused_on_exit_
  /\ task = "pausing_exit" =>
       ~is_paused_on_start_ /\ ~is_paused_on_exit_ /\ ~should_pause_on_start_
  /\ Root = "start" => is_paused_on_start_
  /\ Root \in {"exit", "exit_again"} => is_paused_on_exit_
  /\ Root = "main" =>
       ~is_paused_on_start_ /\ ~is_paused_on_exit_ /\ ~should_pause_on_start_

(* A handler whose task has ended has nothing to do.                       *)
Served ==
  pool_ /\ ~task_running_ =>
    /\ oob_queue_ = <<>>
    /\ queue_ # <<>> => paused \/ is_paused_on_start_ \/ is_paused_on_exit_

(* The kill message unwinds the stack.                                     *)
Unwinding(fr) ==
  fr.phase = "handled" /\ fr.status = "shutdown" /\ fr.sticky = "shutdown"

Dying ==
  killed => \/ frames = <<>> /\ (task = "ending" \/ closed)
            \/ frames # <<>> /\ Unwinding(Top)

IInv == StackOK(frames) /\ Types /\ Placed /\ Paused /\ Served /\ Dying

-----------------------------------------------------------------------------
(* The messages of queue_: the events that are left, in their order, and   *)
(* the control messages that were delayed.                                 *)
Before(q, i) == q[i].kind = "lib_before"
Events(q) == {i \in 1 .. Len(q) : q[i].kind = "event"}

EventsOK(q, first, last) ==
  /\ {q[i].id : i \in Events(q)} = first .. last
  /\ \A i, j \in Events(q) : i < j => q[i].id < q[j].id

LibOK(q) ==
  \A j \in 1 .. Len(q), i \in 1 .. Len(q) :
    Before(q, j) /\ i < j => /\ q[i].kind # "event"
                             /\ Before(q, i) => q[i].id < q[j].id

(* The control messages that are to come, behind those that have come.     *)
OOBOK(q) == \A i, j \in 1 .. Len(q) : i < j => q[i].id < q[j].id
Delaying == HasTop("handle") /\ Top.msg.kind \in {"before", "late"}
Later(n) == \A i \in 1 .. Len(oob_queue_) : n < oob_queue_[i].id

Ordered ==
  /\ lastEvent <= events /\ (~closed => EventsOK(queue_, lastEvent + 1, events))
  /\ LibOK(queue_) /\ OOBOK(oob_queue_)
  /\ \A i \in 1 .. Len(oob_queue_) : oob_queue_[i].id <= posted - events
  /\ \A j \in 1 .. Len(queue_) : Before(queue_, j) =>
       /\ queue_[j].id <= posted - events
       /\ Later(queue_[j].id)
       /\ Delaying => queue_[j].id < Top.msg.id
  /\ Delaying => Later(Top.msg.id) /\ Top.msg.id <= posted - events
  /\ taken + Len(queue_) + 2 * Len(oob_queue_) + (IF Delaying THEN 1 ELSE 0)
       <= 2 * posted

(* A thread that waits can be woken up, when waits are not nested.         *)
NoEvaluate ==
  /\ \A i \in 1 .. Len(oob_queue_) : oob_queue_[i].kind # "evaluate"
  /\ \A i \in 1 .. Len(frames) :
       frames[i].phase = "handle" => frames[i].msg.kind # "evaluate"

Waits ==
  /\ NoEvaluate
  /\ frames # <<>> /\ Top.ret \in {"wait", "wait_oob"} => paused_for_messages_
  /\ HasTop("waiting") => queue_ = <<>> /\ oob_queue_ = <<>>

-----------------------------------------------------------------------------
(* Operations on the stack.                                                *)

Bottom == TaskRet \cup {"next"}

\* What is below the top of a stack has a top itself.
LEMMA TopOfRest ==
    \A n, m \in Nat : n = m - 1 /\ n # 0 => n \in 1 .. m - 1 /\ n \in 1 .. m
  OBVIOUS

\* More than one frame: the first is below the top.
LEMMA BottomOfRest == \A n \in Nat : n # 0 /\ n # 1 => 1 \in 1 .. n - 1
  OBVIOUS

\* What is at each place of two queues put together.
LEMMA Joined ==
    ASSUME NEW S, NEW c \in Seq(S), NEW d \in Seq(S)
    PROVE  /\ c \o d \in Seq(S) /\ Len(c \o d) = Len(c) + Len(d)
           /\ \A i \in 1 .. Len(c) + Len(d) :
                (c \o d)[i] = IF i <= Len(c) THEN c[i] ELSE d[i - Len(c)]
  OBVIOUS

LEMMA NewFrameFields ==
    ASSUME NEW ret \in Ret, NEW phase \in Phase, NEW normal \in BOOLEAN,
           NEW multiple \in BOOLEAN
    PROVE  /\ NewFrame(ret, phase, normal, multiple) \in Frame
           /\ NewFrame(ret, phase, normal, multiple).ret = ret
           /\ NewFrame(ret, phase, normal, multiple).phase = phase
           /\ NewFrame(ret, phase, normal, multiple).normal = normal
           /\ NewFrame(ret, phase, normal, multiple).multiple = multiple
           /\ NewFrame(ret, phase, normal, multiple).max = "ok"
           /\ NewFrame(ret, phase, normal, multiple).msg = NoMessage
<1>1. NoMessage \in Message BY BoundAssumption DEF NoMessage, Message, Kind
<1> QED BY <1>1, Zenon DEF NewFrame, Frame, Status

\* The frame on top is replaced by x.
LEMMA TopReplaced ==
    ASSUME NEW f, StackOK(f), f # <<>>, NEW x \in Frame, FrameOK(x),
           x.ret \in Bottom <=> Len(f) = 1,
           NEW g \in Seq(Frame), Len(g) = Len(f), g[Len(f)] = x,
           \A i \in 1 .. Len(f) - 1 : g[i] = f[i]
    PROVE  StackOK(g)
<1>1. Len(f) \in Nat /\ Len(f) # 0 /\ f \in Seq(Frame) BY DEF StackOK
<1>2. ASSUME NEW i \in 1 .. Len(g)
      PROVE  FrameOK(g[i]) /\ (g[i].ret \in Bottom <=> i = 1)
  <2>1. CASE i = Len(f) BY <1>1, <2>1, Zenon
  <2>2. CASE i # Len(f) BY <1>1, <2>2 DEF StackOK, Bottom
  <2> QED BY <2>1, <2>2, Zenon
<1> QED BY <1>1, <1>2, Zenon DEF StackOK, Bottom

LEMMA TopByExcept ==
    ASSUME NEW f \in Seq(Frame), f # <<>>, NEW x \in Frame
    PROVE  LET g == [f EXCEPT ![Len(f)] = x] IN
           /\ g \in Seq(Frame) /\ Len(g) = Len(f) /\ g[Len(f)] = x /\ g # <<>>
           /\ \A i \in 1 .. Len(f) - 1 : g[i] = f[i]
<1> DEFINE g == [f EXCEPT ![Len(f)] = x]
<1>1. Len(f) \in Nat /\ Len(f) # 0 OBVIOUS
<1>2. Len(f) \in 1 .. Len(f) BY <1>1
<1>3. /\ g \in Seq(Frame) /\ Len(g) = Len(f)
      /\ \A j \in 1 .. Len(f) : g[j] = IF j = Len(f) THEN x ELSE f[j]
  BY <1>2
<1> HIDE DEF g
<1>4. g # <<>> /\ g[Len(f)] = x /\ \A i \in 1 .. Len(f) - 1 : g[i] = f[i]
  BY <1>1, <1>2, <1>3
<1> QED BY <1>3, <1>4, Zenon DEF g

LEMMA Front ==
    ASSUME NEW f \in Seq(Frame), f # <<>>
    PROVE  LET b == SubSeq(f, 1, Len(f) - 1) IN
           b \in Seq(Frame) /\ Len(b) = Len(f) - 1 /\ \A i \in 1 .. Len(f) - 1 : b[i] = f[i]
<1>1. Len(f) \in Nat /\ Len(f) # 0 OBVIOUS
<1>2. 1 \in Int /\ Len(f) - 1 \in Int /\ \A i \in 1 .. Len(f) - 1 : f[i] \in Frame BY <1>1
<1> DEFINE b == SubSeq(f, 1, Len(f) - 1)
<1>3. /\ b \in Seq(Frame) /\ Len(b) = IF 1 <= Len(f) - 1 THEN Len(f) - 1 - 1 + 1 ELSE 0
      /\ \A i \in 1 .. Len(f) - 1 - 1 + 1 : b[i] = f[1 + i - 1]
  BY <1>2
<1> HIDE DEF b
<1> DEFINE n == Len(f)
<1>4. n \in Nat /\ n # 0 BY <1>1, Zenon
<1> HIDE DEF n
<1>5. /\ (IF 1 <= n - 1 THEN n - 1 - 1 + 1 ELSE 0) = n - 1
      /\ \A i \in 1 .. n - 1 : i \in 1 .. n - 1 - 1 + 1 /\ 1 + i - 1 = i
  BY <1>4
<1>6. Len(b) = n - 1 BY <1>3, <1>5 DEF n
<1>7. \A i \in 1 .. n - 1 : b[i] = f[i] BY <1>3, <1>5, Zenon DEF n
<1> QED BY <1>3, <1>6, <1>7, Zenon DEF b, n

LEMMA TopByAppend ==
    ASSUME NEW f \in Seq(Frame), f # <<>>, NEW x \in Frame
    PROVE  LET g == Append(SubSeq(f, 1, Len(f) - 1), x) IN
           /\ g \in Seq(Frame) /\ Len(g) = Len(f) /\ g[Len(f)] = x /\ g # <<>>
           /\ \A i \in 1 .. Len(f) - 1 : g[i] = f[i]
<1>1. Len(f) \in Nat /\ Len(f) # 0 OBVIOUS
<1> DEFINE b == SubSeq(f, 1, Len(f) - 1)
<1>2. b \in Seq(Frame) /\ Len(b) = Len(f) - 1 /\ \A i \in 1 .. Len(f) - 1 : b[i] = f[i]
  BY Front, Zenon
<1> HIDE DEF b
<1>3. /\ Append(b, x) \in Seq(Frame) /\ Len(Append(b, x)) = Len(f)
      /\ Append(b, x)[Len(f)] = x /\ \A i \in 1 .. Len(f) - 1 : Append(b, x)[i] = f[i]
  BY <1>1, <1>2
<1>4. Append(b, x) # <<>> BY <1>1, <1>3, Zenon
<1> QED BY <1>3, <1>4, Zenon DEF b

\* Dart code in the top frame calls x.
LEMMA Pushed ==
    ASSUME NEW f, StackOK(f), f # <<>>, f[Len(f)].phase = "handle", RunsDart(f[Len(f)].msg),
           Len(f) < MaxDepth, NEW x \in Frame, FrameOK(x), x.ret \notin Bottom
    PROVE  LET g == Append(f, x) IN
           StackOK(g) /\ g # <<>> /\ Len(g) = Len(f) + 1 /\ g[Len(g)] = x /\ g[1] = f[1]
<1>1. Len(f) \in Nat /\ Len(f) # 0 /\ f \in Seq(Frame) BY DEF StackOK
<1> DEFINE g == Append(f, x)
<1>2. /\ g \in Seq(Frame) /\ Len(g) = Len(f) + 1 /\ g[Len(f) + 1] = x
      /\ \A i \in 1 .. Len(f) : g[i] = f[i]
  BY <1>1
<1> HIDE DEF g
<1>3. ASSUME NEW i \in 1 .. Len(g)
      PROVE  FrameOK(g[i]) /\ (g[i].ret \in Bottom <=> i = 1)
  <2>1. CASE i = Len(g) BY <1>1, <1>2, <2>1
  <2>2. CASE i # Len(g) BY <1>1, <1>2, <2>2 DEF StackOK, Bottom
  <2> QED BY <2>1, <2>2, Zenon
<1>4. ASSUME NEW i \in 1 .. Len(g) - 1 PROVE g[i].phase = "handle" /\ RunsDart(g[i].msg)
  <2>1. CASE i = Len(f) BY <1>1, <1>2, <2>1
  <2>2. CASE i # Len(f) BY <1>1, <1>2, <2>2 DEF StackOK
  <2> QED BY <2>1, <2>2, Zenon
<1>5. Len(g) <= MaxDepth BY <1>1, <1>2, BoundAssumption
<1>6. StackOK(g) BY <1>2, <1>3, <1>4, <1>5, Zenon DEF StackOK, Bottom
<1>7. g # <<>> /\ g[1] = f[1] /\ g[Len(g)] = x BY <1>1, <1>2
<1> QED BY <1>2, <1>6, <1>7, Zenon DEF g

\* The call on top returns to the Dart code below it.
LEMMA Popped ==
    ASSUME NEW f, StackOK(f), f # <<>>, f[Len(f)].ret \notin Bottom
    PROVE  LET g == SubSeq(f, 1, Len(f) - 1) IN
           /\ StackOK(g) /\ g # <<>> /\ Len(g) = Len(f) - 1 /\ g[1] = f[1]
           /\ \A i \in 1 .. Len(g) : /\ g[i] = f[i] /\ g[i].phase = "handle"
                                     /\ RunsDart(g[i].msg)
<1>1. Len(f) \in Nat /\ Len(f) # 0 /\ f \in Seq(Frame) BY DEF StackOK
<1>2. Len(f) # 1 BY <1>1 DEF StackOK, Bottom
<1> DEFINE g == SubSeq(f, 1, Len(f) - 1)
<1>3. g \in Seq(Frame) /\ Len(g) = Len(f) - 1 /\ \A i \in 1 .. Len(f) - 1 : g[i] = f[i]
  BY <1>1, Front, Zenon
<1> HIDE DEF g
<1>4. g # <<>> /\ g[1] = f[1] BY <1>1, <1>2, <1>3
<1>5. \A i \in 1 .. Len(g) : g[i] = f[i] /\ g[i].phase = "handle" /\ RunsDart(g[i].msg)
  BY <1>1, <1>3, Zenon DEF StackOK
<1>6. Len(g) <= MaxDepth BY <1>1, <1>3, BoundAssumption DEF StackOK
<1>7. StackOK(g) BY <1>1, <1>3, <1>5, <1>6 DEF StackOK
<1> QED BY <1>3, <1>4, <1>5, <1>7, Zenon DEF g

\* The task or the embedder calls x.
LEMMA Called ==
    ASSUME NEW x \in Frame, FrameOK(x), x.ret \in Bottom
    PROVE  /\ StackOK(<<x>>) /\ <<x>> # <<>> /\ Len(<<x>>) = 1 /\ <<x>>[1] = x
           /\ Append(<<>>, x) = <<x>>
<1>1. <<x>> \in Seq(Frame) /\ Len(<<x>>) = 1 /\ <<x>>[1] = x OBVIOUS
<1>2. StackOK(<<x>>) BY <1>1, BoundAssumption DEF StackOK, Bottom
<1>3. Append(<<>>, x) = <<x>> OBVIOUS
<1> QED BY <1>1, <1>2, <1>3, Zenon

LEMMA EmptyStack == StackOK(<<>>)
<1>1. <<>> \in Seq(Frame) /\ Len(<<>>) = 0 OBVIOUS
<1> QED BY <1>1, BoundAssumption DEF StackOK

-----------------------------------------------------------------------------
(* The steps of a handler that is in HandleMessage.                        *)

\* A handler with calls on its stack is in use.
LEMMA InUse ==
    ASSUME IInv, frames # <<>>
    PROVE  /\ Root = frames[1].ret /\ Root \in Bottom /\ ~closed /\ (task_running_ \/ ~pool_)
           /\ Len(frames) \in Nat /\ Len(frames) # 0 /\ Top \in Frame /\ FrameOK(Top)
           /\ frames \in Seq(Frame) /\ (Top.ret \in Bottom <=> Len(frames) = 1)
<1>1. frames \in Seq(Frame) /\ Len(frames) \in Nat /\ Len(frames) # 0 BY DEF IInv, StackOK
<1>2. Root = frames[1].ret /\ Root \in Bottom BY <1>1 DEF IInv, StackOK, Root, Bottom
<1>3. Top \in Frame /\ FrameOK(Top) /\ (Top.ret \in Bottom <=> Len(frames) = 1)
  <2>1. Len(frames) \in 1 .. Len(frames) BY <1>1
  <2>2. frames[Len(frames)] \in Frame BY <1>1, <2>1
  <2> QED BY <2>1, <2>2, Zenon DEF IInv, StackOK, Top, Bottom
<1>4. ~closed BY Zenon DEF IInv, Placed
<1>5. task_running_ \/ ~pool_ BY <1>2, Zenon DEF IInv, Placed, Bottom
<1> QED BY <1>1, <1>2, <1>3, <1>4, <1>5, Zenon

\* What Finish does to the stack.
LEMMA Finished ==
    ASSUME IInv, HasTop("handle"), NEW status \in Status, NEW sticky \in Status,
           Finish(status, sticky)
    PROVE  /\ StackOK(frames') /\ frames' # <<>> /\ Root' = Root
           /\ Len(frames') = Len(frames) /\ \A i \in 1 .. Len(frames) - 1 : frames'[i] = frames[i]
           /\ Top'.phase = "handled" /\ Top'.status = status /\ Top'.ret = Top.ret
           /\ status # "ok" => Top'.sticky = sticky
<1> USE Zenon
<1>0. frames # <<>> /\ Top.phase = "handle" BY DEF HasTop
<1>1. /\ Len(frames) \in Nat /\ Len(frames) # 0 /\ Top \in Frame /\ FrameOK(Top)
      /\ frames \in Seq(Frame) /\ (Top.ret \in Bottom <=> Len(frames) = 1)
      /\ Root = frames[1].ret /\ StackOK(frames)
  BY <1>0, InUse DEF IInv
<1> DEFINE t == Top
           s == IF status = "ok" THEN Top.sticky ELSE sticky
           x == [t EXCEPT !.phase = "handled", !.status = status, !.sticky = s]
<1>2. s \in Status /\ (status # "ok" => s = sticky) /\ t \in Frame
  BY <1>1 DEF Frame
<1>3. frames' = [frames EXCEPT ![Len(frames)] = x] BY DEF Finish
<1> HIDE DEF s, t
<1>4. /\ x \in Frame /\ x.ret = Top.ret /\ x.phase = "handled" /\ x.msg = Top.msg
      /\ x.normal = Top.normal /\ x.multiple = Top.multiple
      /\ x.status = status /\ (status # "ok" => x.sticky = sticky)
  <2>1. /\ x \in Frame /\ x.ret = t.ret /\ x.phase = "handled" /\ x.msg = t.msg
        /\ x.normal = t.normal /\ x.multiple = t.multiple
        /\ x.status = status /\ x.sticky = s
    BY <1>2 DEF Frame, Phase
  <2> HIDE DEF x
  <2> QED BY <1>2, <2>1 DEF t
<1> HIDE DEF x
<1>5. FrameOK(x) BY <1>0, <1>1, <1>4 DEF FrameOK
<1>6. /\ frames' \in Seq(Frame) /\ Len(frames') = Len(frames) /\ frames'[Len(frames)] = x
      /\ frames' # <<>> /\ \A i \in 1 .. Len(frames) - 1 : frames'[i] = frames[i]
  BY <1>0, <1>1, <1>3, <1>4, TopByExcept, SMT
<1>7. StackOK(frames') BY <1>0, <1>1, <1>4, <1>5, <1>6, TopReplaced
<1>8. Top' = x BY <1>6 DEF Top
<1>9. Root' = Root
  <2>1. frames'[1].ret = frames[1].ret
    <3>1. CASE Len(frames) = 1 BY <1>4, <1>6, <3>1 DEF Top
    <3>2. CASE Len(frames) # 1 BY <1>1, <1>6, <3>2, SMT
    <3> QED BY <3>1, <3>2
  <2> QED BY <1>1, <1>6, <2>1 DEF Root
<1> QED BY <1>4, <1>6, <1>7, <1>8, <1>9

\* HandleMessage of a control message, or the return of Dart code.
LEMMA HandleSteps ==
    ASSUME IInv, HandlePause \/ HandleKill \/ HandleService \/ DartReturns
    PROVE  IInv'
<1> USE Zenon
<1> USE DEF queues, taskVars, pauses, flags
<1>1. HasTop("handle") BY DEF HandlePause, HandleKill, HandleService, DartReturns, Handling
<1>2. PICK status \in Status, sticky \in Status : Finish(status, sticky)
  BY DEF HandlePause, HandleKill, HandleService, DartReturns, Status
<1>3. StackOK(frames') /\ frames' # <<>> /\ Root' = Root
  BY <1>1, <1>2, Finished
<1>4. frames # <<>> /\ ~closed /\ (task_running_ \/ ~pool_) BY <1>1, InUse DEF HasTop
<1>5. UNCHANGED <<queue_, oob_queue_, taken, lastEvent, task, pool_, task_running_,
                  is_paused_on_start_, is_paused_on_exit_, failed,
                  paused_for_messages_, closed, posted, events>>
  BY DEF HandlePause, HandleKill, HandleService, DartReturns
<1>6. /\ paused' \in BOOLEAN /\ killed' \in BOOLEAN /\ has_live_ports' \in BOOLEAN
      /\ should_pause_on_start_' \in BOOLEAN /\ should_pause_on_exit_' \in BOOLEAN
      /\ should_pause_on_start_' => should_pause_on_start_
  <2>0. Types BY DEF IInv
  <2>1. CASE HandlePause BY <2>0, <2>1 DEF HandlePause, Types
  <2>2. CASE HandleKill BY <2>0, <2>2 DEF HandleKill, Types
  <2>3. CASE HandleService
    <3>1. UNCHANGED <<paused, killed, has_live_ports>> BY <2>3 DEF HandleService
    <3>2. should_pause_on_exit_' \in BOOLEAN BY <2>3 DEF HandleService
    <3>3. CASE should_pause_on_start_' = FALSE BY <2>0, <3>1, <3>2, <3>3 DEF Types
    <3>4. CASE UNCHANGED should_pause_on_start_ BY <2>0, <3>1, <3>2, <3>4 DEF Types
    <3> QED BY <2>3, <3>3, <3>4 DEF HandleService
  <2>4. CASE DartReturns BY <2>0, <2>4 DEF DartReturns, Types
  <2> QED BY <2>1, <2>2, <2>3, <2>4
<1>7. Types' BY <1>5, <1>6, SMT DEF IInv, Types
<1>8. Placed' BY <1>3, <1>4, <1>5 DEF IInv, Placed
<1>9. Paused'
  <2>1. CASE UNCHANGED flags BY <1>3, <1>5, <2>1 DEF IInv, Paused
  <2>2. CASE ~UNCHANGED flags
    <3>1. task = "busy" \/ (~pool_ /\ task = "none" /\ Root = "next")
      BY <1>4, InUse DEF IInv, Placed, Bottom
    <3> QED BY <1>3, <1>4, <1>5, <1>6, <3>1 DEF IInv, Paused
  <2> QED BY <2>1, <2>2
<1>10. Served' BY <1>4, <1>5 DEF Served
<1>11. Dying'
  <2>1. ~killed BY <1>1, <1>4 DEF IInv, Dying, HasTop, Unwinding
  <2>2. CASE ~killed' BY <2>2 DEF Dying
  <2>3. CASE killed'
    <3>1. HandleKill /\ Top.msg.kind = "vm_kill"
      BY <2>1, <2>3 DEF HandlePause, HandleKill, HandleService, DartReturns
    <3>2. Finish("shutdown", "shutdown") BY <3>1 DEF HandleKill
    <3>3. Unwinding(Top)' BY <1>1, <3>2, Finished DEF Unwinding, Status
    <3> QED BY <1>3, <3>3 DEF Dying
  <2> QED BY <2>2, <2>3
<1> QED BY <1>3, <1>7, <1>8, <1>9, <1>10, <1>11 DEF IInv

-----------------------------------------------------------------------------
(* MessageQueue::Enqueue.                                                  *)

LEMMA LeadingLibDef ==
    ASSUME NEW q \in Seq(Message), WalksEnd(q)
    PROVE  /\ LeadingLib(q) \in 0 .. Len(q)
           /\ \A i \in 1 .. LeadingLib(q) : IsLib(q[i])
           /\ LeadingLib(q) < Len(q) => ~IsLib(q[LeadingLib(q) + 1])
<1> DEFINE P(n) == /\ \A i \in 1 .. n : IsLib(q[i])
                   /\ n < Len(q) => ~IsLib(q[n + 1])
<1>0. Len(q) \in Nat OBVIOUS
<1>1. 1 \in 1 .. Len(q) + 1 BY <1>0
<1>2. PICK k \in 1 .. Len(q) + 1 : Walk(q, 1, k) BY <1>1, Zenon DEF WalksEnd
<1>3. PICK n : n = k - 1 BY Zenon
<1>4. n \in 0 .. Len(q) /\ k = n + 1 BY <1>0, <1>3
<1>5. P(n) BY <1>0, <1>2, <1>3, <1>4 DEF Walk
<1> HIDE DEF P
<1>6. LeadingLib(q) = CHOOSE i \in 0 .. Len(q) : P(i) BY Zenon DEF LeadingLib, P
<1>7. LeadingLib(q) \in 0 .. Len(q) /\ P(LeadingLib(q)) BY <1>4, <1>5, <1>6, Zenon
<1> QED BY <1>7, Zenon DEF P

\* A message is put in behind the first n.
Inserted(q, e, m, n) ==
  /\ e \in Seq(Message) /\ Len(e) = Len(q) + 1 /\ e[n + 1] = m
  /\ \A i \in 1 .. n : e[i] = q[i]
  /\ \A i \in n + 1 .. Len(q) : e[i + 1] = q[i]

LEMMA Appended ==
    ASSUME NEW q \in Seq(Message), NEW m \in Message
    PROVE  Enqueue(q, m, FALSE) = Append(q, m) /\ Inserted(q, Append(q, m), m, Len(q))
<1>1. /\ Append(q, m) \in Seq(Message) /\ Len(Append(q, m)) = Len(q) + 1
      /\ \A i \in 1 .. Len(q) : Append(q, m)[i] = q[i]
      /\ Append(q, m)[Len(q) + 1] = m /\ Len(q) \in Nat
  OBVIOUS
<1> QED BY <1>1 DEF Enqueue, Inserted

LEMMA Spliced ==
    ASSUME NEW q \in Seq(Message), NEW m \in Message, WalksEnd(q)
    PROVE  Inserted(q, Enqueue(q, m, TRUE), m, LeadingLib(q))
<1> DEFINE n == LeadingLib(q)
           a == SubSeq(q, 1, n)
           b == SubSeq(q, n + 1, Len(q))
<1>0. n \in Nat /\ n <= Len(q) /\ Len(q) \in Nat BY LeadingLibDef
<1>1. Enqueue(q, m, TRUE) = (a \o <<m>>) \o b BY Zenon DEF Enqueue
<1> HIDE DEF n
<1>2. a \in Seq(Message) /\ Len(a) = n /\ \A i \in 1 .. n : a[i] = q[i]
  <2>1. \A i \in 1 .. n : q[i] \in Message BY <1>0
  <2>2. /\ a \in Seq(Message) /\ Len(a) = IF 1 <= n THEN n - 1 + 1 ELSE 0
        /\ \A i \in 1 .. n - 1 + 1 : a[i] = q[1 + i - 1]
    BY <1>0, <2>1
  <2> HIDE DEF a
  <2>3. /\ (IF 1 <= n THEN n - 1 + 1 ELSE 0) = n
        /\ \A i \in 1 .. n : i \in 1 .. n - 1 + 1 /\ 1 + i - 1 = i
    BY <1>0
  <2>4. Len(a) = n BY <2>2, <2>3
  <2>5. \A i \in 1 .. n : a[i] = q[i] BY <2>2, <2>3, Zenon
  <2> QED BY <2>2, <2>4, <2>5, Zenon
<1>3. /\ b \in Seq(Message) /\ Len(b) = Len(q) - n
      /\ \A i \in 1 .. Len(q) - n : b[i] = q[n + i]
  <2> DEFINE l == Len(q)
  <2>1. \A i \in n + 1 .. l : q[i] \in Message BY <1>0
  <2>2. l \in Int /\ n + 1 \in Int BY <1>0
  <2>3. /\ b \in Seq(Message) /\ Len(b) = IF n + 1 <= l THEN l - (n + 1) + 1 ELSE 0
        /\ \A i \in 1 .. l - (n + 1) + 1 : b[i] = q[n + 1 + i - 1]
    BY <2>1, <2>2
  <2>4. n \in Nat /\ n <= l /\ l \in Nat BY <1>0, Zenon
  <2> HIDE DEF b, l
  <2>5. /\ (IF n + 1 <= l THEN l - (n + 1) + 1 ELSE 0) = l - n
        /\ \A i \in 1 .. l - n : i \in 1 .. l - (n + 1) + 1 /\ n + 1 + i - 1 = n + i
    BY <2>4
  <2>6. Len(b) = l - n BY <2>3, <2>5, Zenon
  <2>7. \A i \in 1 .. l - n : b[i] = q[n + i] BY <2>3, <2>5, Zenon
  <2> QED BY <2>3, <2>6, <2>7, Zenon DEF l
<1> HIDE DEF a, b
<1>4. /\ a \o <<m>> \in Seq(Message) /\ Len(a \o <<m>>) = n + 1
      /\ (a \o <<m>>)[n + 1] = m /\ \A i \in 1 .. n : (a \o <<m>>)[i] = q[i]
  <2>1. a \o <<m>> = Append(a, m) BY <1>2
  <2> QED BY <1>2, <2>1
<1> DEFINE c == a \o <<m>>
<1> HIDE DEF c
<1>5. /\ c \in Seq(Message) /\ Len(c) = n + 1 /\ c[n + 1] = m
      /\ \A i \in 1 .. n : c[i] = q[i]
  BY <1>4, Zenon DEF c
<1>6. /\ c \o b \in Seq(Message) /\ Len(c \o b) = Len(c) + Len(b)
      /\ \A i \in 1 .. Len(c) + Len(b) :
           (c \o b)[i] = IF i <= Len(c) THEN c[i] ELSE b[i - Len(c)]
  BY <1>3, <1>5, Joined, Zenon
<1> DEFINE e == c \o b
<1> HIDE DEF e
<1>7. /\ e \in Seq(Message) /\ Len(e) = Len(q) + 1
      /\ \A i \in 1 .. Len(q) + 1 : e[i] = IF i <= n + 1 THEN c[i] ELSE b[i - (n + 1)]
  BY <1>0, <1>3, <1>5, <1>6 DEF e
<1>8. e[n + 1] = m /\ \A i \in 1 .. n : e[i] = q[i] BY <1>0, <1>5, <1>7
<1>9. ASSUME NEW i \in n + 1 .. Len(q) PROVE e[i + 1] = q[i]
  <2>1. i + 1 \in 1 .. Len(q) + 1 /\ ~(i + 1 <= n + 1) BY <1>0
  <2>2. i + 1 - (n + 1) = i - n /\ i - n \in 1 .. Len(q) - n /\ n + (i - n) = i BY <1>0
  <2> DEFINE j == i + 1
  <2> HIDE DEF j
  <2>j. j \in 1 .. Len(q) + 1 /\ ~(j <= n + 1) BY <2>1, Zenon DEF j
  <2>k. e[j] = b[j - (n + 1)] BY <1>7, <2>j, Zenon
  <2>3. j - (n + 1) = i - n BY <1>0 DEF j
  <2>4. b[i - n] = q[n + (i - n)] BY <1>3, <2>2, Zenon
  <2>5. e[j] = q[i] BY <2>2, <2>3, <2>4, <2>k, Zenon
  <2> QED BY <2>5, Zenon DEF j
<1>10. e = Enqueue(q, m, TRUE) BY <1>1, Zenon DEF c, e
<1> QED BY <1>7, <1>8, <1>9, <1>10, Zenon DEF Inserted, n

\* Where a message was, and where it is, when one was put behind the first n.
Old(k, n) == IF k <= n THEN k ELSE k - 1
New(i, n) == IF i <= n THEN i ELSE i + 1

LEMMA InsertedAt ==
    ASSUME NEW q \in Seq(Message), NEW e, NEW m, NEW n \in 0 .. Len(q), Inserted(q, e, m, n)
    PROVE  /\ Len(q) \in Nat /\ Len(e) = Len(q) + 1 /\ n + 1 \in 1 .. Len(e) /\ e[n + 1] = m
           /\ \A k \in 1 .. Len(e) : k # n + 1 =>
                Old(k, n) \in 1 .. Len(q) /\ e[k] = q[Old(k, n)]
           /\ \A i \in 1 .. Len(q) :
                /\ New(i, n) \in 1 .. Len(e) /\ New(i, n) # n + 1
                /\ e[New(i, n)] = q[i]
           /\ \A k, l \in 1 .. Len(e) :
                k < l /\ k # n + 1 /\ l # n + 1 => Old(k, n) < Old(l, n)
<1>1. /\ Len(q) \in Nat /\ Len(e) = Len(q) + 1 /\ e[n + 1] = m /\ n \in Nat /\ n <= Len(q)
      /\ n + 1 \in 1 .. Len(e)
  BY DEF Inserted
<1>2. ASSUME NEW k \in 1 .. Len(e), k # n + 1
      PROVE  Old(k, n) \in 1 .. Len(q) /\ e[k] = q[Old(k, n)]
  <2>1. CASE k <= n BY <1>1, <1>2, <2>1 DEF Old, Inserted
  <2>2. CASE ~(k <= n)
    <3> DEFINE i == k - 1
    <3>1. i \in n + 1 .. Len(q) /\ i \in 1 .. Len(q) /\ i + 1 = k /\ Old(k, n) = i
      BY <1>1, <1>2, <2>2 DEF Old
    <3> HIDE DEF i
    <3>2. e[i + 1] = q[i] BY <3>1, Zenon DEF Inserted
    <3> QED BY <3>1, <3>2, Zenon
  <2> QED BY <2>1, <2>2, Zenon
<1>3. ASSUME NEW i \in 1 .. Len(q)
      PROVE  New(i, n) \in 1 .. Len(e) /\ New(i, n) # n + 1 /\ e[New(i, n)] = q[i]
  <2>1. CASE i <= n BY <1>1, <2>1 DEF New, Inserted
  <2>2. CASE ~(i <= n)
    <3>1. i \in n + 1 .. Len(q) /\ New(i, n) = i + 1 BY <1>1, <2>2 DEF New
    <3>2. e[i + 1] = q[i] BY <3>1, Zenon DEF Inserted
    <3>3. i + 1 \in 1 .. Len(e) /\ i + 1 # n + 1 BY <1>1, <2>2
    <3> QED BY <3>1, <3>2, <3>3, Zenon
  <2> QED BY <2>1, <2>2, Zenon
<1>4. ASSUME NEW k \in 1 .. Len(e), NEW l \in 1 .. Len(e), k < l, k # n + 1, l # n + 1
      PROVE  Old(k, n) < Old(l, n)
  BY <1>1, <1>4 DEF Old
<1> QED BY <1>1, <1>2, <1>3, <1>4, Zenon

LEMMA EmptyWalks == WalksEnd(<<>>)
<1>1. Len(<<>>) = 0 /\ 1 \in 1 .. 1 OBVIOUS
<1>2. Walk(<<>>, 1, 1) BY <1>1 DEF Walk
<1> QED BY <1>1, <1>2 DEF WalksEnd

LEMMA WalksInserted ==
    ASSUME NEW q \in Seq(Message), NEW e, NEW m, NEW n \in 0 .. Len(q), Inserted(q, e, m, n),
           WalksEnd(q)
    PROVE  WalksEnd(e)
<1>0. /\ Len(q) \in Nat /\ Len(e) = Len(q) + 1 /\ n \in Nat /\ n <= Len(q) /\ e[n + 1] = m
      /\ \A i \in 1 .. n : e[i] = q[i]
      /\ \A i \in n + 1 .. Len(q) : e[i + 1] = q[i]
  BY DEF Inserted
<1>1. ASSUME NEW j \in n + 2 .. Len(e) + 1 PROVE \E k \in j .. Len(e) + 1 : Walk(e, j, k)
  <2>1. j - 1 \in 1 .. Len(q) + 1 BY <1>0
  <2>2. PICK k \in j - 1 .. Len(q) + 1 : Walk(q, j - 1, k) BY <2>1, Zenon DEF WalksEnd
  <2>3. k + 1 \in j .. Len(e) + 1 BY <1>0, <2>1
  <2>4. ASSUME NEW i \in j .. (k + 1) - 1 PROVE IsLib(e[i])
    <3>1. i - 1 \in j - 1 .. k - 1 /\ i - 1 \in n + 1 .. Len(q) /\ (i - 1) + 1 = i
      BY <1>0, <2>1
    <3>2. e[(i - 1) + 1] = q[i - 1] BY <1>0, <3>1, Zenon
    <3> QED BY <2>2, <3>1, <3>2, Zenon DEF Walk
  <2>5. ASSUME k + 1 <= Len(e) PROVE ~IsLib(e[k + 1])
    <3>1. k \in n + 1 .. Len(q) BY <1>0, <2>1, <2>5
    <3> QED BY <1>0, <2>2, <3>1 DEF Walk
  <2>6. Walk(e, j, k + 1) BY <2>4, <2>5, Zenon DEF Walk
  <2> QED BY <2>3, <2>6, Zenon
<1>2. ASSUME NEW j \in 1 .. n + 1 PROVE \E k \in j .. Len(e) + 1 : Walk(e, j, k)
  <2>1. j \in 1 .. Len(q) + 1 BY <1>0
  <2>2. PICK k \in j .. Len(q) + 1 : Walk(q, j, k) BY <2>1, Zenon DEF WalksEnd
  <2>3. CASE k <= n
    <3>1. Walk(e, j, k) BY <1>0, <2>1, <2>2, <2>3 DEF Walk
    <3> QED BY <1>0, <2>1, <3>1
  <2>4. CASE ~(k <= n)
    <3>1. \A i \in j .. n : IsLib(e[i]) BY <1>0, <2>1, <2>2, <2>4 DEF Walk
    <3>2. CASE ~IsLib(m)
      <4>1. n + 1 \in j .. Len(e) + 1 /\ (n + 1) - 1 = n BY <1>0, <2>1
      <4>2. Walk(e, j, n + 1) BY <1>0, <3>1, <3>2, <4>1, Zenon DEF Walk
      <4> QED BY <4>1, <4>2, Zenon
    <3>3. CASE IsLib(m)
      <4>1. n + 2 \in n + 2 .. Len(e) + 1 BY <1>0
      <4>2. PICK l \in n + 2 .. Len(e) + 1 : Walk(e, n + 2, l) BY <1>1, <4>1, Zenon
      <4>3. l \in j .. Len(e) + 1 BY <1>0, <2>1
      <4>4. ASSUME NEW i \in j .. l - 1 PROVE IsLib(e[i])
        <5>1. CASE i <= n BY <2>1, <3>1, <5>1
        <5>2. CASE i = n + 1 BY <1>0, <3>3, <5>2, Zenon
        <5>3. CASE i > n + 1 BY <1>0, <2>1, <4>2, <5>3 DEF Walk
        <5> QED BY <1>0, <2>1, <5>1, <5>2, <5>3
      <4>5. Walk(e, j, l) BY <4>2, <4>4, Zenon DEF Walk
      <4> QED BY <4>3, <4>5, Zenon
    <3> QED BY <3>2, <3>3, Zenon
  <2> QED BY <2>3, <2>4, Zenon
<1>3. ASSUME NEW j \in 1 .. Len(e) + 1 PROVE j \in 1 .. n + 1 \/ j \in n + 2 .. Len(e) + 1
  BY <1>0
<1> QED BY <1>1, <1>2, <1>3, Zenon DEF WalksEnd

-----------------------------------------------------------------------------
(* Posting a message, and the end of a wait.                               *)

LEMMA Woken ==
    ASSUME IInv, HasTop("waiting"), NEW p \in {"timed_out", "woken"},
           frames' = [frames EXCEPT ![Len(frames)].phase = p]
    PROVE  /\ StackOK(frames') /\ frames' # <<>> /\ Root' = Root
           /\ Len(frames') = Len(frames) /\ \A i \in 1 .. Len(frames) - 1 : frames'[i] = frames[i]
           /\ Top'.phase = p /\ Top'.ret = Top.ret
<1> USE Zenon
<1>0. frames # <<>> /\ Top.phase = "waiting" BY DEF HasTop
<1>1. /\ Len(frames) \in Nat /\ Len(frames) # 0 /\ Top \in Frame /\ FrameOK(Top)
      /\ frames \in Seq(Frame) /\ (Top.ret \in Bottom <=> Len(frames) = 1)
      /\ Root = frames[1].ret /\ StackOK(frames)
  BY <1>0, InUse DEF IInv
<1> DEFINE t == Top
           x == [t EXCEPT !.phase = p]
<1>2. frames' = [frames EXCEPT ![Len(frames)] = x] BY DEF Top
<1>3. t \in Frame BY <1>1
<1> HIDE DEF t
<1>4. /\ x \in Frame /\ x.ret = t.ret /\ x.phase = p /\ x.msg = t.msg
      /\ x.normal = t.normal /\ x.multiple = t.multiple
  BY <1>3 DEF Frame, Phase
<1> HIDE DEF x
<1>5. FrameOK(x) BY <1>0, <1>1, <1>4 DEF FrameOK, t
<1>6. /\ frames' \in Seq(Frame) /\ Len(frames') = Len(frames) /\ frames'[Len(frames)] = x
      /\ frames' # <<>> /\ \A i \in 1 .. Len(frames) - 1 : frames'[i] = frames[i]
  BY <1>0, <1>1, <1>2, <1>4, TopByExcept, SMTT(30)
<1>7. StackOK(frames') BY <1>0, <1>1, <1>4, <1>5, <1>6, TopReplaced DEF t
<1>8. Top' = x BY <1>6 DEF Top
<1>9. Root' = Root
  <2>1. frames'[1].ret = frames[1].ret
    <3>1. CASE Len(frames) = 1 BY <1>4, <1>6, <3>1 DEF Top, t
    <3>2. CASE Len(frames) # 1 BY <1>1, <1>6, <3>2, SMT
    <3> QED BY <3>1, <3>2
  <2> QED BY <1>1, <1>6, <2>1 DEF Root
<1> QED BY <1>4, <1>6, <1>7, <1>8, <1>9 DEF t

LEMMA WaitEndSteps ==
    ASSUME IInv, WaitEnds
    PROVE  IInv'
<1> USE Zenon
<1> USE DEF queues, taskVars, pauses, flags
<1>1. HasTop("waiting") /\ UNCHANGED <<queue_, oob_queue_, taken, lastEvent, task, pool_,
         task_running_, is_paused_on_start_, is_paused_on_exit_, failed,
         paused_for_messages_, flags, paused, has_live_ports, closed, posted, events, killed>>
  BY DEF WaitEnds
<1>2. StackOK(frames') /\ frames' # <<>> /\ Root' = Root BY <1>1, Woken DEF WaitEnds
<1>3. frames # <<>> /\ ~closed BY <1>1, InUse DEF HasTop
<1>4. Types' BY <1>1, SMT DEF IInv, Types
<1>5. Placed' BY <1>1, <1>2, <1>3 DEF IInv, Placed
<1>6. Paused' BY <1>1, <1>2 DEF IInv, Paused
<1>7. Served' BY <1>1 DEF IInv, Served
<1>8. Dying' BY <1>1, <1>3 DEF IInv, Dying, HasTop, Unwinding
<1> QED BY <1>2, <1>4, <1>5, <1>6, <1>7, <1>8 DEF IInv

\* What PostMessage does to the queues.
LEMMA PostedMessage ==
    ASSUME Types, NEW kind \in Posted, PostMessage(kind)
    PROVE  /\ posted' = posted + 1 /\ posted' \in 0 .. MaxMessages /\ events' \in 0 .. posted'
           /\ events <= events'
           /\ \/ LET m == [kind |-> kind, id |-> posted - events + 1] IN
                 /\ m \in Message /\ kind \in OOBKind
                 /\ oob_queue_' = Append(oob_queue_, m)
                 /\ Inserted(oob_queue_, oob_queue_', m, Len(oob_queue_))
                 /\ queue_' = queue_ /\ events' = events
              \/ LET m == [kind |-> "event", id |-> events + 1] IN
                 /\ m \in Message /\ kind = "event"
                 /\ queue_' = Append(queue_, m) /\ Inserted(queue_, queue_', m, Len(queue_))
                 /\ oob_queue_' = oob_queue_ /\ events' = events + 1
<1> USE Zenon
<1> USE BoundAssumption
<1>1. /\ posted \in Nat /\ posted < MaxMessages /\ posted' = posted + 1
      /\ events \in Nat /\ events <= posted
      /\ queue_ \in Seq(Message) /\ oob_queue_ \in Seq(Message)
  BY SMT DEF PostMessage, Types
<1>2. kind \in Kind /\ (kind \notin OOBKind => kind = "event") BY DEF Kind
<1>3. CASE kind \in OOBKind
  <2> DEFINE m == [kind |-> kind, id |-> posted - events + 1]
  <2>1. m \in Message BY <1>1, <1>2, SMT DEF Message
  <2>2. /\ oob_queue_' = Enqueue(oob_queue_, m, FALSE) /\ queue_' = queue_ /\ events' = events
    BY <1>3 DEF PostMessage
  <2> HIDE DEF m
  <2>3. /\ oob_queue_' = Append(oob_queue_, m)
        /\ Inserted(oob_queue_, oob_queue_', m, Len(oob_queue_))
    BY <1>1, <2>1, <2>2, Appended
  <2>4. /\ posted' \in 0 .. MaxMessages /\ events' \in 0 .. posted' /\ events <= events'
    BY <1>1, <2>2, SMT
  <2>5. /\ m \in Message /\ kind \in OOBKind /\ oob_queue_' = Append(oob_queue_, m)
        /\ Inserted(oob_queue_, oob_queue_', m, Len(oob_queue_))
        /\ queue_' = queue_ /\ events' = events
    BY <1>3, <2>1, <2>2, <2>3
  <2> QED BY <1>1, <2>4, <2>5 DEF m
<1>4. CASE kind \notin OOBKind
  <2> DEFINE m == [kind |-> "event", id |-> events + 1]
  <2>1. m \in Message BY <1>1, <1>2, SMT DEF Message, Kind
  <2>2. /\ queue_' = Enqueue(queue_, m, FALSE) /\ oob_queue_' = oob_queue_
        /\ events' = events + 1
    BY <1>2, <1>4 DEF PostMessage
  <2> HIDE DEF m
  <2>3. queue_' = Append(queue_, m) /\ Inserted(queue_, queue_', m, Len(queue_))
    BY <1>1, <2>1, <2>2, Appended
  <2>4. /\ posted' \in 0 .. MaxMessages /\ events' \in 0 .. posted' /\ events <= events'
    BY <1>1, <2>2, SMT
  <2>5. /\ m \in Message /\ kind = "event" /\ queue_' = Append(queue_, m)
        /\ Inserted(queue_, queue_', m, Len(queue_))
        /\ oob_queue_' = oob_queue_ /\ events' = events + 1
    BY <1>2, <1>4, <2>1, <2>2, <2>3
  <2> QED BY <1>1, <2>4, <2>5 DEF m
<1> QED BY <1>3, <1>4

\* The types of a queue that gets a message.
LEMMA InsertedKind ==
    ASSUME NEW q \in Seq(Message), NEW e, NEW m \in Message, NEW n \in 0 .. Len(q),
           Inserted(q, e, m, n), NEW K, m.kind \in K, \A i \in 1 .. Len(q) : q[i].kind \in K
    PROVE  e \in Seq(Message) /\ \A i \in 1 .. Len(e) : e[i].kind \in K
<1>0. Len(q) \in Nat OBVIOUS
<1>1. e \in Seq(Message) /\ Len(e) = Len(q) + 1 /\ e[n + 1] = m BY Zenon DEF Inserted
<1>2. ASSUME NEW i \in 1 .. Len(e) PROVE e[i].kind \in K
  <2>1. CASE i <= n BY <1>0, <1>1, <2>1 DEF Inserted
  <2>2. CASE i = n + 1 BY <1>1, <2>2, Zenon
  <2>3. CASE i > n + 1
    <3> DEFINE k == i - 1
    <3>1. k \in n + 1 .. Len(q) /\ k \in 1 .. Len(q) /\ k + 1 = i BY <1>0, <1>1, <2>3
    <3> HIDE DEF k
    <3>2. e[k + 1] = q[k] BY <3>1, Zenon DEF Inserted
    <3> QED BY <3>1, <3>2, Zenon
  <2> QED BY <2>1, <2>2, <2>3
<1> QED BY <1>1, <1>2, Zenon

LEMMA PostSteps ==
    ASSUME IInv, NEW kind \in Posted, PostMessage(kind)
    PROVE  IInv'
<1> USE Zenon
<1> USE DEF queues, taskVars, pauses, flags
<1>0. Types /\ Placed /\ StackOK(frames) BY DEF IInv
<1>1. /\ ~closed
      /\ UNCHANGED <<taken, lastEvent, pool_, is_paused_on_start_, is_paused_on_exit_, failed,
                     paused_for_messages_, should_pause_on_start_, should_pause_on_exit_,
                     paused, has_live_ports, closed, killed>>
  BY DEF PostMessage
<1>2. \/ /\ HasTop("waiting") /\ frames' = [frames EXCEPT ![Len(frames)].phase = "woken"]
      \/ frames' = frames
  BY DEF PostMessage
<1>3. \/ /\ pool_ /\ ~task_running_ /\ task_running_' = TRUE /\ task' = "queued"
         /\ frames = <<>> /\ frames' = <<>> /\ task = "none"
      \/ ~(pool_ /\ ~task_running_) /\ UNCHANGED <<task_running_, task>>
  <2>1. CASE pool_ /\ ~task_running_
    <3>1. frames = <<>> /\ task = "none" BY <1>0, <2>1, InUse DEF Types, Placed
    <3> QED BY <1>2, <2>1, <3>1 DEF PostMessage, NeedsTask, HasTop
  <2>2. CASE ~(pool_ /\ ~task_running_) BY <2>2 DEF PostMessage, NeedsTask
  <2> QED BY <2>1, <2>2
<1>4. StackOK(frames') /\ Root' = Root /\ (frames = <<>> <=> frames' = <<>>)
  <2>1. CASE /\ HasTop("waiting") /\ frames' = [frames EXCEPT ![Len(frames)].phase = "woken"]
    BY <2>1, Woken DEF HasTop
  <2>2. CASE frames' = frames BY <1>0, <2>2 DEF Root
  <2> QED BY <1>2, <2>1, <2>2
<1>5. Types'
  <2>1. /\ posted' \in 0 .. MaxMessages /\ events' \in 0 .. posted' /\ events <= events'
    BY <1>0, PostedMessage
  <2>2. lastEvent' \in Nat BY <1>0, <1>1 DEF Types
  <2>3. /\ queue_' \in Seq(Message) /\ WalksEnd(queue_')
        /\ \A i \in 1 .. Len(queue_') : ~IsOOB(queue_'[i])
        /\ oob_queue_' \in Seq(Message) /\ \A i \in 1 .. Len(oob_queue_') : IsOOB(oob_queue_'[i])
    <3>1. CASE queue_' = queue_ /\ kind \in OOBKind
      <4> DEFINE m == [kind |-> kind, id |-> posted - events + 1]
      <4>1. m \in Message /\ Inserted(oob_queue_, oob_queue_', m, Len(oob_queue_))
        BY <1>0, <3>1, PostedMessage DEF OOBKind
      <4>2. m.kind \in OOBKind BY <3>1
      <4>3. /\ Len(oob_queue_) \in 0 .. Len(oob_queue_) /\ oob_queue_ \in Seq(Message)
            /\ \A i \in 1 .. Len(oob_queue_) : oob_queue_[i].kind \in OOBKind
        BY <1>0, SMT DEF Types, IsOOB
      <4> HIDE DEF m
      <4>4. /\ oob_queue_' \in Seq(Message)
            /\ \A i \in 1 .. Len(oob_queue_') : oob_queue_'[i].kind \in OOBKind
        BY <4>1, <4>2, <4>3, InsertedKind
      <4> QED BY <1>0, <3>1, <4>4 DEF Types, IsOOB
    <3>2. CASE oob_queue_' = oob_queue_ /\ kind = "event"
      <4> DEFINE m == [kind |-> "event", id |-> events + 1]
                 K == Kind \ OOBKind
      <4>1. m \in Message /\ Inserted(queue_, queue_', m, Len(queue_))
        BY <1>0, <3>2, PostedMessage DEF OOBKind
      <4>2. m.kind \in K BY DEF Kind, OOBKind
      <4>3. /\ Len(queue_) \in 0 .. Len(queue_) /\ queue_ \in Seq(Message)
            /\ \A i \in 1 .. Len(queue_) : queue_[i].kind \in K
        <5>1. \A x \in Message : x.kind \in Kind BY DEF Message
        <5>2. \A i \in 1 .. Len(queue_) : queue_[i] \in Message BY <1>0, SMT DEF Types
        <5> QED BY <1>0, <5>1, <5>2, SMT DEF Types, IsOOB
      <4> HIDE DEF m
      <4>4. queue_' \in Seq(Message) /\ \A i \in 1 .. Len(queue_') : queue_'[i].kind \in K
        BY <4>1, <4>2, <4>3, InsertedKind
      <4>5. WalksEnd(queue_') BY <1>0, <4>1, <4>3, WalksInserted DEF Types
      <4> QED BY <1>0, <3>2, <4>4, <4>5 DEF Types, IsOOB
    <3> QED BY <1>0, <3>1, <3>2, PostedMessage
  <2>4. task_running_' \in BOOLEAN BY <1>0, <1>3 DEF Types
  <2>5. task' \in {"none", "queued", "pausing_start", "pausing_exit", "busy", "ending"}
    BY <1>0, <1>3 DEF Types
  <2> QED BY <1>0, <1>1, <2>1, <2>2, <2>3, <2>4, <2>5, SMT DEF Types
<1>6. Placed' BY <1>0, <1>1, <1>3, <1>4, SMT DEF Placed, Root, TaskRet
<1>7. Paused' BY <1>0, <1>1, <1>3, <1>4 DEF IInv, Paused, Root
<1>8. Served' BY <1>1, <1>3, SMT DEF Served
<1>9. Dying'
  <2>1. CASE frames = <<>>
    BY <1>0, <1>1, <1>3, <1>4, <2>1 DEF IInv, Dying, Placed
  <2>2. CASE frames # <<>> /\ killed
    <3>1. Unwinding(Top) BY <2>2 DEF IInv, Dying
    <3>2. frames' = frames BY <1>2, <3>1 DEF HasTop, Unwinding
    <3> QED BY <2>2, <3>1, <3>2 DEF Dying, Top
  <2> QED BY <1>1, <2>1, <2>2 DEF Dying
<1> QED BY <1>4, <1>5, <1>6, <1>7, <1>8, <1>9 DEF IInv

-----------------------------------------------------------------------------
(* The ways in which TaskCallback gives up monitor_.                       *)

TaskTypes ==
  /\ task \in {"none", "queued", "pausing_start", "pausing_exit", "busy", "ending"}
  /\ pool_ \in BOOLEAN /\ task_running_ \in BOOLEAN
  /\ is_paused_on_start_ \in BOOLEAN /\ is_paused_on_exit_ \in BOOLEAN

TaskInv == StackOK(frames) /\ TaskTypes /\ Placed /\ Paused /\ Served /\ Dying

LEMMA CallsHandle ==
    ASSUME pool_, task_running_, UNCHANGED <<flags, closed>>, ~closed, ~killed',
           NEW ret \in TaskRet, NEW normal \in BOOLEAN, ret = "main" => normal,
           NEW onStart \in BOOLEAN, NEW onExit \in BOOLEAN,
           CallFromTask(ret, normal, onStart, onExit),
           onExit => ~should_pause_on_start_ /\ ~onStart,
           ret = "start" => onStart, ret \in {"exit", "exit_again"} => onExit,
           ret = "main" => ~onStart /\ ~onExit /\ ~should_pause_on_start_
    PROVE  TaskInv'
<1> USE Zenon
<1> DEFINE x == NewFrame(ret, "enter", normal, normal)
<1>1. /\ x \in Frame /\ x.ret = ret /\ x.phase = "enter" /\ x.normal = normal
      /\ x.multiple = normal
  <2>1. ret \in Ret /\ "enter" \in Phase BY DEF Ret, Phase
  <2> QED BY <2>1, NewFrameFields, SMT
<1>2. /\ frames' = Append(<<>>, x) /\ task' = "busy" /\ is_paused_on_start_' = onStart
      /\ is_paused_on_exit_' = onExit /\ UNCHANGED <<pool_, task_running_>>
  BY DEF CallFromTask, Calling
<1> HIDE DEF x
<1>3. FrameOK(x) /\ x.ret \in Bottom BY <1>1 DEF FrameOK, TaskRet, Bottom
<1>4. StackOK(frames') /\ frames' # <<>> /\ frames'[1] = x BY <1>1, <1>2, <1>3, Called
<1>5. Root' = ret BY <1>1, <1>4 DEF Root
<1>6. Placed' BY <1>2, <1>5 DEF Placed, TaskRet
<1>7. Paused' BY <1>2, <1>5 DEF Paused, TaskRet, flags
<1>8. Served' BY <1>2 DEF Served
<1>9. Dying' BY DEF Dying
<1>10. TaskTypes' BY <1>2 DEF TaskTypes
<1> QED BY <1>4, <1>6, <1>7, <1>8, <1>9, <1>10 DEF TaskInv

LEMMA EndsTask ==
    ASSUME pool_, UNCHANGED <<flags, closed>>, ~closed, ~killed',
           NEW onStart \in BOOLEAN, NEW onExit \in BOOLEAN, EndTask(onStart, onExit),
           oob_queue_' = <<>>, queue_' # <<>> => paused' \/ onStart \/ onExit,
           onStart => should_pause_on_start_,
           onExit => should_pause_on_exit_ /\ ~should_pause_on_start_
    PROVE  TaskInv'
<1> USE Zenon
<1>1. /\ frames' = <<>> /\ task' = "none" /\ ~task_running_' /\ task_running_' \in BOOLEAN
      /\ is_paused_on_start_' = onStart /\ is_paused_on_exit_' = onExit /\ UNCHANGED pool_
  BY DEF EndTask
<1>2. Root' = "none" /\ StackOK(frames') BY <1>1, EmptyStack DEF Root
<1>3. Placed' BY <1>1, <1>2 DEF Placed, TaskRet
<1>4. Paused' BY <1>1, <1>2 DEF Paused, flags
<1>5. Served' BY <1>1 DEF Served
<1>6. Dying' BY DEF Dying
<1>7. TaskTypes' BY <1>1 DEF TaskTypes
<1> QED BY <1>2, <1>3, <1>4, <1>5, <1>6, <1>7 DEF TaskInv

LEMMA StopsTask ==
    ASSUME UNCHANGED <<flags, closed>>, ~closed,
           NEW onStart \in BOOLEAN, NEW onExit \in BOOLEAN, Stop(onStart, onExit),
           onExit => ~should_pause_on_start_ /\ ~onStart
    PROVE  TaskInv'
<1> USE Zenon
<1>1. /\ frames' = <<>> /\ task' = "ending" /\ ~task_running_' /\ ~pool_'
      /\ task_running_' \in BOOLEAN /\ pool_' \in BOOLEAN
      /\ is_paused_on_start_' = onStart /\ is_paused_on_exit_' = onExit
  BY DEF Stop
<1>2. Root' = "none" /\ StackOK(frames') BY <1>1, EmptyStack DEF Root
<1>3. Placed' BY <1>1, <1>2 DEF Placed, TaskRet
<1>4. Paused' BY <1>1, <1>2 DEF Paused, flags
<1>5. Served' BY <1>1 DEF Served
<1>6. Dying' BY <1>1 DEF Dying
<1>7. TaskTypes' BY <1>1 DEF TaskTypes
<1> QED BY <1>2, <1>3, <1>4, <1>5, <1>6, <1>7 DEF TaskInv

LEMMA PausesTask ==
    ASSUME pool_, task_running_, UNCHANGED <<flags, closed>>, ~closed, ~killed',
           PauseOnExit(FALSE, FALSE), ~should_pause_on_start_
    PROVE  TaskInv'
<1> USE Zenon
<1>1. /\ frames' = <<>> /\ task' = "pausing_exit" /\ UNCHANGED <<pool_, task_running_>>
      /\ ~is_paused_on_start_' /\ ~is_paused_on_exit_'
      /\ is_paused_on_start_' \in BOOLEAN /\ is_paused_on_exit_' \in BOOLEAN
  BY DEF PauseOnExit
<1>2. Root' = "none" /\ StackOK(frames') BY <1>1, EmptyStack DEF Root
<1>3. Placed' BY <1>1, <1>2 DEF Placed, TaskRet
<1>4. Paused' BY <1>1, <1>2 DEF Paused, flags
<1>5. Served' BY <1>1 DEF Served
<1>6. Dying' BY DEF Dying
<1>7. TaskTypes' BY <1>1 DEF TaskTypes
<1> QED BY <1>2, <1>3, <1>4, <1>5, <1>6, <1>7 DEF TaskInv

\* The end of TaskCallback, when the isolate is not paused.
LEMMA ExitOrIdleSteps ==
    ASSUME pool_, task_running_, UNCHANGED <<flags, closed>>, ~closed,
           NEW status \in Status, killed' => status = "shutdown",
           status # "shutdown" => ~should_pause_on_start_,
           oob_queue_' = <<>>, status = "ok" => queue_' = <<>> \/ paused',
           ExitOrIdle(status, FALSE, FALSE)
    PROVE  TaskInv'
<1> USE Zenon
<1>1. CASE status = "ok" /\ has_live_ports
  <2>1. EndTask(FALSE, FALSE) BY <1>1 DEF ExitOrIdle
  <2> QED BY <1>1, <2>1, EndsTask
<1>2. CASE ~(status = "ok" /\ has_live_ports) /\ ShouldPauseOnExit(status)
  <2>1. PauseOnExit(FALSE, FALSE) /\ status # "shutdown"
    BY <1>2 DEF ExitOrIdle, ShouldPauseOnExit
  <2> QED BY <2>1, PausesTask
<1>3. CASE ~(status = "ok" /\ has_live_ports) /\ ~ShouldPauseOnExit(status)
  <2>1. Stop(FALSE, FALSE) BY <1>3 DEF ExitOrIdle
  <2> QED BY <2>1, StopsTask
<1> QED BY <1>1, <1>2, <1>3

LEMMA HandleOrExitSteps ==
    ASSUME pool_, task_running_, UNCHANGED <<flags, closed>>, ~closed,
           NEW status \in Status, killed' => status = "shutdown",
           status # "shutdown" => ~should_pause_on_start_,
           oob_queue_' = <<>> \/ status = "ok",
           HandleOrExit(status, FALSE, FALSE)
    PROVE  TaskInv'
<1> USE Zenon
<1>1. CASE status = "ok"
  <2>1. CallFromTask("main", TRUE, FALSE, FALSE) BY <1>1 DEF HandleOrExit
  <2> QED BY <1>1, <2>1, CallsHandle DEF TaskRet
<1>2. CASE status # "ok"
  <2>1. ExitOrIdle(status, FALSE, FALSE) BY <1>2 DEF HandleOrExit
  <2> QED BY <1>2, <2>1, ExitOrIdleSteps
<1> QED BY <1>1, <1>2

-----------------------------------------------------------------------------
(* The steps of the task.                                                  *)

\* What is not of the task and the stack has its type.
OtherTypes ==
  /\ paused_for_messages_ \in BOOLEAN
  /\ should_pause_on_start_ \in BOOLEAN /\ should_pause_on_exit_ \in BOOLEAN
  /\ paused \in BOOLEAN /\ has_live_ports \in BOOLEAN /\ closed \in BOOLEAN
  /\ failed \in BOOLEAN /\ killed \in BOOLEAN
  /\ posted \in 0 .. MaxMessages /\ events \in 0 .. posted
  /\ lastEvent \in Nat /\ taken \in Nat

QueueTypes ==
  /\ queue_ \in Seq(Message) /\ oob_queue_ \in Seq(Message)
  /\ \A i \in 1 .. Len(queue_) : ~IsOOB(queue_[i])
  /\ WalksEnd(queue_)
  /\ \A i \in 1 .. Len(oob_queue_) : IsOOB(oob_queue_[i])

LEMMA TypeParts == Types <=> TaskTypes /\ OtherTypes /\ QueueTypes
BY Zenon DEF Types, TaskTypes, OtherTypes, QueueTypes

LEMMA TypesPrimed == Types' <=> TaskTypes' /\ OtherTypes' /\ QueueTypes'
BY Zenon DEF Types, TaskTypes, OtherTypes, QueueTypes

LEMMA RunSteps ==
    ASSUME IInv, Run
    PROVE  IInv'
<1> USE Zenon
<1> USE DEF queues, pauses, flags
<1>1. /\ ~closed /\ ~pool_ /\ task = "none" /\ frames = <<>>
      /\ pool_' = TRUE /\ task_running_' = TRUE /\ task' = "queued"
      /\ UNCHANGED <<queue_, oob_queue_, taken, lastEvent, frames, is_paused_on_start_,
                     is_paused_on_exit_, failed, paused_for_messages_,
                     should_pause_on_start_, should_pause_on_exit_, paused,
                     has_live_ports, closed, posted, events, killed>>
  BY DEF Run
<1>2. StackOK(frames') /\ Root' = "none" BY <1>1 DEF IInv, Root
<1>3. Types' BY <1>1 DEF IInv, Types
<1>4. Placed' BY <1>1, <1>2 DEF IInv, Placed, TaskRet
<1>5. Paused' BY <1>1, <1>2 DEF IInv, Paused
<1>6. Served' BY <1>1 DEF Served
<1>7. Dying' BY <1>1 DEF IInv, Dying
<1> QED BY <1>2, <1>3, <1>4, <1>5, <1>6, <1>7 DEF IInv

LEMMA NextMessageSteps ==
    ASSUME IInv, HandleNextMessage
    PROVE  IInv'
<1> USE Zenon
<1> USE DEF queues, pauses, flags, taskVars
<1> DEFINE x == NewFrame("next", "enter", TRUE, FALSE)
<1>1. /\ ~closed /\ ~pool_ /\ task = "none" /\ frames = <<>> /\ frames' = <<x>>
      /\ UNCHANGED <<queue_, oob_queue_, taken, lastEvent, task, pool_, task_running_,
                     is_paused_on_start_, is_paused_on_exit_, failed,
                     paused_for_messages_, should_pause_on_start_,
                     should_pause_on_exit_, paused, has_live_ports, closed, posted,
                     events, killed>>
  BY DEF HandleNextMessage
<1>2. x \in Frame /\ x.ret = "next" /\ x.phase = "enter"
  <2>1. "next" \in Ret /\ "enter" \in Phase BY DEF Ret, Phase
  <2> QED BY <2>1, NewFrameFields
<1> HIDE DEF x
<1>3. FrameOK(x) /\ x.ret \in Bottom BY <1>2 DEF FrameOK, Bottom
<1>4. StackOK(frames') /\ frames' # <<>> /\ frames'[1] = x BY <1>1, <1>2, <1>3, Called
<1>5. Root' = "next" BY <1>2, <1>4 DEF Root
<1>6. Types' BY <1>1, SMT DEF IInv, Types
<1>7. Placed' BY <1>1, <1>5 DEF IInv, Placed, TaskRet
<1>8. Paused' BY <1>1, <1>5 DEF IInv, Paused
<1>9. Served' BY <1>1 DEF Served
<1>10. Dying' BY <1>1 DEF IInv, Dying
<1> QED BY <1>4, <1>6, <1>7, <1>8, <1>9, <1>10 DEF IInv

LEMMA TaskCallbackSteps ==
    ASSUME IInv, TaskCallback
    PROVE  IInv'
<1> USE Zenon
<1> USE DEF queues, pauses
<1>0. Types /\ Placed /\ Paused /\ StackOK(frames) BY DEF IInv
<1>1. /\ task = "queued"
      /\ UNCHANGED <<queue_, oob_queue_, taken, lastEvent, failed, paused_for_messages_,
                     flags, paused, has_live_ports, closed, posted, events, killed>>
  BY DEF TaskCallback
<1>2. task_running_ /\ pool_ /\ ~closed /\ frames = <<>>
  BY <1>0, <1>1, InUse DEF Placed, Bottom
<1>3. ~killed /\ ~killed' BY <1>1, <1>2 DEF IInv, Dying
<1>4. OtherTypes' /\ QueueTypes' BY <1>0, <1>1, TypeParts DEF OtherTypes, QueueTypes, flags
<1>5. TaskInv'
  <2>1. CASE ~ShouldPauseOnStart("ok")
    <3>1. ~should_pause_on_start_ /\ ~is_paused_on_start_
      BY <1>0, <1>1, <1>2, <2>1 DEF ShouldPauseOnStart, Paused
    <3>2. is_paused_on_start_ = FALSE BY <1>0, <3>1 DEF Types
    <3>3. CheckPausedOnExit("ok", FALSE) BY <2>1, <3>2 DEF TaskCallback
    <3>4. CASE is_paused_on_exit_
      <4>1. CallFromTask("exit", FALSE, FALSE, TRUE) BY <3>3, <3>4 DEF CheckPausedOnExit
      <4> QED BY <1>1, <1>2, <1>3, <3>1, <4>1, CallsHandle DEF TaskRet
    <3>5. CASE ~is_paused_on_exit_
      <4>1. HandleOrExit("ok", FALSE, FALSE) BY <3>3, <3>5 DEF CheckPausedOnExit
      <4> QED BY <1>1, <1>2, <1>3, <3>1, <4>1, HandleOrExitSteps DEF Status
    <3> QED BY <3>4, <3>5
  <2>2. CASE ShouldPauseOnStart("ok") /\ is_paused_on_start_
    <3>1. CallFromTask("start", FALSE, TRUE, is_paused_on_exit_) BY <2>2 DEF TaskCallback
    <3>2. ~is_paused_on_exit_ /\ is_paused_on_exit_ = FALSE
      BY <1>0, <2>2 DEF Paused, Types
    <3>3. CallFromTask("start", FALSE, TRUE, FALSE) BY <3>1, <3>2
    <3> QED BY <1>1, <1>2, <1>3, <3>3, CallsHandle DEF TaskRet
  <2>3. CASE ShouldPauseOnStart("ok") /\ ~is_paused_on_start_
    <3>1. /\ task' = "pausing_start" /\ should_pause_on_start_
          /\ UNCHANGED <<frames, pool_, task_running_, is_paused_on_start_, is_paused_on_exit_>>
      BY <2>3 DEF TaskCallback, ShouldPauseOnStart
    <3>2. StackOK(frames') /\ Root' = "none" /\ Root = "none"
      BY <1>0, <1>2, <3>1 DEF Root
    <3>3. TaskTypes' BY <1>0, <3>1, TypeParts DEF TaskTypes
    <3>4. Placed' BY <1>0, <1>1, <1>2, <3>1, <3>2 DEF Placed, TaskRet
    <3>5. Paused' BY <1>0, <1>1, <2>3, <3>1, <3>2 DEF Paused, flags
    <3>6. Served' BY <1>2, <3>1 DEF Served
    <3>7. Dying' BY <1>3 DEF Dying
    <3> QED BY <3>2, <3>3, <3>4, <3>5, <3>6, <3>7 DEF TaskInv
  <2> QED BY <2>1, <2>2, <2>3
<1> QED BY <1>4, <1>5, TypesPrimed DEF IInv, TaskInv

LEMMA PausedLockedSteps ==
    ASSUME IInv, PausedLocked
    PROVE  IInv'
<1> USE Zenon
<1> USE DEF queues, pauses
<1>0. Types /\ Placed /\ Paused BY DEF IInv
<1>1. /\ task \in {"pausing_start", "pausing_exit"}
      /\ UNCHANGED <<queue_, oob_queue_, taken, lastEvent, failed, paused_for_messages_,
                     flags, paused, has_live_ports, closed, posted, events, killed>>
  BY DEF PausedLocked
<1>2. task_running_ /\ pool_ /\ ~closed /\ frames = <<>>
  BY <1>0, <1>1, InUse DEF Placed, Bottom
<1>3. ~killed' BY <1>1, <1>2 DEF IInv, Dying
<1>4. OtherTypes' /\ QueueTypes' BY <1>0, <1>1, TypeParts DEF OtherTypes, QueueTypes, flags
<1>5. is_paused_on_exit_ = FALSE /\ is_paused_on_start_ = FALSE
  BY <1>0, <1>1 DEF Paused, Types
<1>6. TaskInv'
  <2>1. CASE task = "pausing_start"
    <3>1. CallFromTask("start", FALSE, TRUE, FALSE) BY <1>5, <2>1 DEF PausedLocked
    <3> QED BY <1>1, <1>2, <1>3, <3>1, CallsHandle DEF TaskRet
  <2>2. CASE task = "pausing_exit"
    <3>1. CallFromTask("exit_again", FALSE, FALSE, TRUE) BY <1>5, <2>2 DEF PausedLocked
    <3>2. ~should_pause_on_start_ BY <1>0, <2>2 DEF Paused
    <3> QED BY <1>1, <1>2, <1>3, <3>1, <3>2, CallsHandle DEF TaskRet
  <2> QED BY <1>1, <2>1, <2>2
<1> QED BY <1>4, <1>6, TypesPrimed DEF IInv, TaskInv

LEMMA EndCallbackSteps ==
    ASSUME IInv, EndCallback
    PROVE  IInv'
<1> USE Zenon
<1> USE DEF queues, pauses, flags
<1>0. Types /\ Placed BY DEF IInv
<1>1. /\ task = "ending" /\ task' = "none" /\ closed' = TRUE
      /\ queue_' = <<>> /\ oob_queue_' = <<>>
      /\ UNCHANGED <<taken, lastEvent, frames, pool_, task_running_, is_paused_on_start_,
                     is_paused_on_exit_, failed, paused_for_messages_,
                     should_pause_on_start_, should_pause_on_exit_, paused,
                     has_live_ports, posted, events, killed>>
  BY DEF EndCallback
<1>2. ~pool_ /\ ~task_running_ /\ frames = <<>> /\ ~closed
  BY <1>0, <1>1, InUse DEF Placed, Bottom
<1>3. StackOK(frames') /\ Root' = "none" BY <1>1, <1>2 DEF IInv, Root
<1>4. Types'
  <2>1. <<>> \in Seq(Message) /\ Len(<<>>) = 0 BY SMT
  <2> QED BY <1>0, <1>1, <2>1, EmptyWalks, SMT DEF Types
<1>5. Placed' BY <1>1, <1>2, <1>3 DEF Placed, TaskRet
<1>6. Paused' BY <1>1, <1>3 DEF IInv, Paused
<1>7. Served' BY <1>1, <1>2 DEF Served
<1>8. Dying' BY <1>1, <1>2 DEF IInv, Dying
<1> QED BY <1>3, <1>4, <1>5, <1>6, <1>7, <1>8 DEF IInv

-----------------------------------------------------------------------------
(* The steps of a call of HandleMessages.                                  *)

\* The task stands still while the calls on the stack change.
LEMMA KeepsTask ==
    ASSUME IInv, frames # <<>>, StackOK(frames'), frames' # <<>>, Root' = Root,
           UNCHANGED <<task, pool_, task_running_, is_paused_on_start_, is_paused_on_exit_,
                       should_pause_on_start_, should_pause_on_exit_, closed>>,
           killed' => Unwinding(Top)'
    PROVE  TaskInv'
<1> USE Zenon
<1>1. ~closed /\ (task_running_ \/ ~pool_) BY InUse
<1>2. TaskTypes' BY DEF IInv, Types, TaskTypes
<1>3. Placed' BY <1>1 DEF IInv, Placed
<1>4. Paused' BY DEF IInv, Paused
<1>5. Served' BY <1>1 DEF Served
<1>6. Dying' BY DEF Dying
<1> QED BY <1>2, <1>3, <1>4, <1>5, <1>6 DEF TaskInv

\* A call returns to the Dart code below it, or unwinds it.
LEMMA UnwindSteps ==
    ASSUME IInv, frames # <<>>, Top.ret \notin Bottom, NEW fr \in Frame,
           frames' = Unwind(Below, fr)
    PROVE  /\ StackOK(frames') /\ frames' # <<>> /\ Root' = Root
           /\ Len(frames') = Len(frames) - 1
           /\ \A i \in 1 .. Len(frames') : i < Len(frames') => frames'[i] = frames[i]
           /\ Top'.ret = frames[Len(frames')].ret /\ Top'.msg = frames[Len(frames')].msg
           /\ RunsDart(Top'.msg)
           /\ fr.max = "ok" => Top'.phase = "handle"
           /\ fr.max # "ok" => Top'.phase = "handled" /\ Top'.status = fr.sticky
                               /\ Top'.sticky = fr.sticky
<1> USE Zenon
<1> DEFINE b == Below
           n == Len(Below)
           t == Below[Len(Below)]
           y == [t EXCEPT !.phase = "handled", !.status = fr.sticky, !.sticky = fr.sticky]
           x == IF fr.max = "ok" THEN t ELSE y
<1>1. /\ StackOK(b) /\ b # <<>> /\ n = Len(frames) - 1 /\ b[1] = frames[1]
      /\ \A i \in 1 .. n : b[i] = frames[i] /\ b[i].phase = "handle" /\ RunsDart(b[i].msg)
  BY Popped DEF Below, IInv, Top
<1>2. frames' = [b EXCEPT ![n] = x] BY DEF Unwind
<1>3. n = Len(b) OBVIOUS
<1> HIDE DEF b, n
<1>4. b \in Seq(Frame) /\ n \in Nat /\ n # 0 /\ n \in 1 .. n
  <2>1. b \in Seq(Frame) BY <1>1 DEF StackOK
  <2> QED BY <1>1, <1>3, <2>1, SMT
<1>5. /\ t = b[n] /\ t = frames[n] /\ t \in Frame /\ t.phase = "handle" /\ RunsDart(t.msg)
      /\ FrameOK(t) /\ (t.ret \in Bottom <=> n = 1)
  <2>1. t = b[n] BY DEF b, n
  <2>2. b[n] \in Frame BY <1>3, <1>4, SMT
  <2>3. FrameOK(b[n]) /\ (b[n].ret \in Bottom <=> n = 1)
    BY <1>1, <1>3, <1>4 DEF StackOK, Bottom
  <2> HIDE DEF t
  <2> QED BY <1>1, <1>4, <2>1, <2>2, <2>3
<1> HIDE DEF t
<1>6. /\ y \in Frame /\ y.ret = t.ret /\ y.phase = "handled" /\ y.msg = t.msg
      /\ y.normal = t.normal /\ y.multiple = t.multiple
      /\ y.status = fr.sticky /\ y.sticky = fr.sticky
  <2>1. fr.sticky \in Status BY DEF Frame
  <2> QED BY <1>5, <2>1 DEF Frame, Phase
<1> HIDE DEF y
<1>7. /\ x \in Frame /\ x.ret = t.ret /\ x.msg = t.msg /\ FrameOK(x)
      /\ fr.max = "ok" => x.phase = "handle"
      /\ fr.max # "ok" => x.phase = "handled" /\ x.status = fr.sticky /\ x.sticky = fr.sticky
  BY <1>5, <1>6 DEF FrameOK
<1> HIDE DEF x
<1>8. /\ frames' \in Seq(Frame) /\ Len(frames') = n /\ frames'[n] = x /\ frames' # <<>>
      /\ \A i \in 1 .. n - 1 : frames'[i] = b[i]
  BY <1>1, <1>2, <1>3, <1>4, <1>7, TopByExcept, SMT
<1>9. StackOK(frames')
  <2>1. /\ Len(frames') = Len(b) /\ frames'[Len(b)] = x
        /\ \A i \in 1 .. Len(b) - 1 : frames'[i] = b[i]
    BY <1>3, <1>8
  <2>2. x.ret \in Bottom <=> Len(b) = 1 BY <1>3, <1>5, <1>7
  <2> QED BY <1>1, <1>7, <1>8, <2>1, <2>2, TopReplaced
<1>10. Top' = x BY <1>8 DEF Top
<1>11. Root' = Root
  <2>1. Root = frames[1].ret BY InUse
  <2>2. frames'[1].ret = frames[1].ret
    <3>1. CASE n = 1 BY <1>5, <1>7, <1>8, <3>1
    <3>2. CASE n # 1 BY <1>1, <1>4, <1>5, <1>7, <1>8, <3>2, BottomOfRest
    <3> QED BY <3>1, <3>2
  <2> QED BY <1>8, <2>1, <2>2 DEF Root
<1>12. \A i \in 1 .. Len(frames') : i < Len(frames') => frames'[i] = frames[i]
  BY <1>1, <1>4, <1>8, SMT
<1> QED BY <1>1, <1>5, <1>7, <1>8, <1>9, <1>10, <1>11, <1>12

\* The frame on top, a call from Dart code, is replaced by another one.
LEMMA Continued ==
    ASSUME IInv, frames # <<>>, NEW x \in Frame, FrameOK(x), x.ret \in Bottom <=> Top.ret \in Bottom,
           x.ret \in Bottom => x.ret = Top.ret, frames' = Append(Below, x)
    PROVE  /\ StackOK(frames') /\ frames' # <<>> /\ Root' = Root /\ Top' = x
           /\ Len(frames') = Len(frames) /\ \A i \in 1 .. Len(frames) - 1 : frames'[i] = frames[i]
<1> USE Zenon
<1>1. /\ Len(frames) \in Nat /\ Len(frames) # 0 /\ frames \in Seq(Frame)
      /\ (Top.ret \in Bottom <=> Len(frames) = 1) /\ Root = frames[1].ret /\ StackOK(frames)
  BY InUse DEF IInv
<1>2. /\ frames' \in Seq(Frame) /\ Len(frames') = Len(frames) /\ frames'[Len(frames)] = x
      /\ frames' # <<>> /\ \A i \in 1 .. Len(frames) - 1 : frames'[i] = frames[i]
  BY <1>1, TopByAppend DEF Below
<1>3. StackOK(frames') BY <1>1, <1>2, TopReplaced
<1>4. Top' = x BY <1>2 DEF Top
<1>5. frames'[1].ret = frames[1].ret
  <2>1. CASE Len(frames) = 1 BY <1>1, <1>2, <2>1 DEF Top
  <2>2. CASE Len(frames) # 1 BY <1>1, <1>2, <2>2, SMT
  <2> QED BY <2>1, <2>2
<1>6. Root' = Root BY <1>1, <1>2, <1>5 DEF Root
<1> QED BY <1>2, <1>3, <1>4, <1>6

LEMMA CallFrame ==
    ASSUME NEW ret \in {"wait", "wait_oob", "wait_all", "oob"}, NEW phase \in {"waiting", "enter"},
           NEW all \in BOOLEAN, phase = "waiting" <=> ret = "wait",
           ret \in {"wait", "wait_oob"} => ~all
    PROVE  /\ NewFrame(ret, phase, all, all) \in Frame /\ FrameOK(NewFrame(ret, phase, all, all))
           /\ NewFrame(ret, phase, all, all).ret = ret
           /\ NewFrame(ret, phase, all, all).phase = phase /\ ret \notin Bottom
<1>1. ret \in Ret /\ phase \in Phase /\ ret \notin Bottom BY Zenon DEF Ret, Phase, Bottom, TaskRet
<1> DEFINE x == NewFrame(ret, phase, all, all)
<1>2. x \in Frame /\ x.ret = ret /\ x.phase = phase /\ x.normal = all
  BY <1>1, NewFrameFields
<1> HIDE DEF x
<1>3. FrameOK(x) BY <1>2, Zenon DEF FrameOK
<1> QED BY <1>1, <1>2, <1>3, Zenon DEF x

\* Dart code calls HandleMessages, or waits.
LEMMA DartCalls ==
    ASSUME IInv, HasTop("handle"), RunsDart(Top.msg), Len(frames) < MaxDepth,
           NEW x \in Frame, FrameOK(x), x.ret \notin Bottom, frames' = Append(frames, x)
    PROVE  /\ StackOK(frames') /\ frames' # <<>> /\ Root' = Root /\ Top' = x
           /\ Len(frames') = Len(frames) + 1 /\ \A i \in 1 .. Len(frames) : frames'[i] = frames[i]
<1> USE Zenon
<1>1. frames # <<>> /\ Top.phase = "handle" BY DEF HasTop
<1>2. StackOK(frames') /\ frames' # <<>> /\ frames'[Len(frames')] = x /\ frames'[1] = frames[1]
  BY <1>1, Pushed DEF IInv, Top
<1>3. frames \in Seq(Frame) BY DEF IInv, StackOK
<1>4. Len(frames') = Len(frames) + 1 /\ \A i \in 1 .. Len(frames) : frames'[i] = frames[i]
  BY <1>3, SMT
<1> QED BY <1>1, <1>2, <1>4 DEF Top, Root

LEMMA InterruptSteps ==
    ASSUME IInv, HandleOOBMessages
    PROVE  IInv'
<1> USE Zenon
<1> USE DEF queues, taskVars, pauses, flags
<1> DEFINE x == NewFrame("oob", "enter", FALSE, FALSE)
<1>1. /\ HasTop("handle") /\ RunsDart(Top.msg) /\ Len(frames) < MaxDepth
      /\ frames' = Append(frames, x)
      /\ UNCHANGED <<queue_, oob_queue_, taken, lastEvent, task, pool_, task_running_,
                     is_paused_on_start_, is_paused_on_exit_, failed, paused_for_messages_,
                     should_pause_on_start_, should_pause_on_exit_, paused, has_live_ports,
                     closed, posted, events, killed>>
  BY DEF HandleOOBMessages, Calling
<1>2. x \in Frame /\ FrameOK(x) /\ x.ret = "oob" /\ "oob" \notin Bottom BY CallFrame
<1> HIDE DEF x
<1>3. StackOK(frames') /\ frames' # <<>> /\ Root' = Root BY <1>1, <1>2, DartCalls
<1>4. frames # <<>> /\ ~killed' BY <1>1 DEF HasTop, IInv, Dying, Unwinding
<1>5. TaskInv' BY <1>1, <1>3, <1>4, KeepsTask
<1>6. Types' BY <1>1, SMT DEF IInv, Types
<1> QED BY <1>5, <1>6 DEF IInv, TaskInv

LEMMA WaitSteps ==
    ASSUME IInv, PauseAndHandleAllMessages
    PROVE  IInv'
<1> USE Zenon
<1> USE DEF queues, taskVars, pauses, flags
<1> DEFINE empty == queue_ = <<>> /\ oob_queue_ = <<>>
           x == IF empty THEN NewFrame("wait", "waiting", FALSE, FALSE)
                         ELSE NewFrame("wait_all", "enter", TRUE, TRUE)
<1>1. /\ HasTop("handle") /\ RunsDart(Top.msg) /\ Len(frames) + 1 < MaxDepth
      /\ frames' = Append(frames, x) /\ paused_for_messages_' = empty
      /\ UNCHANGED <<queue_, oob_queue_, taken, lastEvent, task, pool_, task_running_,
                     is_paused_on_start_, is_paused_on_exit_, failed,
                     should_pause_on_start_, should_pause_on_exit_, paused, has_live_ports,
                     closed, posted, events, killed>>
  BY DEF PauseAndHandleAllMessages, Calling
<1>2. paused_for_messages_' \in BOOLEAN BY <1>1
<1>3. x \in Frame /\ FrameOK(x) /\ x.ret \notin Bottom
  <2>1. CASE empty BY <2>1, CallFrame
  <2>2. CASE ~empty BY <2>2, CallFrame
  <2> QED BY <2>1, <2>2
<1> HIDE DEF x, empty
<1>4. frames # <<>> /\ ~killed' BY <1>1 DEF HasTop, IInv, Dying, Unwinding
<1>5. Len(frames) < MaxDepth BY <1>1, <1>4, InUse, BoundAssumption, SMT
<1>6. StackOK(frames') /\ frames' # <<>> /\ Root' = Root BY <1>1, <1>3, <1>5, DartCalls
<1>7. TaskInv' BY <1>1, <1>4, <1>6, KeepsTask
<1>8. Types' BY <1>1, <1>2, SMT DEF IInv, Types
<1> QED BY <1>7, <1>8 DEF IInv, TaskInv

\* PauseAndHandleAllMessages goes on with x.
LEMMA WaitLoopSteps ==
    ASSUME IInv, frames # <<>>, Top.ret \notin Bottom, NEW empty \in BOOLEAN,
           WaitLoop(Below, empty)
    PROVE  /\ StackOK(frames') /\ frames' # <<>> /\ Root' = Root
           /\ paused_for_messages_' \in BOOLEAN /\ Len(frames') = Len(frames)
           /\ \A i \in 1 .. Len(frames) - 1 : frames'[i] = frames[i]
           /\ empty => /\ Top'.ret = "wait" /\ Top'.phase = "waiting"
                       /\ UNCHANGED paused_for_messages_
           /\ ~empty => Top'.ret = "wait_all" /\ Top'.phase = "enter"
<1> USE Zenon
<1> DEFINE x == IF empty THEN NewFrame("wait", "waiting", FALSE, FALSE)
                         ELSE NewFrame("wait_all", "enter", TRUE, TRUE)
<1>1. /\ frames' = Append(Below, x)
      /\ paused_for_messages_' = IF empty THEN paused_for_messages_ ELSE FALSE
  BY DEF WaitLoop, Calling
<1>2. paused_for_messages_' \in BOOLEAN /\ (empty => UNCHANGED paused_for_messages_)
  BY <1>1 DEF IInv, Types
<1>3. /\ x \in Frame /\ FrameOK(x) /\ x.ret \notin Bottom
      /\ empty => x.ret = "wait" /\ x.phase = "waiting"
      /\ ~empty => x.ret = "wait_all" /\ x.phase = "enter"
  <2>1. CASE empty BY <2>1, CallFrame
  <2>2. CASE ~empty BY <2>2, CallFrame
  <2> QED BY <2>1, <2>2
<1> HIDE DEF x
<1> QED BY <1>1, <1>2, <1>3, Continued

LEMMA WaitReturnSteps ==
    ASSUME IInv, WaitReturns
    PROVE  IInv'
<1> USE Zenon
<1> USE DEF queues, taskVars, pauses, flags
<1>1. UNCHANGED <<queue_, oob_queue_, taken, lastEvent, task, pool_, task_running_,
                     is_paused_on_start_, is_paused_on_exit_, failed,
                     should_pause_on_start_, should_pause_on_exit_, paused, has_live_ports,
                     closed, posted, events, killed>>
  BY DEF WaitReturns
<1>2. frames # <<>> /\ Top.phase \in {"woken", "timed_out"} BY DEF WaitReturns, HasTop
<1>3. ~killed' BY <1>1, <1>2 DEF IInv, Dying, Unwinding
<1>4. Top.ret = "wait" /\ "wait" \notin Bottom BY <1>2, InUse DEF FrameOK, Bottom, TaskRet
<1>5. StackOK(frames') /\ frames' # <<>> /\ Root' = Root /\ paused_for_messages_' \in BOOLEAN
  <2>1. CASE Top.phase = "woken" /\ queue_ = <<>>
    <3> DEFINE x == NewFrame("wait_oob", "enter", FALSE, FALSE)
    <3>1. frames' = Append(Below, x) /\ UNCHANGED paused_for_messages_
      BY <2>1 DEF WaitReturns, Calling
    <3>2. x \in Frame /\ FrameOK(x) /\ x.ret = "wait_oob" /\ "wait_oob" \notin Bottom
      BY CallFrame
    <3> HIDE DEF x
    <3>3. paused_for_messages_' \in BOOLEAN BY <3>1 DEF IInv, Types
    <3> QED BY <1>2, <1>4, <3>1, <3>2, <3>3, Continued
  <2>2. CASE ~(Top.phase = "woken" /\ queue_ = <<>>)
    <3>1. WaitLoop(Below, FALSE) BY <2>2 DEF WaitReturns
    <3> QED BY <1>2, <1>4, <3>1, WaitLoopSteps
  <2> QED BY <2>1, <2>2
<1>6. TaskInv' BY <1>1, <1>2, <1>3, <1>5, KeepsTask
<1>7. Types' BY <1>1, <1>5, SMT DEF IInv, Types
<1> QED BY <1>6, <1>7 DEF IInv, TaskInv

\* The call on top has taken a message from a queue.
LEMMA TakeSteps ==
    ASSUME IInv, frames # <<>>, ~killed', NEW fr \in Frame, fr.ret = Top.ret, fr.ret # "wait",
           fr.ret = "main" => fr.normal /\ fr.multiple, fr.ret = "wait_oob" => ~fr.normal,
           NEW m \in Message, IsOOB(m) \/ fr.normal, Take(m, fr),
           UNCHANGED <<should_pause_on_start_, should_pause_on_exit_, closed>>
    PROVE  /\ TaskInv' /\ failed' = failed /\ paused_for_messages_' = paused_for_messages_
           /\ taken' = taken + 1 /\ taken' \in Nat /\ lastEvent' \in Nat
           /\ lastEvent' = (IF m.kind = "event" THEN m.id ELSE lastEvent)
           /\ frames' # <<>> /\ Len(frames') = Len(frames)
           /\ \A i \in 1 .. Len(frames) - 1 : frames'[i] = frames[i]
           /\ Top'.phase = "handle" /\ Top'.msg = m /\ Top'.ret = Top.ret
<1> USE Zenon
<1> USE DEF taskVars, pauses
<1> DEFINE x == [fr EXCEPT !.phase = "handle", !.msg = m]
<1>1. /\ x \in Frame /\ x.ret = fr.ret /\ x.phase = "handle" /\ x.msg = m
      /\ x.normal = fr.normal /\ x.multiple = fr.multiple
  BY DEF Frame, Phase
<1>2. /\ frames' = Append(Below, x) /\ taken' = taken + 1
      /\ lastEvent' = (IF m.kind = "event" THEN m.id ELSE lastEvent)
      /\ UNCHANGED <<task, pool_, task_running_, is_paused_on_start_, is_paused_on_exit_,
                     failed, paused_for_messages_>>
  BY DEF Take
<1> HIDE DEF x
<1>3. FrameOK(x) BY <1>1 DEF FrameOK
<1>4. /\ StackOK(frames') /\ frames' # <<>> /\ Root' = Root /\ Top' = x
      /\ Len(frames') = Len(frames) /\ \A i \in 1 .. Len(frames) - 1 : frames'[i] = frames[i]
  BY <1>1, <1>2, <1>3, Continued
<1>5. TaskInv' BY <1>2, <1>4, KeepsTask
<1>6. taken' \in Nat /\ lastEvent' \in Nat
  <2>1. m.id \in 1 .. MaxMessages BY DEF Message
  <2> QED BY <1>2, <2>1, BoundAssumption, SMT DEF IInv, Types
<1> QED BY <1>1, <1>2, <1>4, <1>5, <1>6

\* The call on top returns to the task.
LEMMA ReturnToTaskSteps ==
    ASSUME IInv, frames # <<>>, NEW ret \in TaskRet, Root = ret, NEW status \in Status,
           ReturnToTask(ret, status), killed' => status = "shutdown",
           oob_queue_' = <<>>, ret = "main" /\ status = "ok" => queue_' = <<>> \/ paused',
           UNCHANGED <<flags, closed>>
    PROVE  TaskInv' /\ failed' \in BOOLEAN
<1> USE Zenon
<1>0. Types /\ Placed /\ Paused BY DEF IInv
<1>1. pool_ /\ task_running_ /\ ~closed BY <1>0, InUse DEF Placed
<1>2. failed' \in BOOLEAN
  <2>1. failed' = (failed \/ status # "ok") BY DEF ReturnToTask
  <2> QED BY <2>1
<1>3. CASE ret = "start"
  <2>1. is_paused_on_start_ /\ ~is_paused_on_exit_ /\ is_paused_on_exit_ = FALSE
    BY <1>0, <1>3 DEF Paused, Types
  <2>2. CASE ShouldPauseOnStart(status)
    <3>1. EndTask(TRUE, FALSE) BY <1>3, <2>1, <2>2 DEF ReturnToTask
    <3>2. should_pause_on_start_ /\ status # "shutdown" BY <2>2 DEF ShouldPauseOnStart
    <3> QED BY <1>1, <1>2, <3>1, <3>2, EndsTask
  <2>3. CASE ~ShouldPauseOnStart(status)
    <3>1. HandleOrExit(status, FALSE, FALSE)
      BY <1>3, <2>1, <2>3 DEF ReturnToTask, CheckPausedOnExit
    <3>2. status # "shutdown" => ~should_pause_on_start_ BY <2>3 DEF ShouldPauseOnStart
    <3> QED BY <1>1, <1>2, <3>1, <3>2, HandleOrExitSteps
  <2> QED BY <2>2, <2>3
<1>4. CASE ret \in {"exit", "exit_again"}
  <2>1. /\ is_paused_on_exit_ /\ ~is_paused_on_start_ /\ is_paused_on_start_ = FALSE
        /\ ~should_pause_on_start_
    BY <1>0, <1>4 DEF Paused, Types
  <2>2. CASE ShouldPauseOnExit(status)
    <3>1. EndTask(FALSE, TRUE) BY <1>4, <2>1, <2>2 DEF ReturnToTask
    <3>2. should_pause_on_exit_ /\ status # "shutdown" BY <2>2 DEF ShouldPauseOnExit
    <3> QED BY <1>1, <1>2, <2>1, <3>1, <3>2, EndsTask
  <2>3. CASE ~ShouldPauseOnExit(status) /\ ret = "exit"
    <3>1. HandleOrExit(status, FALSE, FALSE) BY <2>1, <2>3 DEF ReturnToTask, ResumedFromExit
    <3> QED BY <1>1, <1>2, <2>1, <3>1, HandleOrExitSteps
  <2>4. CASE ~ShouldPauseOnExit(status) /\ ret = "exit_again"
    <3>1. Stop(FALSE, FALSE) BY <2>1, <2>4 DEF ReturnToTask
    <3> QED BY <1>1, <1>2, <3>1, StopsTask
  <2> QED BY <1>4, <2>2, <2>3, <2>4
<1>5. CASE ret = "main"
  <2>1. ~should_pause_on_start_ /\ is_paused_on_start_ = FALSE /\ is_paused_on_exit_ = FALSE
    BY <1>0, <1>5 DEF Paused, Types
  <2>2. ExitOrIdle(status, FALSE, FALSE) BY <1>5, <2>1 DEF ReturnToTask
  <2> QED BY <1>1, <1>2, <1>5, <2>1, <2>2, ExitOrIdleSteps
<1> QED BY <1>3, <1>4, <1>5 DEF TaskRet

\* The call on top returns to its caller.
LEMMA ReturnSteps ==
    ASSUME IInv, frames # <<>>, NEW fr \in Frame, fr.ret = Top.ret, Return(fr),
           killed' => fr.max = "shutdown" /\ fr.sticky = "shutdown",
           oob_queue_' = <<>>, UNCHANGED <<queue_, paused>>,
           fr.ret = "main" /\ fr.max = "ok" => queue_ = <<>> \/ paused,
           UNCHANGED <<flags, closed>>
    PROVE  TaskInv' /\ failed' \in BOOLEAN /\ paused_for_messages_' \in BOOLEAN
<1> USE Zenon
<1> USE DEF taskVars, pauses
<1>0. Types /\ Placed /\ Paused BY DEF IInv
<1>1. CASE fr.ret \in TaskRet
  <2>1. Len(frames) = 1 /\ Root = frames[1].ret /\ Top.ret = Root
    BY <1>1, InUse DEF Bottom, Top
  <2>2. ReturnToTask(fr.ret, fr.max) /\ UNCHANGED paused_for_messages_
    BY <1>1 DEF Return, TaskRet
  <2>3. fr.max \in Status BY DEF Frame
  <2>4. paused_for_messages_' \in BOOLEAN BY <1>0, <2>2 DEF Types
  <2> QED BY <1>1, <2>1, <2>2, <2>3, <2>4, ReturnToTaskSteps
<1>2. CASE fr.ret = "next"
  <2>1. Len(frames) = 1 /\ Root = frames[1].ret /\ Top.ret = Root
    BY <1>2, InUse DEF Bottom, Top
  <2>2. /\ frames' = <<>> /\ task' = IF fr.max = "ok" THEN "none" ELSE "ending"
        /\ UNCHANGED <<pool_, task_running_, is_paused_on_start_, is_paused_on_exit_, failed,
                       paused_for_messages_>>
    BY <1>2 DEF Return, TaskRet
  <2>3. task = "none" /\ ~pool_ /\ ~closed /\ ~task_running_
    BY <1>0, <1>2, <2>1 DEF Placed
  <2>4. ~is_paused_on_start_ /\ ~is_paused_on_exit_ BY <1>0, <2>3 DEF Paused
  <2>5. StackOK(frames') /\ Root' = "none" BY <2>2, EmptyStack DEF Root
  <2>6. task' \in {"none", "ending"} BY <2>2
  <2>7. TaskTypes' BY <1>0, <2>2, <2>6 DEF Types, TaskTypes
  <2>8. Placed' BY <1>0, <2>2, <2>3, <2>5, <2>6 DEF Placed, TaskRet
  <2>9. Paused' BY <2>2, <2>4, <2>5, <2>6 DEF Paused
  <2>10. Served' BY <2>2, <2>3 DEF Served
  <2>11. Dying' BY <2>2 DEF Dying
  <2>12. failed' \in BOOLEAN /\ paused_for_messages_' \in BOOLEAN BY <1>0, <2>2 DEF Types
  <2> QED BY <2>5, <2>7, <2>8, <2>9, <2>10, <2>11, <2>12 DEF TaskInv
<1>3. CASE fr.ret \notin TaskRet /\ fr.ret # "next"
  <2>1. Top.ret \notin Bottom BY <1>3 DEF Bottom
  <2>2. UNCHANGED <<task, pool_, task_running_, is_paused_on_start_, is_paused_on_exit_, failed>>
    BY <1>3 DEF Return
  <2>3. CASE frames' = Unwind(Below, fr) /\ paused_for_messages_' \in {paused_for_messages_, FALSE}
    <3>1. /\ StackOK(frames') /\ frames' # <<>> /\ Root' = Root
          /\ fr.max # "ok" => /\ Top'.phase = "handled" /\ Top'.status = fr.sticky
                              /\ Top'.sticky = fr.sticky
      BY <2>1, <2>3, UnwindSteps
    <3>2. killed' => Unwinding(Top)' BY <3>1 DEF Unwinding
    <3>3. TaskInv' BY <2>2, <3>1, <3>2, KeepsTask DEF flags
    <3>4. failed' \in BOOLEAN /\ paused_for_messages_' \in BOOLEAN
      BY <1>0, <2>2, <2>3 DEF Types
    <3> QED BY <3>3, <3>4
  <2>4. CASE fr.max = "ok" /\ WaitLoop(Below, queue_ = <<>>)
    <3> DEFINE empty == queue_ = <<>>
    <3>1. empty \in BOOLEAN /\ WaitLoop(Below, empty) BY <2>4
    <3> HIDE DEF empty
    <3>2. /\ StackOK(frames') /\ frames' # <<>> /\ Root' = Root
          /\ paused_for_messages_' \in BOOLEAN
      BY <2>1, <3>1, WaitLoopSteps
    <3>3. TaskInv' BY <2>2, <2>4, <3>2, KeepsTask DEF flags
    <3>4. failed' \in BOOLEAN BY <1>0, <2>2 DEF Types
    <3> QED BY <3>2, <3>3, <3>4
  <2> QED BY <1>3, <2>3, <2>4 DEF Return
<1> QED BY <1>1, <1>2, <1>3

\* The rest of the queue.
LEMMA Rest ==
    ASSUME NEW q \in Seq(Message), q # <<>>
    PROVE  /\ Head(q) \in Message /\ Head(q) = q[1] /\ Len(q) \in Nat /\ Len(q) # 0
           /\ Tail(q) \in Seq(Message) /\ Len(Tail(q)) = Len(q) - 1
           /\ \A i \in 1 .. Len(q) - 1 : Tail(q)[i] = q[i + 1]
<1>1. /\ Head(q) \in Message /\ Tail(q) \in Seq(Message) /\ Len(Tail(q)) = Len(q) - 1
      /\ \A i \in 1 .. Len(Tail(q)) : Tail(q)[i] = q[i + 1]
  OBVIOUS
<1>2. Head(q) = q[1] /\ Len(q) \in Nat /\ Len(q) # 0 OBVIOUS
<1> QED BY <1>1, <1>2, Zenon

LEMMA WalksTail ==
    ASSUME NEW q \in Seq(Message), q # <<>>, WalksEnd(q)
    PROVE  WalksEnd(Tail(q))
<1> DEFINE e == Tail(q)
<1>0. /\ Len(q) \in Nat /\ Len(q) # 0 /\ Len(e) = Len(q) - 1
      /\ \A i \in 1 .. Len(q) - 1 : e[i] = q[i + 1]
  BY Rest, Zenon
<1> HIDE DEF e
<1>1. ASSUME NEW j \in 1 .. Len(e) + 1 PROVE \E k \in j .. Len(e) + 1 : Walk(e, j, k)
  <2>1. j + 1 \in 1 .. Len(q) + 1 BY <1>0
  <2>2. PICK k \in j + 1 .. Len(q) + 1 : Walk(q, j + 1, k) BY <2>1, Zenon DEF WalksEnd
  <2>3. k - 1 \in j .. Len(e) + 1 BY <1>0, <2>1
  <2>4. ASSUME NEW i \in j .. (k - 1) - 1 PROVE IsLib(e[i])
    <3>1. i \in 1 .. Len(q) - 1 /\ i + 1 \in j + 1 .. k - 1 BY <1>0, <2>1
    <3> QED BY <1>0, <2>2, <3>1, Zenon DEF Walk
  <2>5. ASSUME k - 1 <= Len(e) PROVE ~IsLib(e[k - 1])
    <3>1. k - 1 \in 1 .. Len(q) - 1 /\ (k - 1) + 1 = k BY <1>0, <2>1, <2>5
    <3> QED BY <1>0, <2>2, <3>1 DEF Walk
  <2>6. Walk(e, j, k - 1) BY <2>4, <2>5, Zenon DEF Walk
  <2> QED BY <2>3, <2>6, Zenon
<1>2. WalksEnd(e) BY <1>1, Zenon DEF WalksEnd
<1> QED BY <1>2, Zenon DEF e

LEMMA DequeueSteps ==
    ASSUME IInv, frames # <<>>, ~killed, NEW fr \in Frame, fr.ret = Top.ret, fr.ret # "wait",
           fr.ret = "main" => fr.normal /\ fr.multiple, fr.ret = "wait_oob" => ~fr.normal,
           DequeueMessage(fr),
           UNCHANGED <<flags, paused, has_live_ports, closed, posted, events, killed>>
    PROVE  IInv'
<1> USE Zenon
<1> USE DEF flags
<1>0. Types BY DEF IInv
<1>1. CASE oob_queue_ # <<>>
  <2> DEFINE m == Head(oob_queue_)
  <2>1. Take(m, fr) /\ oob_queue_' = Tail(oob_queue_) /\ UNCHANGED queue_
    BY <1>1 DEF DequeueMessage
  <2>2. m \in Message /\ IsOOB(m) BY <1>0, <1>1, Rest, SMT DEF Types
  <2> HIDE DEF m
  <2>3. TaskInv' /\ failed' = failed /\ paused_for_messages_' = paused_for_messages_
        /\ taken' \in Nat /\ lastEvent' \in Nat
    BY <2>1, <2>2, TakeSteps
  <2>4. oob_queue_' \in Seq(Message) /\ \A i \in 1 .. Len(oob_queue_') : IsOOB(oob_queue_'[i])
    BY <1>0, <1>1, <2>1, Rest, SMT DEF Types
  <2>5. QueueTypes' BY <1>0, <2>1, <2>4 DEF Types, QueueTypes
  <2>6. OtherTypes' BY <1>0, <2>3 DEF Types, OtherTypes
  <2> QED BY <2>3, <2>5, <2>6, TypesPrimed DEF TaskInv, IInv
<1>2. CASE oob_queue_ = <<>> /\ queue_ # <<>> /\ AllowNormal(fr)
  <2> DEFINE m == Head(queue_)
  <2>1. Take(m, fr) /\ queue_' = Tail(queue_) /\ UNCHANGED oob_queue_ /\ fr.normal
    BY <1>2 DEF DequeueMessage, AllowNormal
  <2>2. m \in Message BY <1>0, <1>2, Rest DEF Types
  <2> HIDE DEF m
  <2>3. TaskInv' /\ failed' = failed /\ paused_for_messages_' = paused_for_messages_
        /\ taken' \in Nat /\ lastEvent' \in Nat
    BY <2>1, <2>2, TakeSteps
  <2>4. queue_' \in Seq(Message) /\ \A i \in 1 .. Len(queue_') : ~IsOOB(queue_'[i])
    BY <1>0, <1>2, <2>1, Rest, SMT DEF Types
  <2>w. WalksEnd(queue_') BY <1>0, <1>2, <2>1, WalksTail DEF Types
  <2>5. QueueTypes' BY <1>0, <2>1, <2>4, <2>w DEF Types, QueueTypes
  <2>6. OtherTypes' BY <1>0, <2>3 DEF Types, OtherTypes
  <2> QED BY <2>3, <2>5, <2>6, TypesPrimed DEF TaskInv, IInv
<1>3. CASE oob_queue_ = <<>> /\ ~(queue_ # <<>> /\ AllowNormal(fr))
  <2>1. Return(fr) /\ UNCHANGED <<queue_, oob_queue_, taken, lastEvent>>
    BY <1>3 DEF DequeueMessage, queues
  <2>2. fr.ret = "main" /\ fr.max = "ok" => queue_ = <<>> \/ paused
    BY <1>3 DEF AllowNormal
  <2>3. TaskInv' /\ failed' \in BOOLEAN /\ paused_for_messages_' \in BOOLEAN
    BY <1>3, <2>1, <2>2, ReturnSteps
  <2>4. OtherTypes' /\ QueueTypes' BY <1>0, <2>1, <2>3 DEF Types, OtherTypes, QueueTypes
  <2> QED BY <2>3, <2>4, TypesPrimed DEF TaskInv, IInv
<1> QED BY <1>1, <1>2, <1>3

LEMMA HandleMessagesSteps ==
    ASSUME IInv, HandleMessages
    PROVE  IInv'
<1> USE Zenon
<1>1. frames # <<>> /\ Top.phase = "enter" /\ ~killed
  BY DEF HandleMessages, HasTop, IInv, Dying, Unwinding
<1>2. /\ Top \in Frame /\ Top.ret # "wait" /\ (Top.ret = "main" => Top.normal /\ Top.multiple)
      /\ Top.ret = "wait_oob" => ~Top.normal
  BY <1>1, InUse DEF FrameOK
<1> QED BY <1>1, <1>2, DequeueSteps DEF HandleMessages

LEMMA MessageHandledSteps ==
    ASSUME IInv, MessageHandled
    PROVE  IInv'
<1> USE Zenon
<1> USE DEF flags
<1>0. Types BY DEF IInv
<1> DEFINE t == Top
           s == Worse(Top.max, Top.status)
           b == Top.normal /\ (Top.multiple \/ IsOOB(Top.msg))
           fr == [t EXCEPT !.max = s, !.normal = b]
<1>1. /\ frames # <<>> /\ Top.phase = "handled"
      /\ UNCHANGED <<flags, paused, has_live_ports, closed, posted, events, killed>>
      /\ IF EndsLoop(Top.status)
         THEN /\ oob_queue_' = <<>> /\ Return(fr) /\ UNCHANGED <<queue_, taken, lastEvent>>
         ELSE DequeueMessage(fr)
  BY DEF MessageHandled, HasTop
<1>2. /\ Top \in Frame /\ Top.ret # "wait" /\ (Top.ret = "main" => Top.normal /\ Top.multiple)
      /\ Top.ret = "wait_oob" => ~Top.normal
  BY <1>1, InUse DEF FrameOK
<1>3. s \in Status /\ b \in BOOLEAN /\ t \in Frame /\ (Top.status = "shutdown" => s = "shutdown")
  BY <1>2 DEF Frame, Worse, Status
<1> HIDE DEF t, s, b
<1>4. /\ fr \in Frame /\ fr.ret = t.ret /\ fr.multiple = t.multiple
      /\ fr.max = s /\ fr.normal = b /\ fr.sticky = t.sticky
  BY <1>3 DEF Frame
<1> HIDE DEF fr
<1>5. /\ fr.ret = Top.ret /\ fr.ret # "wait" /\ (fr.ret = "main" => fr.normal /\ fr.multiple)
      /\ fr.ret = "wait_oob" => ~fr.normal
  BY <1>2, <1>4 DEF t, b
<1>6. CASE EndsLoop(Top.status)
  <2>1. oob_queue_' = <<>> /\ Return(fr) /\ UNCHANGED <<queue_, taken, lastEvent>>
    BY <1>1, <1>6
  <2>2. fr.max = "shutdown" BY <1>3, <1>4, <1>6 DEF EndsLoop
  <2>3. killed' => fr.sticky = "shutdown" BY <1>1, <1>4 DEF IInv, Dying, Unwinding, t
  <2>4. TaskInv' /\ failed' \in BOOLEAN /\ paused_for_messages_' \in BOOLEAN
    BY <1>1, <1>4, <1>5, <2>1, <2>2, <2>3, ReturnSteps
  <2>5. QueueTypes'
    <3>1. <<>> \in Seq(Message) /\ Len(<<>>) = 0 BY SMT
    <3> QED BY <1>0, <2>1, <3>1, SMT DEF Types, QueueTypes
  <2>6. OtherTypes' BY <1>0, <1>1, <2>1, <2>4 DEF Types, OtherTypes
  <2> QED BY <2>4, <2>5, <2>6, TypesPrimed DEF TaskInv, IInv
<1>7. CASE ~EndsLoop(Top.status)
  <2>1. ~killed BY <1>1, <1>7 DEF EndsLoop, IInv, Dying, Unwinding
  <2> QED BY <1>1, <1>4, <1>5, <1>7, <2>1, DequeueSteps
<1> QED BY <1>6, <1>7

\* A message that is put into queue_ is one, marked as delayed.
LEMMA DelayedMessage ==
    ASSUME NEW m \in Message, m.kind \in {"before", "late"}
    PROVE  /\ Delayed(m) \in Message /\ Delayed(m).id = m.id /\ IsLib(Delayed(m))
           /\ ~IsOOB(Delayed(m)) /\ (Delayed(m).kind = "lib_before" <=> BeforeEvents(m))
<1> USE Zenon
<1>1. Delayed(m) = [m EXCEPT !.kind = IF m.kind = "before" THEN "lib_before" ELSE "lib_late"]
  BY DEF Delayed
<1> DEFINE k == IF m.kind = "before" THEN "lib_before" ELSE "lib_late"
           d == [m EXCEPT !.kind = k]
<1>2. k \in LibKind /\ k \in Kind /\ k \notin OOBKind /\ (k = "lib_before" <=> BeforeEvents(m))
  BY DEF LibKind, Kind, OOBKind, BeforeEvents
<1> HIDE DEF k
<1>3. d \in Message /\ d.id = m.id /\ d.kind = k BY <1>2 DEF Message
<1> HIDE DEF d
<1>4. Delayed(m) = d BY <1>1 DEF d, k
<1> QED BY <1>2, <1>3, <1>4 DEF IsLib, IsOOB

\* Where HandleDelayed puts the message.
LEMMA DelayedInto ==
    ASSUME IInv, HandleDelayed
    PROVE  /\ Top.msg \in Message /\ Top.msg.kind \in {"before", "late"}
           /\ Inserted(queue_, queue_', Delayed(Top.msg),
                       IF BeforeEvents(Top.msg) THEN LeadingLib(queue_) ELSE Len(queue_))
<1> USE Zenon
<1>1. frames # <<>> /\ Top.msg.kind \in {"before", "late"}
      /\ queue_' = Enqueue(queue_, Delayed(Top.msg), BeforeEvents(Top.msg))
  BY DEF HandleDelayed, Handling, HasTop
<1>2. Top.msg \in Message BY <1>1, InUse DEF Frame
<1>3. queue_ \in Seq(Message) /\ WalksEnd(queue_) BY DEF IInv, Types
<1>4. Delayed(Top.msg) \in Message BY <1>1, <1>2, DelayedMessage
<1>5. BeforeEvents(Top.msg) \in BOOLEAN BY DEF BeforeEvents
<1>6. CASE BeforeEvents(Top.msg)
  <2>1. queue_' = Enqueue(queue_, Delayed(Top.msg), TRUE) BY <1>1, <1>6 DEF Enqueue
  <2> QED BY <1>1, <1>2, <1>3, <1>4, <1>6, <2>1, Spliced
<1>7. CASE ~BeforeEvents(Top.msg)
  <2>1. queue_' = Enqueue(queue_, Delayed(Top.msg), FALSE) BY <1>1, <1>7 DEF Enqueue
  <2> QED BY <1>1, <1>2, <1>3, <1>4, <1>7, <2>1, Appended
<1> QED BY <1>6, <1>7

LEMMA DelaySteps ==
    ASSUME IInv, HandleDelayed
    PROVE  IInv'
<1> USE Zenon
<1> USE DEF taskVars, pauses, flags
<1>0. Types BY DEF IInv
<1>1. /\ HasTop("handle") /\ Finish("ok", "ok")
      /\ UNCHANGED <<oob_queue_, taken, lastEvent, task, pool_, task_running_,
                     is_paused_on_start_, is_paused_on_exit_, failed, paused_for_messages_,
                     should_pause_on_start_, should_pause_on_exit_, paused, has_live_ports,
                     closed, posted, events, killed>>
  BY DEF HandleDelayed, Handling
<1>2. StackOK(frames') /\ frames' # <<>> /\ Root' = Root
  BY <1>1, Finished DEF Status
<1>3. frames # <<>> /\ ~killed' BY <1>1 DEF HasTop, IInv, Dying, Unwinding
<1>4. TaskInv' BY <1>1, <1>2, <1>3, KeepsTask
<1>5. OtherTypes' BY <1>0, <1>1 DEF Types, OtherTypes
<1>6. QueueTypes'
  <2> DEFINE m == Delayed(Top.msg)
             n == IF BeforeEvents(Top.msg) THEN LeadingLib(queue_) ELSE Len(queue_)
             K == Kind \ OOBKind
  <2>1. Inserted(queue_, queue_', m, n) BY DelayedInto
  <2>2. m \in Message /\ m.kind \in K
    BY DelayedInto, DelayedMessage DEF IsOOB, Message
  <2>3. n \in 0 .. Len(queue_) BY <1>0, LeadingLibDef, SMT DEF Types
  <2>4. queue_ \in Seq(Message) /\ \A i \in 1 .. Len(queue_) : queue_[i].kind \in K
    <3>1. queue_ \in Seq(Message) /\ \A i \in 1 .. Len(queue_) : ~IsOOB(queue_[i])
      BY <1>0 DEF Types
    <3>2. ASSUME NEW i \in 1 .. Len(queue_) PROVE queue_[i].kind \in Kind
      <4>1. queue_[i] \in Message BY <3>1, SMT
      <4> QED BY <4>1 DEF Message
    <3> QED BY <3>1, <3>2 DEF IsOOB
  <2> HIDE DEF m, n, K
  <2>5. queue_' \in Seq(Message) /\ \A i \in 1 .. Len(queue_') : queue_'[i].kind \in K
    BY <2>1, <2>2, <2>3, <2>4, InsertedKind
  <2>6. WalksEnd(queue_') BY <1>0, <2>1, <2>3, WalksInserted DEF Types
  <2> QED BY <1>0, <1>1, <2>5, <2>6 DEF Types, QueueTypes, IsOOB, K
<1> QED BY <1>4, <1>5, <1>6, TypesPrimed DEF IInv, TaskInv

-----------------------------------------------------------------------------
LEMMA InitIInv == Init => IInv
<1> USE Zenon
<1> SUFFICES ASSUME Init PROVE IInv OBVIOUS
<1>1. <<>> \in Seq(Message) /\ Len(<<>>) = 0 BY SMT
<1>2. StackOK(frames) /\ Root = "none" BY EmptyStack DEF Init, Root
<1>3. Types
  <2>1. 0 \in 0 .. MaxMessages /\ 0 \in 0 .. 0 /\ 0 \in Nat BY BoundAssumption, SMT
  <2>2. QueueTypes BY <1>1, EmptyWalks, SMT DEF Init, QueueTypes
  <2>3. OtherTypes BY <2>1 DEF Init, OtherTypes
  <2>4. TaskTypes BY DEF Init, TaskTypes
  <2> QED BY <2>2, <2>3, <2>4, TypeParts
<1>4. Placed BY <1>2 DEF Init, Placed, TaskRet
<1>5. Paused BY <1>2 DEF Init, Paused
<1>6. Served /\ Dying BY DEF Init, Served, Dying
<1> QED BY <1>2, <1>3, <1>4, <1>5, <1>6 DEF IInv

LEMMA StutterIInv == IInv /\ UNCHANGED vars => IInv'
<1> USE Zenon
<1> SUFFICES ASSUME IInv, UNCHANGED vars PROVE IInv' OBVIOUS
<1> USE DEF vars, queues, taskVars, pauses, flags
<1>1. StackOK(frames)' BY DEF IInv
<1>2. Types' BY SMT DEF IInv, Types
<1>3. Placed' BY DEF IInv, Placed, Root
<1>4. Paused' BY DEF IInv, Paused, Root
<1>5. Served' BY DEF IInv, Served
<1>6. Dying' BY DEF IInv, Dying, Unwinding, Top
<1> QED BY <1>1, <1>2, <1>3, <1>4, <1>5, <1>6 DEF IInv

LEMMA NextIInv == IInv /\ [Next]_vars => IInv'
<1> USE Zenon
<1> SUFFICES ASSUME IInv, [Next]_vars PROVE IInv' OBVIOUS
<1>1. CASE Run BY <1>1, RunSteps
<1>2. ASSUME NEW kind \in Posted, PostMessage(kind) PROVE IInv' BY <1>2, PostSteps
<1>3. CASE HandleNextMessage BY <1>3, NextMessageSteps
<1>4. CASE TaskCallback BY <1>4, TaskCallbackSteps
<1>5. CASE PausedLocked BY <1>5, PausedLockedSteps
<1>6. CASE EndCallback BY <1>6, EndCallbackSteps
<1>7. CASE HandleMessages BY <1>7, HandleMessagesSteps
<1>8. CASE MessageHandled BY <1>8, MessageHandledSteps
<1>9. CASE HandlePause \/ HandleKill \/ HandleService \/ DartReturns BY <1>9, HandleSteps
<1>10. CASE HandleDelayed BY <1>10, DelaySteps
<1>11. CASE WaitReturns BY <1>11, WaitReturnSteps
<1>12. CASE HandleOOBMessages BY <1>12, InterruptSteps
<1>13. CASE PauseAndHandleAllMessages BY <1>13, WaitSteps
<1>14. CASE WaitEnds BY <1>14, WaitEndSteps
<1>15. CASE UNCHANGED vars BY <1>15, StutterIInv
<1> QED
  BY <1>1, <1>2, <1>3, <1>4, <1>5, <1>6, <1>7, <1>8, <1>9, <1>10, <1>11, <1>12, <1>13,
     <1>14, <1>15 DEF Next, TaskStep

(* The invariant that relates the task of a handler, its pauses and the    *)
(* calls on the stack of its thread (message_handler.cc).                  *)
THEOREM HandlerInvariant == Spec => []IInv
<1>1. Init => IInv BY InitIInv, Zenon
<1>2. IInv /\ [Next]_vars => IInv' BY NextIInv, Zenon
<1> QED BY <1>1, <1>2, PTL DEF Spec

(* Once the kill message of the VM has been handled, in whatever nested    *)
(* call of HandleMessages, the stack unwinds and no message is taken.      *)
THEOREM NothingAfterShutdown == Spec => ShutdownIsFinal
<1>1. IInv /\ [Next]_vars => [killed => taken' = taken]_vars
  <2> USE Zenon
  <2> SUFFICES ASSUME IInv, Next, killed PROVE taken' = taken OBVIOUS
  <2> USE DEF queues
  <2>1. \/ frames = <<>>
        \/ frames # <<>> /\ Top.phase = "handled" /\ Top.status = "shutdown"
    BY DEF IInv, Dying, Unwinding
  <2>2. CASE HandleMessages BY <2>1, <2>2 DEF HandleMessages, HasTop
  <2>3. CASE MessageHandled BY <2>1, <2>3 DEF MessageHandled, HasTop, EndsLoop
  <2>4. CASE Run \/ HandleNextMessage \/ TaskCallback \/ PausedLocked \/ EndCallback
    BY <2>4 DEF Run, HandleNextMessage, TaskCallback, PausedLocked, EndCallback
  <2>5. CASE HandlePause \/ HandleKill \/ HandleDelayed \/ HandleService \/ WaitReturns
    BY <2>5 DEF HandlePause, HandleKill, HandleDelayed, HandleService, WaitReturns
  <2>6. CASE DartReturns \/ HandleOOBMessages \/ PauseAndHandleAllMessages \/ WaitEnds
    BY <2>6 DEF DartReturns, HandleOOBMessages, PauseAndHandleAllMessages, WaitEnds
  <2>7. ASSUME NEW kind \in Posted, PostMessage(kind) PROVE taken' = taken
    BY <2>7 DEF PostMessage
  <2> QED BY <2>2, <2>3, <2>4, <2>5, <2>6, <2>7 DEF Next, TaskStep
<1> QED BY <1>1, HandlerInvariant, PTL DEF Spec, ShutdownIsFinal

-----------------------------------------------------------------------------
(* The order of the messages in queue_.                                    *)

\* A message that is no event comes among the events.
LEMMA EventsInserted ==
    ASSUME NEW q \in Seq(Message), NEW e, NEW m, NEW n \in 0 .. Len(q), Inserted(q, e, m, n),
           m.kind # "event", NEW a, NEW b, EventsOK(q, a, b)
    PROVE  EventsOK(e, a, b)
<1> USE Zenon
<1>0. e[n + 1] = m BY DEF Inserted
<1>1. ASSUME NEW k \in Events(e)
      PROVE  k # n + 1 /\ Old(k, n) \in Events(q) /\ e[k] = q[Old(k, n)]
  <2>1. k \in 1 .. Len(e) /\ k # n + 1 /\ e[k].kind = "event" BY <1>0 DEF Events
  <2> QED BY <2>1, InsertedAt, SMT DEF Events
<1>2. ASSUME NEW i \in Events(q) PROVE New(i, n) \in Events(e) /\ e[New(i, n)] = q[i]
  BY InsertedAt, SMT DEF Events
<1>3. {e[k].id : k \in Events(e)} = {q[i].id : i \in Events(q)}
  <2>1. ASSUME NEW k \in Events(e) PROVE \E i \in Events(q) : q[i].id = e[k].id BY <1>1
  <2>2. ASSUME NEW i \in Events(q) PROVE \E k \in Events(e) : q[i].id = e[k].id BY <1>2
  <2> QED BY <2>1, <2>2, SMT
<1>4. ASSUME NEW k \in Events(e), NEW l \in Events(e), k < l PROVE e[k].id < e[l].id
  <2>1. k \in 1 .. Len(e) /\ l \in 1 .. Len(e) BY DEF Events
  <2>2. Old(k, n) < Old(l, n) BY <1>1, <1>4, <2>1, InsertedAt
  <2> QED BY <1>1, <2>2 DEF EventsOK
<1> QED BY <1>3, <1>4 DEF EventsOK

\* The next event comes behind all.
LEMMA EventsAppended ==
    ASSUME NEW q \in Seq(Message), NEW e, NEW m, Inserted(q, e, m, Len(q)), m.kind = "event",
           NEW a \in Nat, NEW b \in Nat, a <= b + 1, m.id = b + 1, EventsOK(q, a, b)
    PROVE  EventsOK(e, a, b + 1)
<1> USE Zenon
<1> DEFINE n == Len(q)
<1>0. /\ n \in Nat /\ n \in 0 .. n /\ Inserted(q, e, m, n) /\ Len(e) = n + 1 /\ e[n + 1] = m
      /\ \A i \in 1 .. n : e[i] = q[i]
  BY SMT DEF Inserted
<1> HIDE DEF n
<1>1. Events(e) = Events(q) \cup {n + 1} /\ \A i \in Events(q) : i \in 1 .. n /\ e[i] = q[i]
  <2>1. Events(q) = {i \in 1 .. n : q[i].kind = "event"} BY DEF Events, n
  <2>2. Events(e) = {i \in 1 .. n + 1 : e[i].kind = "event"} BY <1>0 DEF Events
  <2>3. 1 .. n + 1 = (1 .. n) \cup {n + 1} BY <1>0, SMT
  <2> QED BY <1>0, <2>1, <2>2, <2>3
<1>2. {e[k].id : k \in Events(e)} = {q[i].id : i \in Events(q)} \cup {b + 1}
  BY <1>0, <1>1
<1>3. {e[k].id : k \in Events(e)} = a .. b + 1
  <2>1. a .. b + 1 = (a .. b) \cup {b + 1} BY SMT
  <2> QED BY <1>2, <2>1 DEF EventsOK
<1>4. ASSUME NEW k \in Events(e), NEW l \in Events(e), k < l PROVE e[k].id < e[l].id
  <2>1. CASE l = n + 1
    <3>1. k \in Events(q) BY <1>0, <1>1, <1>4, <2>1, SMT
    <3>2. q[k].id \in a .. b BY <3>1 DEF EventsOK
    <3>3. e[k].id \in a .. b /\ e[l].id = b + 1 BY <1>0, <1>1, <2>1, <3>1, <3>2
    <3> QED BY <3>3, SMT
  <2>2. CASE l # n + 1
    <3>1. k \in Events(q) /\ l \in Events(q) BY <1>0, <1>1, <1>4, <2>2, SMT
    <3> QED BY <1>1, <1>4, <3>1 DEF EventsOK
  <2> QED BY <2>1, <2>2
<1> QED BY <1>3, <1>4 DEF EventsOK

\* The first message is taken.  If it is an event, it is the next one.
LEMMA EventsTail ==
    ASSUME NEW q \in Seq(Message), q # <<>>, NEW a \in Nat, NEW b \in Nat, EventsOK(q, a, b)
    PROVE  /\ q[1].kind = "event" => q[1].id = a /\ a <= b /\ EventsOK(Tail(q), a + 1, b)
           /\ q[1].kind # "event" => EventsOK(Tail(q), a, b)
<1> USE Zenon
<1> DEFINE e == Tail(q)
<1>0. /\ Len(q) \in Nat /\ Len(q) # 0 /\ Len(e) = Len(q) - 1
      /\ \A i \in 1 .. Len(q) - 1 : e[i] = q[i + 1]
  BY Rest
<1> HIDE DEF e
<1>1. ASSUME NEW k \in Events(e) PROVE k + 1 \in Events(q) /\ e[k] = q[k + 1] /\ k + 1 # 1
                                       /\ k \in Int
  BY <1>0, SMT DEF Events
<1>2. ASSUME NEW i \in Events(q), i # 1 PROVE \E k \in Events(e) : i = k + 1 /\ e[k] = q[i]
  <2> DEFINE k == i - 1
  <2>1. k + 1 = i /\ k \in 1 .. Len(q) - 1 /\ q[i].kind = "event" BY <1>0, <1>2, SMT DEF Events
  <2> HIDE DEF k
  <2>2. e[k] = q[i] BY <1>0, <2>1
  <2>3. k \in Events(e) BY <1>0, <2>1, <2>2 DEF Events
  <2> QED BY <2>1, <2>2, <2>3
<1>3. ASSUME NEW k \in Events(e), NEW l \in Events(e), k < l PROVE e[k].id < e[l].id
  <2>1. k + 1 < l + 1 BY <1>1, <1>3, SMT
  <2> QED BY <1>1, <2>1 DEF EventsOK
<1>4. {e[k].id : k \in Events(e)} = {q[i].id : i \in Events(q) \ {1}}
  <2>1. ASSUME NEW k \in Events(e) PROVE \E i \in Events(q) \ {1} : q[i].id = e[k].id BY <1>1
  <2>2. ASSUME NEW i \in Events(q) \ {1} PROVE \E k \in Events(e) : q[i].id = e[k].id BY <1>2
  <2> QED BY <2>1, <2>2, SMT
<1>5. CASE q[1].kind = "event"
  <2>1. 1 \in Events(q) BY <1>0, <1>5, SMT DEF Events
  <2>2. q[1].id \in a .. b BY <2>1 DEF EventsOK
  <2>3. ASSUME NEW i \in Events(q), i # 1 PROVE q[1].id < q[i].id /\ q[i].id \in a .. b
    <3>1. 1 < i BY <2>3, SMT DEF Events
    <3> QED BY <2>1, <3>1 DEF EventsOK
  <2>4. a \in a .. b BY <2>2, SMT
  <2>5. PICK first \in Events(q) : q[first].id = a BY <2>4 DEF EventsOK
  <2>6. q[1].id = a BY <2>2, <2>3, <2>5, SMT
  <2>7. {q[i].id : i \in Events(q) \ {1}} = a + 1 .. b
    <3>1. ASSUME NEW i \in Events(q) \ {1} PROVE q[i].id \in a + 1 .. b BY <2>3, <2>6, SMT
    <3>2. ASSUME NEW x \in a + 1 .. b PROVE \E i \in Events(q) \ {1} : q[i].id = x
      <4>1. x \in a .. b /\ x # a BY SMT
      <4>2. PICK i \in Events(q) : q[i].id = x BY <4>1 DEF EventsOK
      <4> QED BY <2>6, <4>1, <4>2
    <3> QED BY <3>1, <3>2, SMT
  <2>8. {e[k].id : k \in Events(e)} = a + 1 .. b BY <1>4, <2>7
  <2>9. EventsOK(e, a + 1, b) BY <1>3, <2>8 DEF EventsOK
  <2> QED BY <1>5, <2>4, <2>6, <2>9, SMT DEF e
<1>6. CASE q[1].kind # "event"
  <2>1. Events(q) \ {1} = Events(q) BY <1>6 DEF Events
  <2> QED BY <1>3, <1>4, <1>6, <2>1 DEF EventsOK, e
<1> QED BY <1>5, <1>6

LEMMA LibTail ==
    ASSUME NEW q \in Seq(Message), q # <<>>, LibOK(q)
    PROVE  LibOK(Tail(q))
<1> USE Zenon
<1> DEFINE e == Tail(q)
<1>0. /\ Len(q) \in Nat /\ Len(q) # 0 /\ Len(e) = Len(q) - 1
      /\ \A i \in 1 .. Len(q) - 1 : e[i] = q[i + 1]
  BY Rest
<1> HIDE DEF e
<1>1. ASSUME NEW j \in 1 .. Len(e), NEW i \in 1 .. Len(e), Before(e, j), i < j
      PROVE  e[i].kind # "event" /\ (Before(e, i) => e[i].id < e[j].id)
  <2> DEFINE k == i + 1
             l == j + 1
  <2>1. k \in 1 .. Len(q) /\ l \in 1 .. Len(q) /\ k < l BY <1>0, <1>1, SMT
  <2>2. e[i] = q[k] /\ e[j] = q[l] BY <1>0
  <2> HIDE DEF k, l
  <2>3. Before(q, l) BY <1>1, <2>2 DEF Before
  <2>4. q[k].kind # "event" /\ (Before(q, k) => q[k].id < q[l].id) BY <2>1, <2>3 DEF LibOK
  <2> QED BY <2>2, <2>4 DEF Before
<1>2. LibOK(e) BY <1>1 DEF LibOK
<1> QED BY <1>2 DEF e

\* A control message is put where HandleDelayed puts it, an event at the end.
LEMMA LibInserted ==
    ASSUME NEW q \in Seq(Message), NEW e, NEW m, NEW n \in 0 .. Len(q), Inserted(q, e, m, n),
           LibOK(q), WalksEnd(q), \A i \in 1 .. Len(q) : ~IsOOB(q[i]),
           \/ n = Len(q) /\ m.kind # "lib_before"
           \/ n = LeadingLib(q) /\ \A j \in 1 .. Len(q) : Before(q, j) => q[j].id < m.id
    PROVE  LibOK(e)
<1>0. n \in Nat /\ Len(q) \in Nat /\ Len(e) = Len(q) + 1 /\ e[n + 1] = m BY InsertedAt
<1>1. \A j \in 1 .. Len(q) : n + 1 <= j => ~Before(q, j)
  <2>1. CASE n = Len(q) BY <1>0, <2>1
  <2>2. CASE n = LeadingLib(q)
    <3> SUFFICES ASSUME NEW j \in 1 .. Len(q), n + 1 <= j, Before(q, j) PROVE FALSE BY Zenon
    <3>1. n + 1 \in 1 .. Len(q) BY <1>0
    <3>2. ~IsLib(q[n + 1]) BY <1>0, <2>2, <3>1, LeadingLibDef
    <3>3. q[n + 1].kind = "event"
      <4>1. q[n + 1] \in Message BY <3>1
      <4>2. q[n + 1].kind \in Kind BY <4>1, Zenon DEF Message
      <4> QED BY <3>1, <3>2, <4>2, Zenon DEF Kind, IsLib, IsOOB
    <3>4. j # n + 1 BY <3>3, Zenon DEF Before
    <3>5. n + 1 < j BY <1>0, <3>4
    <3> QED BY <3>1, <3>3, <3>5, Zenon DEF LibOK
  <2> QED BY <2>1, <2>2, Zenon
<1>2. ASSUME NEW j \in 1 .. Len(e), NEW i \in 1 .. Len(e), Before(e, j), i < j
      PROVE  e[i].kind # "event" /\ (Before(e, i) => e[i].id < e[j].id)
  <2> USE Zenon
  <2>1. j <= n + 1
    <3> SUFFICES ASSUME ~(j <= n + 1) PROVE FALSE OBVIOUS
    <3>1. j # n + 1 /\ Old(j, n) = j - 1 /\ n + 1 <= j - 1 BY <1>0, SMT DEF Old
    <3>2. Old(j, n) \in 1 .. Len(q) /\ e[j] = q[Old(j, n)] BY <3>1, InsertedAt, SMT
    <3>3. n + 1 <= Old(j, n) BY <3>1
    <3>4. Before(q, Old(j, n)) BY <1>2, <3>2 DEF Before
    <3> QED BY <1>1, <3>2, <3>3, <3>4
  <2>2. i \in 1 .. Len(q) /\ e[i] = q[i] /\ i <= n BY <1>0, <1>2, <2>1, SMT DEF Inserted
  <2>3. CASE j = n + 1
    <3>1. m.kind = "lib_before" BY <1>0, <1>2, <2>3 DEF Before
    <3>2. n = LeadingLib(q) /\ \A k \in 1 .. Len(q) : Before(q, k) => q[k].id < m.id BY <3>1
    <3>3. IsLib(q[i]) BY <1>0, <2>2, <3>2, LeadingLibDef, SMT
    <3>4. q[i].kind # "event" BY <3>3 DEF IsLib, LibKind
    <3> QED BY <1>0, <2>2, <2>3, <3>2, <3>4 DEF Before
  <2>4. CASE j # n + 1
    <3>1. j \in 1 .. Len(q) /\ e[j] = q[j] BY <1>0, <2>1, <2>4, SMT DEF Inserted
    <3> QED BY <1>2, <2>2, <3>1 DEF LibOK, Before
  <2> QED BY <2>3, <2>4
<1> QED BY <1>2, Zenon DEF LibOK

\* A step that puts no message into a queue and begins to handle none.
LEMMA OrderedKeeps ==
    ASSUME IInv, Ordered, ~Delaying', UNCHANGED <<taken, lastEvent, posted, events>>,
           \/ queue_' = queue_ /\ closed' = closed
           \/ queue_' = <<>> /\ closed',
           oob_queue_' \in {oob_queue_, <<>>}
    PROVE  Ordered'
<1>0. /\ Len(queue_) \in Nat /\ Len(oob_queue_) \in Nat /\ taken \in Nat /\ posted \in Nat
      /\ events \in Nat /\ lastEvent \in Nat
  BY BoundAssumption DEF IInv, Types
<1>1. Len(<<>>) = 0 BY Zenon
<1>2. (lastEvent <= events)' /\ (~closed => EventsOK(queue_, lastEvent + 1, events))'
  BY Zenon DEF Ordered
<1>3. LibOK(queue_)' /\ OOBOK(oob_queue_)' BY <1>1 DEF Ordered, LibOK, OOBOK
<1>4. (\A i \in 1 .. Len(oob_queue_) : oob_queue_[i].id <= posted - events)'
  BY <1>1 DEF Ordered
<1>5. (\A j \in 1 .. Len(queue_) : Before(queue_, j) =>
         queue_[j].id <= posted - events /\ Later(queue_[j].id))'
  BY <1>1 DEF Ordered, Later, Before
<1>6. (taken + Len(queue_) + 2 * Len(oob_queue_) + (IF Delaying THEN 1 ELSE 0)
         <= 2 * posted)'
  <2> USE Zenon
  <2> DEFINE d == IF Delaying THEN 1 ELSE 0
             a == Len(queue_)
             b == Len(oob_queue_)
             a1 == Len(queue_')
             b1 == Len(oob_queue_')
  <2>1. d \in Nat /\ taken + a + 2 * b + d <= 2 * posted BY DEF Ordered
  <2>2. a1 \in {a, 0} /\ b1 \in {b, 0} BY <1>1
  <2>3. a \in Nat /\ b \in Nat BY <1>0
  <2> HIDE DEF d, a, b, a1, b1
  <2>4. taken + a1 + 2 * b1 + 0 <= 2 * posted BY <1>0, <2>1, <2>2, <2>3, SMT
  <2> QED BY <2>4 DEF a1, b1
<1> QED BY <1>2, <1>3, <1>4, <1>5, <1>6, Zenon DEF Ordered

-----------------------------------------------------------------------------
(* What the steps that take no message do to the stack: the calls below    *)
(* the top stay, Dart code goes on with the message it was handling, and a *)
(* thread only waits when there is no message.                             *)
Waiting == {"wait", "wait_oob"}

Quiet ==
  /\ \A i \in 1 .. Len(frames') - 1 : i \in 1 .. Len(frames) /\ frames'[i] = frames[i]
  /\ HasTop("handle")' =>
       /\ RunsDart(Top'.msg)
       /\ \E i \in 1 .. Len(frames) : frames[i].phase = "handle" /\ frames[i].msg = Top'.msg
  /\ frames' # <<>> /\ Top'.ret \in Waiting =>
       \/ paused_for_messages_'
       \/ /\ frames # <<>> /\ Top.ret \in Waiting
          /\ paused_for_messages_' = paused_for_messages_
       \/ \E i \in 1 .. Len(frames) - 1 : frames[i].ret = Top'.ret
  /\ HasTop("waiting")' => queue_' = <<>> /\ oob_queue_' = <<>>

LEMMA QuietWhenEmpty == ASSUME frames' = <<>> PROVE Quiet
<1>1. Len(<<>>) = 0 BY Zenon
<1> QED BY <1>1 DEF Quiet, HasTop

LEMMA QuietFromTask ==
    ASSUME NEW ret \in Bottom, NEW normal \in BOOLEAN, NEW multiple \in BOOLEAN,
           frames' = <<NewFrame(ret, "enter", normal, multiple)>>
    PROVE  Quiet
<1> DEFINE x == NewFrame(ret, "enter", normal, multiple)
<1>1. x.ret = ret /\ x.phase = "enter"
  <2>1. ret \in Ret /\ "enter" \in Phase BY Zenon DEF Ret, Phase, Bottom
  <2> QED BY <2>1, NewFrameFields
<1> HIDE DEF x
<1>2. frames' = <<x>> BY Zenon DEF x
<1>3. Len(frames') = 1 /\ Top' = x BY <1>2 DEF Top
<1>4. ret \notin Waiting BY Zenon DEF Bottom, TaskRet, Waiting
<1> QED BY <1>1, <1>3, <1>4 DEF Quiet, HasTop

LEMMA QuietTask ==
    ASSUME IInv, TaskCallback \/ PausedLocked \/ EndCallback \/ Run \/ HandleNextMessage
    PROVE  Quiet
<1> USE Zenon
<1>0. frames = <<>>
  <2>1. CASE TaskCallback \/ PausedLocked \/ EndCallback
    <3>1. task # "busy" /\ task # "none" BY <2>1 DEF TaskCallback, PausedLocked, EndCallback
    <3> QED BY <3>1, InUse DEF IInv, Placed, Bottom
  <2>2. CASE Run \/ HandleNextMessage BY <2>2 DEF Run, HandleNextMessage
  <2> QED BY <2>1, <2>2
<1>1. \/ frames' = <<>>
      \/ \E ret \in Bottom, normal, multiple \in BOOLEAN :
           frames' = <<NewFrame(ret, "enter", normal, multiple)>>
  <2>1. ASSUME NEW ret \in TaskRet, NEW normal \in BOOLEAN, NEW s, NEW e,
               CallFromTask(ret, normal, s, e)
        PROVE  frames' = <<NewFrame(ret, "enter", normal, normal)>> /\ ret \in Bottom
    <3>1. \A x : Append(<<>>, x) = <<x>> BY SMT
    <3> QED BY <2>1, <3>1 DEF CallFromTask, Calling, Bottom
  <2>2. ASSUME NEW s, NEW e, NEW status, HandleOrExit(status, s, e)
        PROVE  frames' = <<>> \/ CallFromTask("main", TRUE, s, e)
    BY <2>2 DEF HandleOrExit, ExitOrIdle, EndTask, PauseOnExit, Stop
  <2>3. CASE TaskCallback
    <3>1. \/ frames' = <<>>
          \/ \E ret \in TaskRet, normal \in BOOLEAN : \E s, e : CallFromTask(ret, normal, s, e)
      BY <1>0, <2>2, <2>3 DEF TaskCallback, CheckPausedOnExit, TaskRet
    <3> QED BY <2>1, <3>1
  <2>4. CASE PausedLocked
    <3>1. \E ret \in TaskRet, normal \in BOOLEAN : \E s, e : CallFromTask(ret, normal, s, e)
      BY <2>4 DEF PausedLocked, TaskRet
    <3> QED BY <2>1, <3>1
  <2>5. CASE EndCallback \/ Run BY <1>0, <2>5 DEF EndCallback, Run
  <2>6. CASE HandleNextMessage BY <2>6 DEF HandleNextMessage, Bottom
  <2> QED BY <2>3, <2>4, <2>5, <2>6, SMT
<1> QED BY <1>1, QuietWhenEmpty, QuietFromTask

LEMMA QuietFinish ==
    ASSUME IInv, HandlePause \/ HandleKill \/ HandleService \/ DartReturns \/ HandleDelayed
    PROVE  Quiet
<1> USE Zenon
<1>1. HasTop("handle") /\ paused_for_messages_' = paused_for_messages_
  BY DEF HandlePause, HandleKill, HandleService, DartReturns, HandleDelayed, Handling
<1>2. PICK status \in Status, sticky \in Status : Finish(status, sticky)
  BY DEF HandlePause, HandleKill, HandleService, DartReturns, HandleDelayed, Status
<1>3. /\ frames' # <<>> /\ Len(frames') = Len(frames) /\ Top'.phase = "handled"
      /\ \A i \in 1 .. Len(frames) - 1 : frames'[i] = frames[i]
      /\ Top'.ret = Top.ret
  BY <1>1, <1>2, Finished
<1>4. frames # <<>> /\ Len(frames) \in Nat BY <1>1, InUse DEF HasTop
<1>5. ~HasTop("waiting")' /\ ~HasTop("handle")' BY <1>3 DEF HasTop
<1>6. \A i \in 1 .. Len(frames') - 1 : i \in 1 .. Len(frames) /\ frames'[i] = frames[i]
  BY <1>3, <1>4, SMT
<1> QED BY <1>1, <1>3, <1>4, <1>5, <1>6 DEF Quiet

LEMMA QuietWait ==
    ASSUME IInv, HandleOOBMessages \/ PauseAndHandleAllMessages
    PROVE  Quiet
<1> USE Zenon
<1>0. HasTop("handle") /\ RunsDart(Top.msg) /\ UNCHANGED <<queue_, oob_queue_>>
  BY DEF HandleOOBMessages, PauseAndHandleAllMessages, queues
<1>1. frames # <<>> /\ Len(frames) \in Nat BY <1>0, InUse DEF HasTop
<1>2. ASSUME NEW x \in Frame, FrameOK(x), x.ret \notin Bottom, frames' = Append(frames, x)
      PROVE  /\ frames' # <<>> /\ Top' = x
             /\ \A i \in 1 .. Len(frames') - 1 : i \in 1 .. Len(frames) /\ frames'[i] = frames[i]
  <2>1. Len(frames) < MaxDepth
    <3>1. Len(frames) < MaxDepth \/ Len(frames) + 1 < MaxDepth
      BY DEF HandleOOBMessages, PauseAndHandleAllMessages
    <3> QED BY <1>1, <3>1, BoundAssumption, SMT
  <2>2. /\ frames' # <<>> /\ Top' = x /\ Len(frames') = Len(frames) + 1
        /\ \A i \in 1 .. Len(frames) : frames'[i] = frames[i]
    BY <1>0, <1>2, <2>1, DartCalls
  <2> QED BY <1>1, <2>2, SMT
<1>3. CASE HandleOOBMessages
  <2> DEFINE x == NewFrame("oob", "enter", FALSE, FALSE)
  <2>1. frames' = Append(frames, x) BY <1>3 DEF HandleOOBMessages, Calling
  <2>2. /\ x \in Frame /\ FrameOK(x) /\ x.ret = "oob" /\ x.phase = "enter"
        /\ "oob" \notin Bottom
    BY CallFrame
  <2> HIDE DEF x
  <2> QED BY <1>2, <2>1, <2>2, SMT DEF Quiet, HasTop, Waiting
<1>4. CASE PauseAndHandleAllMessages /\ queue_ = <<>> /\ oob_queue_ = <<>>
  <2> DEFINE x == NewFrame("wait", "waiting", FALSE, FALSE)
  <2>1. frames' = Append(frames, x) /\ paused_for_messages_'
    BY <1>4 DEF PauseAndHandleAllMessages
  <2>2. /\ x \in Frame /\ FrameOK(x) /\ x.ret = "wait" /\ x.phase = "waiting"
        /\ "wait" \notin Bottom
    BY CallFrame
  <2> HIDE DEF x
  <2> QED BY <1>0, <1>2, <1>4, <2>1, <2>2 DEF Quiet, HasTop
<1>5. CASE PauseAndHandleAllMessages /\ ~(queue_ = <<>> /\ oob_queue_ = <<>>)
  <2> DEFINE x == NewFrame("wait_all", "enter", TRUE, TRUE)
  <2>1. frames' = Append(frames, x) BY <1>5 DEF PauseAndHandleAllMessages, Calling
  <2>2. /\ x \in Frame /\ FrameOK(x) /\ x.ret = "wait_all" /\ x.phase = "enter"
        /\ "wait_all" \notin Bottom
    BY CallFrame
  <2> HIDE DEF x
  <2> QED BY <1>2, <2>1, <2>2 DEF Quiet, HasTop, Waiting
<1> QED BY <1>3, <1>4, <1>5

LEMMA QuietWaitEnds ==
    ASSUME IInv, WaitEnds \/ WaitReturns
    PROVE  Quiet
<1> USE Zenon
<1>0. frames # <<>> /\ Top.phase \in {"waiting", "woken", "timed_out"}
  BY DEF WaitEnds, WaitReturns, HasTop
<1>1. Len(frames) \in Nat /\ Top.ret = "wait" /\ "wait" \notin Bottom
  BY <1>0, InUse DEF FrameOK, Bottom, TaskRet
<1>2. CASE WaitEnds
  <2>1. HasTop("waiting") /\ paused_for_messages_' = paused_for_messages_
    BY <1>2 DEF WaitEnds
  <2>2. PICK p \in {"timed_out", "woken"} : frames' = [frames EXCEPT ![Len(frames)].phase = p]
    BY <1>2 DEF WaitEnds
  <2>3. /\ frames' # <<>> /\ Len(frames') = Len(frames) /\ Top'.phase = p /\ Top'.ret = Top.ret
        /\ \A i \in 1 .. Len(frames) - 1 : frames'[i] = frames[i]
    BY <2>1, <2>2, Woken
  <2> QED BY <1>0, <1>1, <2>1, <2>3, SMT DEF Quiet, HasTop, Waiting
<1>3. CASE WaitReturns /\ Top.phase = "woken" /\ queue_ = <<>>
  <2> DEFINE x == NewFrame("wait_oob", "enter", FALSE, FALSE)
  <2>1. frames' = Append(Below, x) /\ paused_for_messages_' = paused_for_messages_
    BY <1>3 DEF WaitReturns, Calling
  <2>2. /\ x \in Frame /\ FrameOK(x) /\ x.ret = "wait_oob" /\ x.phase = "enter"
        /\ "wait_oob" \notin Bottom
    BY CallFrame
  <2> HIDE DEF x
  <2>3. /\ frames' # <<>> /\ Len(frames') = Len(frames) /\ Top' = x
        /\ \A i \in 1 .. Len(frames) - 1 : frames'[i] = frames[i]
    BY <1>0, <1>1, <2>1, <2>2, Continued
  <2> QED BY <1>0, <1>1, <2>1, <2>2, <2>3, SMT DEF Quiet, HasTop, Waiting
<1>4. CASE WaitReturns /\ ~(Top.phase = "woken" /\ queue_ = <<>>)
  <2>1. WaitLoop(Below, FALSE) BY <1>4 DEF WaitReturns
  <2>2. /\ frames' # <<>> /\ Len(frames') = Len(frames)
        /\ \A i \in 1 .. Len(frames) - 1 : frames'[i] = frames[i]
        /\ Top'.ret = "wait_all" /\ Top'.phase = "enter"
    BY <1>0, <1>1, <2>1, WaitLoopSteps
  <2> QED BY <1>1, <2>2, SMT DEF Quiet, HasTop, Waiting
<1> QED BY <1>2, <1>3, <1>4

LEMMA QuietReturn ==
    ASSUME IInv, frames # <<>>, NEW fr \in Frame, fr.ret = Top.ret, Return(fr),
           oob_queue_' = <<>>, UNCHANGED queue_
    PROVE  Quiet
<1> USE Zenon
<1> USE DEF taskVars
<1>0. Len(frames) \in Nat /\ Len(frames) # 0 BY InUse
<1>1. CASE fr.ret \in TaskRet
  <2>1. ReturnToTask(fr.ret, fr.max) BY <1>1 DEF Return, TaskRet
  <2>2. ASSUME NEW s, NEW e, NEW status, HandleOrExit(status, s, e)
        PROVE  frames' = <<>> \/ CallFromTask("main", TRUE, s, e)
    BY <2>2 DEF HandleOrExit, ExitOrIdle, EndTask, PauseOnExit, Stop
  <2>3. ASSUME NEW s, NEW e, NEW status, ExitOrIdle(status, s, e) PROVE frames' = <<>>
    BY <2>3 DEF ExitOrIdle, EndTask, PauseOnExit, Stop
  <2>4. ASSUME NEW s, NEW e, EndTask(s, e) \/ Stop(s, e) PROVE frames' = <<>>
    BY <2>4 DEF EndTask, Stop
  <2>5. \/ frames' = <<>>
        \/ \E ret \in TaskRet, normal \in BOOLEAN : \E s, e : CallFromTask(ret, normal, s, e)
    BY <2>1, <2>2, <2>3, <2>4 DEF ReturnToTask, CheckPausedOnExit, ResumedFromExit, TaskRet
  <2>6. ASSUME NEW ret \in TaskRet, NEW normal \in BOOLEAN, NEW s, NEW e,
               CallFromTask(ret, normal, s, e)
        PROVE  Quiet
    <3>1. \A x : Append(<<>>, x) = <<x>> BY SMT
    <3>2. frames' = <<NewFrame(ret, "enter", normal, normal)>> /\ ret \in Bottom
      BY <2>6, <3>1 DEF CallFromTask, Calling, Bottom
    <3> QED BY <3>2, QuietFromTask
  <2> QED BY <2>5, <2>6, QuietWhenEmpty
<1>2. CASE fr.ret = "next"
  <2>1. frames' = <<>> BY <1>2 DEF Return, TaskRet
  <2> QED BY <2>1, QuietWhenEmpty
<1>3. CASE fr.ret \notin TaskRet /\ fr.ret # "next"
  <2>1. Top.ret \notin Bottom BY <1>3 DEF Bottom
  <2>2. CASE frames' = Unwind(Below, fr)
    <3> DEFINE n == Len(frames')
    <3>1. /\ frames' # <<>> /\ n = Len(frames) - 1 /\ n \in Nat /\ n # 0
          /\ \A i \in 1 .. n : i < n => frames'[i] = frames[i]
          /\ Top'.ret = frames[n].ret /\ Top'.msg = frames[n].msg /\ RunsDart(Top'.msg)
          /\ Top'.phase \in {"handle", "handled"}
      <4>1. StackOK(frames') BY <2>1, <2>2, UnwindSteps
      <4>2. frames' \in Seq(Frame) BY <4>1 DEF StackOK
      <4> QED BY <2>1, <2>2, <4>2, UnwindSteps, SMT
    <3> HIDE DEF n
    <3>2. n \in 1 .. Len(frames) - 1 /\ n \in 1 .. Len(frames)
      <4>1. n = Len(frames) - 1 /\ n \in Nat /\ n # 0 BY <3>1
      <4> QED BY <1>0, <4>1, TopOfRest
    <3>3. frames[n].phase = "handle" BY <3>2 DEF IInv, StackOK
    <3>4. \A i \in 1 .. n - 1 : i \in 1 .. Len(frames) /\ frames'[i] = frames[i]
      BY <1>0, <3>1, SMT
    <3> QED BY <3>1, <3>2, <3>3, <3>4 DEF Quiet, HasTop, n
  <2>3. CASE Top.ret = "wait_oob" /\ WaitLoop(Below, queue_ = <<>>)
    <3> DEFINE empty == queue_ = <<>>
    <3>1. empty \in BOOLEAN /\ WaitLoop(Below, empty) BY <2>3
    <3>2. empty => queue_' = <<>> OBVIOUS
    <3> HIDE DEF empty
    <3>3. /\ frames' # <<>> /\ Len(frames') = Len(frames)
          /\ \A i \in 1 .. Len(frames) - 1 : frames'[i] = frames[i]
          /\ empty => /\ Top'.ret = "wait" /\ Top'.phase = "waiting"
                      /\ paused_for_messages_' = paused_for_messages_
          /\ ~empty => Top'.ret = "wait_all" /\ Top'.phase = "enter"
      BY <2>1, <3>1, WaitLoopSteps
    <3> QED BY <1>0, <2>3, <3>1, <3>2, <3>3, SMT DEF Quiet, HasTop, Waiting
  <2> QED BY <1>3, <2>2, <2>3 DEF Return
<1> QED BY <1>1, <1>2, <1>3

\* A quiet step delays no message.
LEMMA QuietDelays == ASSUME Quiet PROVE ~Delaying'
BY Zenon DEF Quiet, Delaying, RunsDart, LibKind

-----------------------------------------------------------------------------
(* The order is kept.                                                      *)

LEMMA Counters ==
    ASSUME IInv
    PROVE  /\ Len(queue_) \in Nat /\ Len(oob_queue_) \in Nat /\ taken \in Nat /\ posted \in Nat
           /\ events \in Nat /\ lastEvent \in Nat /\ events <= posted
           /\ queue_ \in Seq(Message) /\ oob_queue_ \in Seq(Message) /\ WalksEnd(queue_)
           /\ \A i \in 1 .. Len(queue_) : queue_[i].id \in Nat /\ ~IsOOB(queue_[i])
           /\ \A i \in 1 .. Len(oob_queue_) : oob_queue_[i].id \in Nat /\ IsOOB(oob_queue_[i])
<1>1. Types BY Zenon DEF IInv
<1>2. \A m \in Message : m.id \in Nat BY BoundAssumption DEF Message
<1>3. ASSUME NEW q \in Seq(Message), NEW i \in 1 .. Len(q) PROVE q[i].id \in Nat
  <2>1. q[i] \in Message OBVIOUS
  <2> QED BY <1>2, <2>1, Zenon
<1>4. posted \in Nat /\ events \in Nat /\ events <= posted BY <1>1, BoundAssumption DEF Types
<1> QED BY <1>1, <1>3, <1>4 DEF Types

\* HandleMessages takes a control message.
LEMMA OrderedTakeOOB ==
    ASSUME IInv, Ordered, oob_queue_ # <<>>, taken' = taken + 1, UNCHANGED lastEvent,
           oob_queue_' = Tail(oob_queue_), UNCHANGED <<queue_, closed, posted, events>>,
           Top'.msg = Head(oob_queue_)
    PROVE  Ordered'
<1> USE Zenon
<1> DEFINE q == oob_queue_
           m == q[1]
           e == Tail(q)
<1>0. /\ Len(queue_) \in Nat /\ Len(q) \in Nat /\ taken \in Nat /\ posted \in Nat
      /\ events \in Nat /\ q \in Seq(Message) /\ \A i \in 1 .. Len(q) : q[i].id \in Nat
  BY Counters
<1>1. /\ Len(q) # 0 /\ Len(e) = Len(q) - 1 /\ \A i \in 1 .. Len(q) - 1 : e[i] = q[i + 1]
      /\ Top'.msg = m /\ oob_queue_' = e
  BY <1>0, Rest
<1> HIDE DEF e
<1>2. /\ 1 \in 1 .. Len(q)
      /\ \A i \in 1 .. Len(e) : i + 1 \in 1 .. Len(q) /\ 1 < i + 1 /\ e[i] = q[i + 1]
  BY <1>0, <1>1, SMT
<1>3. OOBOK(q) /\ \A i \in 1 .. Len(q) : q[i].id <= posted - events BY DEF Ordered
<1>4. \A i \in 1 .. Len(e) : m.id < e[i].id /\ e[i].id <= posted - events
  BY <1>2, <1>3 DEF OOBOK
<1>5. OOBOK(e)
  <2>1. ASSUME NEW i \in 1 .. Len(e), NEW j \in 1 .. Len(e), i < j PROVE e[i].id < e[j].id
    <3>1. i + 1 < j + 1 BY <1>0, <1>1, <2>1, SMT
    <3> QED BY <1>2, <1>3, <3>1 DEF OOBOK
  <2> QED BY <2>1 DEF OOBOK
<1>6. ASSUME NEW j \in 1 .. Len(queue_), Before(queue_, j)
      PROVE  /\ queue_[j].id <= posted - events /\ queue_[j].id < m.id
             /\ \A i \in 1 .. Len(e) : queue_[j].id < e[i].id
  <2>1. queue_[j].id <= posted - events /\ Later(queue_[j].id) BY <1>6 DEF Ordered
  <2> QED BY <1>2, <2>1 DEF Later
<1>7. m.id <= posted - events BY <1>2, <1>3
<1>8. taken + 1 + Len(queue_) + 2 * Len(e) + (IF Delaying' THEN 1 ELSE 0) <= 2 * posted
  <2> DEFINE a == Len(queue_)
             b == Len(q)
             b1 == Len(e)
             d == IF Delaying THEN 1 ELSE 0
             d1 == IF Delaying' THEN 1 ELSE 0
  <2>1. d \in {0, 1} /\ d1 \in {0, 1} /\ taken + a + 2 * b + d <= 2 * posted BY DEF Ordered
  <2>2. b1 = b - 1 /\ a \in Nat /\ b \in Nat BY <1>0, <1>1
  <2> HIDE DEF a, b, b1, d, d1
  <2>3. taken + 1 + a + 2 * b1 + d1 <= 2 * posted BY <1>0, <2>1, <2>2, SMT
  <2> QED BY <2>3 DEF a, b1, d1
<1>9. (lastEvent <= events)' /\ (~closed => EventsOK(queue_, lastEvent + 1, events))'
      /\ LibOK(queue_)'
  BY DEF Ordered
<1> HIDE DEF m
<1>10. (\A j \in 1 .. Len(queue_) : Before(queue_, j) =>
         /\ queue_[j].id <= posted - events /\ Later(queue_[j].id)
         /\ Delaying => queue_[j].id < Top.msg.id)'
  BY <1>1, <1>6 DEF Later, Before
<1>11. (Delaying => Later(Top.msg.id) /\ Top.msg.id <= posted - events)'
  BY <1>1, <1>4, <1>7 DEF Later
<1>12. OOBOK(oob_queue_)' /\ (\A i \in 1 .. Len(oob_queue_) : oob_queue_[i].id <= posted - events)'
  BY <1>1, <1>4, <1>5
<1>13. (taken + Len(queue_) + 2 * Len(oob_queue_) + (IF Delaying THEN 1 ELSE 0) <= 2 * posted)'
  BY <1>1, <1>8
<1> QED BY <1>9, <1>10, <1>11, <1>12, <1>13 DEF Ordered

\* HandleMessages takes a message of queue_.
LEMMA OrderedTake ==
    ASSUME IInv, Ordered, ~closed, queue_ # <<>>, taken' = taken + 1,
           lastEvent' = IF queue_[1].kind = "event" THEN queue_[1].id ELSE lastEvent,
           queue_' = Tail(queue_), UNCHANGED <<oob_queue_, closed, posted, events>>, ~Delaying'
    PROVE  Ordered'
<1> USE Zenon
<1> DEFINE q == queue_
           e == Tail(q)
<1>0. /\ Len(oob_queue_) \in Nat /\ Len(q) \in Nat /\ taken \in Nat /\ posted \in Nat
      /\ events \in Nat /\ lastEvent \in Nat /\ lastEvent + 1 \in Nat /\ q \in Seq(Message)
  BY Counters, SMT
<1>1. /\ Len(q) # 0 /\ Len(e) = Len(q) - 1 /\ \A i \in 1 .. Len(q) - 1 : e[i] = q[i + 1]
  BY <1>0, Rest
<1>2. EventsOK(q, lastEvent + 1, events) /\ LibOK(q) BY DEF Ordered
<1>3. /\ q[1].kind = "event" => /\ q[1].id = lastEvent + 1 /\ lastEvent + 1 <= events
                                /\ EventsOK(e, lastEvent + 1 + 1, events)
      /\ q[1].kind # "event" => EventsOK(e, lastEvent + 1, events)
  BY <1>0, <1>2, EventsTail
<1>4. LibOK(e) BY <1>0, <1>2, LibTail
<1> HIDE DEF e
<1>5. queue_' = e BY DEF e
<1>6. (lastEvent <= events)' /\ (~closed => EventsOK(queue_, lastEvent + 1, events))'
  <2>1. CASE q[1].kind = "event"
    <3>1. lastEvent' = lastEvent + 1 BY <1>3, <2>1
    <3> QED BY <1>0, <1>3, <1>5, <2>1, <3>1
  <2>2. CASE q[1].kind # "event"
    <3>1. lastEvent' = lastEvent /\ lastEvent <= events BY <2>2 DEF Ordered
    <3> QED BY <1>3, <1>5, <2>2, <3>1
  <2> QED BY <2>1, <2>2
<1>7. (\A j \in 1 .. Len(queue_) : Before(queue_, j) =>
         /\ queue_[j].id <= posted - events /\ Later(queue_[j].id)
         /\ Delaying => queue_[j].id < Top.msg.id)'
  <2>1. ASSUME NEW j \in 1 .. Len(e), Before(e, j)
        PROVE  e[j].id <= posted - events /\ Later(e[j].id)
    <3> DEFINE k == j + 1
    <3>1. k \in 1 .. Len(q) /\ e[j] = q[k] BY <1>0, <1>1, SMT
    <3> HIDE DEF k
    <3> QED BY <2>1, <3>1 DEF Ordered, Before
  <2> QED BY <1>5, <2>1 DEF Later, Before
<1>8. taken + 1 + Len(e) + 2 * Len(oob_queue_) <= 2 * posted
  <2> DEFINE a == Len(q)
             a1 == Len(e)
             b == Len(oob_queue_)
             d == IF Delaying THEN 1 ELSE 0
  <2>1. d \in {0, 1} /\ taken + a + 2 * b + d <= 2 * posted BY DEF Ordered
  <2>2. a1 = a - 1 /\ a \in Nat /\ b \in Nat BY <1>0, <1>1
  <2> HIDE DEF a, a1, b, d
  <2>3. taken + 1 + a1 + 2 * b <= 2 * posted BY <1>0, <2>1, <2>2, SMT
  <2> QED BY <2>3 DEF a1, b
<1>9. (taken + Len(queue_) + 2 * Len(oob_queue_) + (IF Delaying THEN 1 ELSE 0) <= 2 * posted)'
  <2>1. Len(e) \in Nat BY <1>0, <1>1, SMT
  <2> QED BY <1>0, <1>5, <1>8, <2>1, SMT
<1>10. OOBOK(oob_queue_)' /\ (\A i \in 1 .. Len(oob_queue_) : oob_queue_[i].id <= posted - events)'
  BY DEF Ordered
<1>11. LibOK(queue_)' BY <1>4, <1>5
<1> QED BY <1>6, <1>7, <1>9, <1>10, <1>11 DEF Ordered

\* A control message is delayed.
LEMMA OrderedDelay ==
    ASSUME IInv, Ordered, HandleDelayed
    PROVE  Ordered'
<1> USE Zenon
<1> DEFINE q == queue_
           e == queue_'
           m == Delayed(Top.msg)
           n == IF BeforeEvents(Top.msg) THEN LeadingLib(q) ELSE Len(q)
<1>0. /\ Len(oob_queue_) \in Nat /\ Len(q) \in Nat /\ taken \in Nat /\ posted \in Nat
      /\ q \in Seq(Message) /\ WalksEnd(q) /\ \A i \in 1 .. Len(q) : ~IsOOB(q[i])
  BY Counters
<1>1. UNCHANGED <<oob_queue_, taken, lastEvent, closed, posted, events>> /\ Delaying
  BY DEF HandleDelayed, Handling, Delaying
<1>2. /\ Inserted(q, e, m, n) /\ m.id = Top.msg.id /\ IsLib(m)
      /\ m.kind = "lib_before" <=> BeforeEvents(Top.msg)
  BY DelayedInto, DelayedMessage
<1>3. n \in 0 .. Len(q) BY <1>0, LeadingLibDef, SMT
<1>4. /\ \A j \in 1 .. Len(q) : Before(q, j) =>
           q[j].id <= posted - events /\ Later(q[j].id) /\ q[j].id < Top.msg.id
      /\ Later(Top.msg.id) /\ Top.msg.id <= posted - events
  BY <1>1 DEF Ordered
<1>5. ~Delaying' BY QuietFinish, QuietDelays
<1>6. LibOK(e)
  <2>1. LibOK(q) BY DEF Ordered
  <2>2. \/ n = Len(q) /\ m.kind # "lib_before"
        \/ n = LeadingLib(q) /\ \A j \in 1 .. Len(q) : Before(q, j) => q[j].id < m.id
    BY <1>2, <1>4
  <2> HIDE DEF q, e, m, n
  <2> QED BY <1>0, <1>2, <1>3, <2>1, <2>2, LibInserted
<1>7. ~closed => EventsOK(e, lastEvent + 1, events)
  <2>1. ~closed => EventsOK(q, lastEvent + 1, events) BY DEF Ordered
  <2>2. m.kind # "event" BY <1>2 DEF IsLib, LibKind
  <2> HIDE DEF q, e, m, n
  <2> QED BY <1>0, <1>2, <1>3, <2>1, <2>2, EventsInserted
<1> HIDE DEF n, m
<1>8. ASSUME NEW k \in 1 .. Len(e), Before(e, k)
      PROVE  e[k].id <= posted - events /\ Later(e[k].id)
  <2>1. CASE k = n + 1
    <3>1. e[k] = m BY <1>2, <2>1 DEF Inserted
    <3> QED BY <1>2, <1>4, <3>1
  <2>2. CASE k # n + 1
    <3>1. Old(k, n) \in 1 .. Len(q) /\ e[k] = q[Old(k, n)]
      BY <1>0, <1>2, <1>3, <2>2, InsertedAt, SMT
    <3>2. Before(q, Old(k, n)) BY <1>8, <3>1 DEF Before
    <3> QED BY <1>4, <3>1, <3>2
  <2> QED BY <2>1, <2>2
<1>9. taken + Len(e) + 2 * Len(oob_queue_) <= 2 * posted
  <2>1. Len(e) = Len(q) + 1 BY <1>2 DEF Inserted
  <2>2. taken + Len(q) + 2 * Len(oob_queue_) + 1 <= 2 * posted BY <1>1 DEF Ordered
  <2> QED BY <1>0, <2>1, <2>2, SMT
<1>10. (lastEvent <= events)' /\ OOBOK(oob_queue_)'
       /\ (\A i \in 1 .. Len(oob_queue_) : oob_queue_[i].id <= posted - events)'
  BY <1>1 DEF Ordered
<1>11. (\A j \in 1 .. Len(queue_) : Before(queue_, j) =>
         /\ queue_[j].id <= posted - events /\ Later(queue_[j].id)
         /\ Delaying => queue_[j].id < Top.msg.id)'
  BY <1>1, <1>5, <1>8 DEF Later, Before
<1>12. (taken + Len(queue_) + 2 * Len(oob_queue_) + (IF Delaying THEN 1 ELSE 0) <= 2 * posted)'
  <2>1. Len(e) \in Nat BY <1>0, <1>2, SMT DEF Inserted
  <2> QED BY <1>0, <1>1, <1>5, <1>9, <2>1, SMT
<1>13. (~closed => EventsOK(queue_, lastEvent + 1, events))' /\ LibOK(queue_)'
  BY <1>1, <1>6, <1>7
<1> QED BY <1>5, <1>10, <1>11, <1>12, <1>13 DEF Ordered

\* What PostMessage does to the stack.
LEMMA PostFrames ==
    ASSUME IInv, NEW kind \in Posted, PostMessage(kind)
    PROVE  /\ \/ HasTop("waiting") /\ paused_for_messages_ /\ ~HasTop("handle")'
                 /\ ~HasTop("waiting")' /\ frames' # <<>> /\ Len(frames') = Len(frames)
                 /\ Top'.ret = Top.ret
                 /\ \A i \in 1 .. Len(frames) - 1 : frames'[i] = frames[i]
              \/ frames' = frames /\ ~(HasTop("waiting") /\ paused_for_messages_)
           /\ Delaying' => Delaying /\ Top' = Top
           /\ Delaying => Delaying'
<1> USE Zenon
<1>1. CASE NotifiesWaiter /\ HasTop("waiting")
  <2>1. frames' = [frames EXCEPT ![Len(frames)].phase = "woken"] BY <1>1 DEF PostMessage
  <2>2. /\ frames' # <<>> /\ Len(frames') = Len(frames) /\ Top'.phase = "woken"
        /\ \A i \in 1 .. Len(frames) - 1 : frames'[i] = frames[i] /\ Top'.ret = Top.ret
        /\ Top'.ret = Top.ret
    BY <1>1, <2>1, Woken
  <2> QED BY <1>1, <2>2 DEF HasTop, NotifiesWaiter, Delaying
<1>2. CASE ~(NotifiesWaiter /\ HasTop("waiting"))
  <2>1. frames' = frames BY <1>2 DEF PostMessage
  <2> QED BY <1>2, <2>1 DEF NotifiesWaiter, Delaying, HasTop, Top
<1> QED BY <1>1, <1>2

LEMMA OrderedPost ==
    ASSUME IInv, Ordered, NEW kind \in Posted, PostMessage(kind)
    PROVE  Ordered'
<1> USE Zenon
<1>0. /\ Len(queue_) \in Nat /\ Len(oob_queue_) \in Nat /\ taken \in Nat /\ posted \in Nat
      /\ events \in Nat /\ lastEvent \in Nat /\ queue_ \in Seq(Message)
      /\ oob_queue_ \in Seq(Message) /\ WalksEnd(queue_) /\ Types
      /\ \A i \in 1 .. Len(queue_) : queue_[i].id \in Nat /\ ~IsOOB(queue_[i])
      /\ \A i \in 1 .. Len(oob_queue_) : oob_queue_[i].id \in Nat
  BY Counters DEF IInv
<1>1. UNCHANGED <<taken, lastEvent, closed>> /\ ~closed /\ posted' = posted + 1
  BY DEF PostMessage
<1>2. (Delaying' <=> Delaying) /\ (Delaying' => Top' = Top) BY PostFrames
<1>3. CASE kind \in OOBKind
  <2> DEFINE m == [kind |-> kind, id |-> posted - events + 1]
             q == oob_queue_
             e == oob_queue_'
  <2>1. Inserted(q, e, m, Len(q)) /\ queue_' = queue_ /\ events' = events
    BY <1>0, <1>3, PostedMessage DEF OOBKind
  <2>2. m.id = posted - events + 1 OBVIOUS
  <2> HIDE DEF m
  <2>3. /\ Len(e) = Len(q) + 1 /\ e[Len(q) + 1] = m /\ \A i \in 1 .. Len(q) : e[i] = q[i]
    BY <2>1 DEF Inserted
  <2> HIDE DEF e
  <2>4. OOBOK(q) /\ \A i \in 1 .. Len(q) : q[i].id <= posted - events BY DEF Ordered
  <2>5. \A i \in 1 .. Len(e) : \/ i \in 1 .. Len(q) /\ e[i] = q[i]
                               \/ i = Len(q) + 1 /\ e[i] = m
    BY <1>0, <2>3, SMT
  <2>6. \A i \in 1 .. Len(e) : e[i].id <= posted + 1 - events
    BY <1>0, <2>2, <2>4, <2>5, SMT
  <2>7. ASSUME NEW i \in 1 .. Len(e), NEW j \in 1 .. Len(e), i < j PROVE e[i].id < e[j].id
    <3>1. i \in 1 .. Len(q) /\ e[i] = q[i] BY <1>0, <2>3, <2>7, SMT
    <3>2. CASE j \in 1 .. Len(q) BY <2>3, <2>4, <2>7, <3>1, <3>2 DEF OOBOK
    <3>3. CASE j = Len(q) + 1
      <4>1. e[j].id = posted - events + 1 /\ e[i].id <= posted - events /\ e[i].id \in Nat
        BY <1>0, <2>2, <2>3, <2>4, <3>1, <3>3
      <4> QED BY <1>0, <4>1, SMT
    <3> QED BY <2>5, <3>2, <3>3
  <2>8. ASSUME NEW x \in Nat, x <= posted - events, Later(x)
        PROVE  \A i \in 1 .. Len(e) : x < e[i].id
    <3> SUFFICES ASSUME NEW i \in 1 .. Len(e) PROVE x < e[i].id OBVIOUS
    <3>1. CASE i \in 1 .. Len(q) /\ e[i] = q[i] BY <2>8, <3>1 DEF Later
    <3>2. CASE e[i] = m BY <1>0, <2>2, <2>8, <3>2, SMT
    <3> QED BY <2>5, <3>1, <3>2
  <2>9. OOBOK(e) BY <2>7 DEF OOBOK
  <2> DEFINE bound == posted + 1 - events
  <2>10. posted' - events' = bound /\ oob_queue_' = e /\ queue_' = queue_
    BY <1>0, <1>1, <2>1, SMT DEF e
  <2> HIDE DEF bound
  <2>11. (\A j \in 1 .. Len(queue_) : Before(queue_, j) =>
            /\ queue_[j].id <= posted - events /\ Later(queue_[j].id)
            /\ Delaying => queue_[j].id < Top.msg.id)'
    <3>1. ASSUME NEW j \in 1 .. Len(queue_), Before(queue_, j)
          PROVE  /\ queue_[j].id <= bound
                 /\ \A i \in 1 .. Len(e) : queue_[j].id < e[i].id
                 /\ Delaying => queue_[j].id < Top.msg.id
      <4>1. /\ queue_[j].id \in Nat /\ queue_[j].id <= posted - events /\ Later(queue_[j].id)
            /\ Delaying => queue_[j].id < Top.msg.id
        BY <1>0, <3>1 DEF Ordered
      <4> QED BY <1>0, <2>8, <4>1, SMT DEF bound
    <3> QED BY <1>2, <2>10, <3>1 DEF Later, Before
  <2>12. (Delaying => Later(Top.msg.id) /\ Top.msg.id <= posted - events)'
    <3>1. ASSUME Delaying
          PROVE  /\ \A i \in 1 .. Len(e) : Top.msg.id < e[i].id
                 /\ Top.msg.id <= bound
      <4>1. Later(Top.msg.id) /\ Top.msg.id <= posted - events BY <3>1 DEF Ordered
      <4>2. Top.msg.id \in Nat
        <5>1. Top \in Frame BY <3>1, InUse DEF Delaying, HasTop
        <5> QED BY <5>1, BoundAssumption, SMT DEF Frame, Message
      <4> QED BY <1>0, <2>8, <4>1, <4>2, SMT DEF bound
    <3> QED BY <1>2, <2>10, <3>1 DEF Later
  <2>13. (taken + Len(queue_) + 2 * Len(oob_queue_) + (IF Delaying THEN 1 ELSE 0) <= 2 * posted)'
    <3> DEFINE d == IF Delaying THEN 1 ELSE 0
               a == Len(queue_)
               b == Len(q)
               b1 == Len(e)
    <3>1. d \in {0, 1} /\ taken + a + 2 * b + d <= 2 * posted BY DEF Ordered
    <3>2. b1 = b + 1 /\ a \in Nat /\ b \in Nat BY <1>0, <2>3
    <3> HIDE DEF d, a, b, b1
    <3>3. taken + a + 2 * b1 + d <= 2 * (posted + 1) BY <1>0, <3>1, <3>2, SMT
    <3> QED BY <1>1, <1>2, <2>1, <3>3 DEF a, b1, d, e
  <2>14. /\ (lastEvent <= events)' /\ (~closed => EventsOK(queue_, lastEvent + 1, events))'
         /\ LibOK(queue_)'
    BY <1>1, <2>1 DEF Ordered
  <2>15. (\A i \in 1 .. Len(oob_queue_) : oob_queue_[i].id <= posted - events)'
    <3>1. \A i \in 1 .. Len(e) : e[i].id <= bound BY <2>6 DEF bound
    <3> QED BY <2>10, <3>1
  <2>16. OOBOK(oob_queue_)' BY <2>9 DEF e
  <2> QED BY <2>11, <2>12, <2>13, <2>14, <2>15, <2>16 DEF Ordered
<1>4. CASE kind = "event"
  <2> DEFINE m == [kind |-> "event", id |-> events + 1]
             q == queue_
             e == queue_'
  <2>1. Inserted(q, e, m, Len(q)) /\ oob_queue_' = oob_queue_ /\ events' = events + 1
    BY <1>0, <1>4, PostedMessage DEF OOBKind
  <2>2. m.id = events + 1 /\ m.kind = "event" OBVIOUS
  <2> HIDE DEF m
  <2>3. /\ Len(e) = Len(q) + 1 /\ e[Len(q) + 1] = m /\ \A i \in 1 .. Len(q) : e[i] = q[i]
    BY <2>1 DEF Inserted
  <2> HIDE DEF e
  <2>4. EventsOK(q, lastEvent + 1, events) /\ LibOK(q) /\ lastEvent <= events
    BY <1>1 DEF Ordered
  <2>5. EventsOK(e, lastEvent + 1, events + 1)
    <3>1. lastEvent + 1 \in Nat /\ lastEvent + 1 <= events + 1 BY <1>0, <2>4, SMT
    <3> QED BY <1>0, <2>1, <2>2, <2>4, <3>1, EventsAppended
  <2>6. LibOK(e)
    <3>1. Len(q) \in 0 .. Len(q) BY <1>0, SMT
    <3> QED BY <1>0, <2>1, <2>2, <2>4, <3>1, LibInserted
  <2>7. posted' - events' = posted - events BY <1>0, <1>1, <2>1, SMT
  <2>8. (\A j \in 1 .. Len(queue_) : Before(queue_, j) =>
            /\ queue_[j].id <= posted - events /\ Later(queue_[j].id)
            /\ Delaying => queue_[j].id < Top.msg.id)'
    <3>1. ASSUME NEW j \in 1 .. Len(e), Before(e, j)
          PROVE  /\ e[j].id <= posted - events /\ Later(e[j].id)
                 /\ Delaying => e[j].id < Top.msg.id
      <4>1. j \in 1 .. Len(q) /\ e[j] = q[j] BY <1>0, <2>2, <2>3, <3>1, SMT DEF Before
      <4> QED BY <3>1, <4>1 DEF Ordered, Before
    <3> QED BY <1>2, <2>1, <2>7, <3>1 DEF Later, Before, e
  <2>9. (Delaying => Later(Top.msg.id) /\ Top.msg.id <= posted - events)'
    BY <1>2, <2>1, <2>7 DEF Ordered, Later
  <2>10. (taken + Len(queue_) + 2 * Len(oob_queue_) + (IF Delaying THEN 1 ELSE 0) <= 2 * posted)'
    <3> DEFINE d == IF Delaying THEN 1 ELSE 0
               a == Len(q)
               a1 == Len(e)
               b == Len(oob_queue_)
    <3>1. d \in {0, 1} /\ taken + a + 2 * b + d <= 2 * posted BY DEF Ordered
    <3>2. a1 = a + 1 /\ a \in Nat /\ b \in Nat BY <1>0, <2>3
    <3> HIDE DEF d, a, a1, b
    <3>3. taken + a1 + 2 * b + d <= 2 * (posted + 1) BY <1>0, <3>1, <3>2, SMT
    <3> QED BY <1>1, <1>2, <2>1, <3>3 DEF a1, b, d, e
  <2>11. (lastEvent <= events)' /\ (~closed => EventsOK(queue_, lastEvent + 1, events))'
         /\ LibOK(queue_)'
    BY <1>0, <1>1, <2>1, <2>4, <2>5, <2>6, SMT DEF e
  <2>12. OOBOK(oob_queue_)' /\ (\A i \in 1 .. Len(oob_queue_) : oob_queue_[i].id <= posted - events)'
    BY <2>1, <2>7 DEF Ordered
  <2> QED BY <2>8, <2>9, <2>10, <2>11, <2>12 DEF Ordered
<1> QED BY <1>3, <1>4, BoundAssumption

-----------------------------------------------------------------------------
(* What a step of HandleMessages does: it takes a control message, takes a *)
(* message of queue_, or returns.                                          *)
TakesOOB ==
  /\ oob_queue_ # <<>> /\ oob_queue_' = Tail(oob_queue_) /\ UNCHANGED queue_
  /\ Top'.msg = Head(oob_queue_) /\ lastEvent' = lastEvent

TakesNormal ==
  /\ oob_queue_ = <<>> /\ queue_ # <<>> /\ queue_' = Tail(queue_) /\ UNCHANGED oob_queue_
  /\ Top'.msg = queue_[1]
  /\ lastEvent' = IF queue_[1].kind = "event" THEN queue_[1].id ELSE lastEvent

TakesOne ==
  /\ TakesOOB \/ TakesNormal
  /\ frames' # <<>> /\ Len(frames') = Len(frames) /\ Top'.ret = Top.ret
  /\ Top'.phase = "handle" /\ \A i \in 1 .. Len(frames) - 1 : frames'[i] = frames[i]
  /\ taken' = taken + 1 /\ paused_for_messages_' = paused_for_messages_

LEMMA Dequeues ==
    ASSUME IInv, frames # <<>>, ~killed, NEW fr \in Frame, fr.ret = Top.ret, fr.ret # "wait",
           fr.ret = "main" => fr.normal /\ fr.multiple, fr.ret = "wait_oob" => ~fr.normal,
           DequeueMessage(fr), UNCHANGED <<flags, closed, killed>>
    PROVE  TakesOne \/ (Quiet /\ UNCHANGED <<queue_, oob_queue_, taken, lastEvent>>)
<1> USE Zenon
<1> USE DEF flags
<1>0. Types BY DEF IInv
<1>1. CASE oob_queue_ # <<>>
  <2> DEFINE m == Head(oob_queue_)
  <2>1. Take(m, fr) /\ oob_queue_' = Tail(oob_queue_) /\ UNCHANGED queue_
    BY <1>1 DEF DequeueMessage
  <2>2. m \in Message /\ IsOOB(m) BY <1>0, <1>1, Rest, SMT DEF Types
  <2>3. m.kind # "event" BY <2>2 DEF IsOOB, OOBKind
  <2> HIDE DEF m
  <2>4. /\ taken' = taken + 1 /\ paused_for_messages_' = paused_for_messages_
        /\ lastEvent' = lastEvent /\ frames' # <<>> /\ Len(frames') = Len(frames)
        /\ \A i \in 1 .. Len(frames) - 1 : frames'[i] = frames[i]
        /\ Top'.phase = "handle" /\ Top'.msg = m /\ Top'.ret = Top.ret
    BY <2>1, <2>2, <2>3, TakeSteps
  <2> QED BY <1>1, <2>1, <2>4 DEF TakesOne, TakesOOB, m
<1>2. CASE oob_queue_ = <<>> /\ queue_ # <<>> /\ AllowNormal(fr)
  <2> DEFINE m == Head(queue_)
  <2>1. Take(m, fr) /\ queue_' = Tail(queue_) /\ UNCHANGED oob_queue_ /\ fr.normal
    BY <1>2 DEF DequeueMessage, AllowNormal
  <2>2. m \in Message /\ m = queue_[1] BY <1>0, <1>2, Rest DEF Types
  <2> HIDE DEF m
  <2>3. /\ taken' = taken + 1 /\ paused_for_messages_' = paused_for_messages_
        /\ lastEvent' = (IF m.kind = "event" THEN m.id ELSE lastEvent)
        /\ frames' # <<>> /\ Len(frames') = Len(frames)
        /\ \A i \in 1 .. Len(frames) - 1 : frames'[i] = frames[i]
        /\ Top'.phase = "handle" /\ Top'.msg = m /\ Top'.ret = Top.ret
    BY <2>1, <2>2, TakeSteps
  <2> QED BY <1>2, <2>1, <2>2, <2>3 DEF TakesOne, TakesNormal
<1>3. CASE oob_queue_ = <<>> /\ ~(queue_ # <<>> /\ AllowNormal(fr))
  <2>1. Return(fr) /\ UNCHANGED <<queue_, oob_queue_, taken, lastEvent>>
    BY <1>3 DEF DequeueMessage, queues
  <2> QED BY <1>3, <2>1, QuietReturn
<1> QED BY <1>1, <1>2, <1>3

\* A step of HandleMessages takes a message or is a quiet one.
LEMMA HandlingSteps ==
    ASSUME IInv, HandleMessages \/ MessageHandled
    PROVE  /\ frames # <<>> /\ UNCHANGED <<closed, posted, events>>
           /\ \/ TakesOne
              \/ /\ Quiet /\ UNCHANGED <<queue_, taken, lastEvent>>
                 /\ oob_queue_' \in {oob_queue_, <<>>}
<1> USE Zenon
<1> USE DEF flags
<1>0. frames # <<>> /\ UNCHANGED <<flags, closed, posted, events, killed>>
  BY DEF HandleMessages, MessageHandled, HasTop
<1>1. /\ Top \in Frame
      /\ Top.phase \in {"enter", "handled"} =>
           /\ Top.ret # "wait" /\ (Top.ret = "main" => Top.normal /\ Top.multiple)
           /\ Top.ret = "wait_oob" => ~Top.normal
  BY <1>0, InUse DEF FrameOK
<1>2. CASE HandleMessages
  <2>1. Top.phase = "enter" /\ ~killed /\ DequeueMessage(Top)
    BY <1>2 DEF HandleMessages, HasTop, IInv, Dying, Unwinding
  <2> QED BY <1>0, <1>1, <2>1, Dequeues
<1>3. CASE MessageHandled
  <2> DEFINE t == Top
             s == Worse(Top.max, Top.status)
             b == Top.normal /\ (Top.multiple \/ IsOOB(Top.msg))
             fr == [t EXCEPT !.max = s, !.normal = b]
  <2>1. /\ Top.phase = "handled"
        /\ IF EndsLoop(Top.status)
           THEN /\ oob_queue_' = <<>> /\ Return(fr) /\ UNCHANGED <<queue_, taken, lastEvent>>
           ELSE DequeueMessage(fr)
    BY <1>3 DEF MessageHandled, HasTop
  <2>2. s \in Status /\ b \in BOOLEAN /\ t \in Frame BY <1>1 DEF Frame, Worse, Status
  <2> HIDE DEF t, s, b
  <2>3. fr \in Frame /\ fr.ret = t.ret /\ fr.multiple = t.multiple /\ fr.normal = b
    BY <2>2 DEF Frame
  <2> HIDE DEF fr
  <2>4. /\ fr.ret = Top.ret /\ fr.ret # "wait" /\ (fr.ret = "main" => fr.normal /\ fr.multiple)
        /\ fr.ret = "wait_oob" => ~fr.normal
    BY <1>1, <2>1, <2>3 DEF t, b
  <2>5. CASE EndsLoop(Top.status)
    <3>1. oob_queue_' = <<>> /\ Return(fr) /\ UNCHANGED <<queue_, taken, lastEvent>>
      BY <2>1, <2>5
    <3> QED BY <1>0, <2>3, <2>4, <3>1, QuietReturn
  <2>6. CASE ~EndsLoop(Top.status)
    <3>1. ~killed BY <1>0, <2>6 DEF EndsLoop, IInv, Dying, Unwinding
    <3> QED BY <1>0, <2>1, <2>3, <2>4, <2>6, <3>1, Dequeues
  <2> QED BY <2>5, <2>6
<1> QED BY <1>0, <1>2, <1>3

LEMMA InitOrdered == Init => Ordered
<1> SUFFICES ASSUME Init PROVE Ordered BY Zenon
<1>1. /\ queue_ = <<>> /\ oob_queue_ = <<>> /\ frames = <<>> /\ lastEvent = 0 /\ events = 0
      /\ posted = 0 /\ taken = 0
  BY Zenon DEF Init
<1>2. Len(<<>>) = 0 BY Zenon
<1>3. ~Delaying BY <1>1, Zenon DEF Delaying, HasTop
<1>4. EventsOK(queue_, lastEvent + 1, events)
  <2>1. Events(queue_) = {} BY <1>1, <1>2 DEF Events
  <2>2. lastEvent + 1 .. events = {} BY <1>1
  <2> QED BY <2>1, <2>2, Zenon DEF EventsOK
<1>5. LibOK(queue_) /\ OOBOK(oob_queue_) BY <1>1, <1>2 DEF LibOK, OOBOK
<1>6. taken + Len(queue_) + 2 * Len(oob_queue_) + 0 <= 2 * posted BY <1>1, <1>2
<1>7. (\A i \in 1 .. Len(oob_queue_) : FALSE) /\ (\A j \in 1 .. Len(queue_) : FALSE)
  BY <1>1, <1>2
<1>8. lastEvent <= events BY <1>1
<1> QED BY <1>3, <1>4, <1>5, <1>6, <1>7, <1>8, Zenon DEF Ordered

LEMMA NextOrdered == IInv /\ Ordered /\ [Next]_vars => Ordered'
<1> USE Zenon
<1> SUFFICES ASSUME IInv, Ordered, [Next]_vars PROVE Ordered' OBVIOUS
<1> USE DEF queues
<1>1. CASE HandleMessages \/ MessageHandled
  <2>0. ~closed BY <1>1, HandlingSteps, InUse
  <2>1. CASE TakesOne /\ TakesOOB BY <1>1, <2>1, HandlingSteps, OrderedTakeOOB DEF TakesOne, TakesOOB
  <2>2. CASE TakesOne /\ TakesNormal
    <3>1. ~IsOOB(queue_[1]) BY <2>2, Rest, Counters, SMT DEF TakesNormal
    <3>2. ~Delaying' BY <2>2, <3>1 DEF TakesOne, TakesNormal, Delaying, IsOOB, OOBKind
    <3> QED BY <1>1, <2>0, <2>2, <3>2, HandlingSteps, OrderedTake DEF TakesOne, TakesNormal
  <2>3. CASE /\ Quiet /\ UNCHANGED <<queue_, taken, lastEvent>>
             /\ oob_queue_' \in {oob_queue_, <<>>}
    BY <1>1, <2>3, HandlingSteps, QuietDelays, OrderedKeeps
  <2> QED BY <1>1, <2>1, <2>2, <2>3, HandlingSteps DEF TakesOne
<1>2. CASE HandleDelayed BY <1>2, OrderedDelay
<1>3. ASSUME NEW kind \in Posted, PostMessage(kind) PROVE Ordered' BY <1>3, OrderedPost
<1>4. CASE TaskCallback \/ PausedLocked \/ Run \/ HandleNextMessage
  <2>1. UNCHANGED <<queue_, oob_queue_, taken, lastEvent, closed, posted, events>>
    BY <1>4 DEF TaskCallback, PausedLocked, Run, HandleNextMessage
  <2> QED BY <1>4, <2>1, QuietTask, QuietDelays, OrderedKeeps
<1>5. CASE EndCallback
  <2>1. /\ UNCHANGED <<taken, lastEvent, posted, events>> /\ queue_' = <<>> /\ closed'
        /\ oob_queue_' = <<>>
    BY <1>5 DEF EndCallback
  <2> QED BY <1>5, <2>1, QuietTask, QuietDelays, OrderedKeeps
<1>6. CASE HandlePause \/ HandleKill \/ HandleService \/ DartReturns
  <2>1. UNCHANGED <<queue_, oob_queue_, taken, lastEvent, closed, posted, events>>
    BY <1>6 DEF HandlePause, HandleKill, HandleService, DartReturns
  <2> QED BY <1>6, <2>1, QuietFinish, QuietDelays, OrderedKeeps
<1>7. CASE HandleOOBMessages \/ PauseAndHandleAllMessages
  <2>1. UNCHANGED <<queue_, oob_queue_, taken, lastEvent, closed, posted, events>>
    BY <1>7 DEF HandleOOBMessages, PauseAndHandleAllMessages
  <2> QED BY <1>7, <2>1, QuietWait, QuietDelays, OrderedKeeps
<1>8. CASE WaitEnds \/ WaitReturns
  <2>1. UNCHANGED <<queue_, oob_queue_, taken, lastEvent, closed, posted, events>>
    BY <1>8 DEF WaitEnds, WaitReturns
  <2> QED BY <1>8, <2>1, QuietWaitEnds, QuietDelays, OrderedKeeps
<1>9. CASE UNCHANGED vars
  BY <1>9 DEF vars, Ordered, Delaying, HasTop, Top, Later, Before
<1> QED BY <1>1, <1>2, <1>3, <1>4, <1>5, <1>6, <1>7, <1>8, <1>9 DEF Next, TaskStep

LEMMA TypeOKFollows == IInv /\ Ordered => TypeOK
<1> SUFFICES ASSUME IInv, Ordered PROVE TypeOK BY Zenon
<1>0. Types /\ StackOK(frames) BY Zenon DEF IInv
<1>1. \A i \in DOMAIN queue_ : queue_[i] \in Message /\ ~IsOOB(queue_[i])
  <2>1. queue_ \in Seq(Message) /\ DOMAIN queue_ = 1 .. Len(queue_) BY <1>0 DEF Types
  <2> QED BY <1>0, <2>1 DEF Types
<1>2. \A i \in DOMAIN oob_queue_ : oob_queue_[i] \in Message /\ IsOOB(oob_queue_[i])
  <2>1. oob_queue_ \in Seq(Message) /\ DOMAIN oob_queue_ = 1 .. Len(oob_queue_)
    BY <1>0 DEF Types
  <2> QED BY <1>0, <2>1 DEF Types
<1>3. Len(frames) <= MaxDepth /\ \A i \in DOMAIN frames : frames[i] \in Frame
  BY <1>0 DEF StackOK
<1>4. \A b \in {pool_, task_running_, paused_for_messages_, should_pause_on_start_,
               should_pause_on_exit_, is_paused_on_start_, is_paused_on_exit_, paused,
               has_live_ports, closed, failed, killed} : b \in BOOLEAN
  BY <1>0, Zenon DEF Types
<1>5. taken \in 0 .. 2 * posted /\ lastEvent \in 0 .. events
  <2> DEFINE d == IF Delaying THEN 1 ELSE 0
             a == Len(queue_)
             b == Len(oob_queue_)
  <2>1. a \in Nat /\ b \in Nat /\ d \in Nat /\ taken \in Nat /\ posted \in Nat
        /\ lastEvent \in Nat /\ events \in Nat
    BY Counters, Zenon
  <2>2. taken + a + 2 * b + d <= 2 * posted /\ lastEvent <= events BY Zenon DEF Ordered
  <2> HIDE DEF d, a, b
  <2> QED BY <2>1, <2>2
<1> QED BY <1>0, <1>1, <1>2, <1>3, <1>4, <1>5, Zenon DEF TypeOK, Types

(* Events are handled once and in the order of posting, and the control    *)
(* messages that MessageQueue::Enqueue puts before the events stay before  *)
(* them, in the order in which they were posted.                           *)
THEOREM HandledInOrder == Spec => []MessagesInOrder
<1> USE Zenon
<1>1. Init => IInv /\ Ordered BY InitIInv, InitOrdered
<1>2. IInv /\ Ordered /\ [Next]_vars => (IInv /\ Ordered)' BY NextIInv, NextOrdered
<1>3. IInv /\ Ordered => MessagesInOrder
  <2> SUFFICES ASSUME IInv, Ordered PROVE MessagesInOrder OBVIOUS
  <2>0. Len(queue_) \in Nat /\ queue_ \in Seq(Message) /\ DOMAIN queue_ = 1 .. Len(queue_)
    <3>1. queue_ \in Seq(Message) BY DEF IInv, Types
    <3> QED BY <3>1, SMT
  <2>1. TypeOK BY TypeOKFollows
  <2>2. ~closed =>
          LET pending == {i \in DOMAIN queue_ : queue_[i].kind = "event"}
          IN  /\ {queue_[i].id : i \in pending} = (lastEvent + 1) .. events
              /\ \A i, j \in pending : i < j => queue_[i].id < queue_[j].id
    <3>1. {i \in DOMAIN queue_ : queue_[i].kind = "event"} = Events(queue_)
      BY <2>0 DEF Events
    <3>2. ~closed => EventsOK(queue_, lastEvent + 1, events) BY DEF Ordered
    <3> QED BY <3>1, <3>2 DEF EventsOK
  <2>3. ASSUME NEW j \in DOMAIN queue_, queue_[j].kind = "lib_before", NEW i \in 1 .. j - 1
        PROVE  /\ queue_[i].kind # "event"
               /\ queue_[i].kind = "lib_before" => queue_[i].id < queue_[j].id
    <3>1. i \in 1 .. Len(queue_) /\ j \in 1 .. Len(queue_) /\ i < j BY <2>0, SMT
    <3> QED BY <2>3, <3>1 DEF Ordered, LibOK, Before
  <2> QED BY <2>1, <2>2, <2>3 DEF MessagesInOrder
<1> QED BY <1>1, <1>2, <1>3, PTL DEF Spec

-----------------------------------------------------------------------------
(* Waiting.  Without requests that run Dart code while a thread waits, the *)
(* thread that waits is on top of the stack.                               *)

LEMMA QuietWaits ==
    ASSUME IInv, Waits, StackOK(frames'), Quiet, oob_queue_' \in {oob_queue_, <<>>}
    PROVE  Waits'
<1> USE Zenon
<1>0. Len(<<>>) = 0 OBVIOUS
<1>1. NoEvaluate BY DEF Waits
<1>2. \A i \in 1 .. Len(frames) - 1 : frames[i].ret \notin Waiting
  <2> SUFFICES ASSUME NEW i \in 1 .. Len(frames) - 1, frames[i].ret \in Waiting PROVE FALSE
    OBVIOUS
  <2>1. Len(frames) \in Nat /\ i \in 1 .. Len(frames)
    <3>1. frames \in Seq(Frame) BY DEF IInv, StackOK
    <3> QED BY <3>1, SMT
  <2>2. frames[i].phase = "handle" /\ RunsDart(frames[i].msg) /\ FrameOK(frames[i])
    BY <2>1 DEF IInv, StackOK
  <2>3. IsOOB(frames[i].msg) BY <2>2 DEF FrameOK, Waiting
  <2>4. frames[i].msg.kind = "evaluate" BY <2>2, <2>3 DEF RunsDart, IsOOB, LibKind, OOBKind
  <2> QED BY <1>1, <2>1, <2>2, <2>4 DEF NoEvaluate
<1>3. (\A i \in 1 .. Len(oob_queue_) : oob_queue_[i].kind # "evaluate")'
  BY <1>0, <1>1, SMT DEF NoEvaluate
<1>4. ASSUME NEW i \in 1 .. Len(frames'), frames'[i].phase = "handle"
      PROVE  frames'[i].msg.kind # "evaluate"
  <2>1. CASE i = Len(frames')
    <3>1. Top' = frames'[i] BY <2>1 DEF Top
    <3>2. frames' # <<>> BY <1>0, SMT
    <3>3. \E k \in 1 .. Len(frames) : frames[k].phase = "handle" /\ frames[k].msg = Top'.msg
      BY <1>4, <3>1, <3>2 DEF Quiet, HasTop
    <3> QED BY <1>1, <3>1, <3>3 DEF NoEvaluate
  <2>2. CASE i # Len(frames')
    <3>1. i \in 1 .. Len(frames') - 1
      <4>1. frames' \in Seq(Frame) BY DEF StackOK
      <4> QED BY <2>2, <4>1, SMT
    <3> QED BY <1>1, <1>4, <3>1 DEF NoEvaluate, Quiet
  <2> QED BY <2>1, <2>2
<1>5. NoEvaluate' BY <1>3, <1>4 DEF NoEvaluate
<1>6. (frames # <<>> /\ Top.ret \in Waiting => paused_for_messages_)'
  BY <1>2, SMT DEF Quiet, Waits, Waiting
<1>7. (HasTop("waiting") => queue_ = <<>> /\ oob_queue_ = <<>>)' BY DEF Quiet
<1> QED BY <1>5, <1>6, <1>7 DEF Waits, Waiting

LEMMA TakesWaits ==
    ASSUME IInv, Waits, frames # <<>>, StackOK(frames'), TakesOne
    PROVE  Waits'
<1> USE Zenon
<1>0. Len(frames) \in Nat /\ Len(frames) # 0 BY InUse
<1>1. /\ frames' # <<>> /\ Len(frames') = Len(frames) /\ Top'.ret = Top.ret
      /\ Top'.phase = "handle" /\ \A i \in 1 .. Len(frames) - 1 : frames'[i] = frames[i]
      /\ paused_for_messages_' = paused_for_messages_
  BY DEF TakesOne
<1>2. NoEvaluate BY DEF Waits
<1>3. /\ Top'.msg.kind # "evaluate"
      /\ \A i \in 1 .. Len(oob_queue_') : oob_queue_'[i].kind # "evaluate"
  <2>1. CASE TakesOOB
    <3>1. /\ Len(oob_queue_) \in Nat /\ Len(oob_queue_) # 0 /\ Top'.msg = oob_queue_[1]
          /\ Len(oob_queue_') = Len(oob_queue_) - 1
          /\ \A i \in 1 .. Len(oob_queue_) - 1 : oob_queue_'[i] = oob_queue_[i + 1]
      BY <2>1, Rest, Counters DEF TakesOOB
    <3>2. 1 \in 1 .. Len(oob_queue_)
          /\ \A i \in 1 .. Len(oob_queue_') : i + 1 \in 1 .. Len(oob_queue_)
      BY <3>1, SMT
    <3> QED BY <1>2, <3>1, <3>2 DEF NoEvaluate
  <2>2. CASE TakesNormal
    <3>1. ~IsOOB(queue_[1]) /\ Top'.msg = queue_[1] /\ oob_queue_' = oob_queue_
      BY <2>2, Rest, Counters, SMT DEF TakesNormal
    <3> QED BY <1>2, <3>1 DEF NoEvaluate, IsOOB, OOBKind
  <2> QED BY <2>1, <2>2 DEF TakesOne
<1>4. \A i \in 1 .. Len(frames') : frames'[i].phase = "handle" => frames'[i].msg.kind # "evaluate"
  <2> SUFFICES ASSUME NEW i \in 1 .. Len(frames'), frames'[i].phase = "handle"
               PROVE  frames'[i].msg.kind # "evaluate"
    OBVIOUS
  <2>1. CASE i = Len(frames') BY <1>3, <2>1 DEF Top
  <2>2. CASE i # Len(frames')
    <3>1. i \in 1 .. Len(frames) - 1 /\ i \in 1 .. Len(frames) BY <1>0, <1>1, <2>2, SMT
    <3> QED BY <1>1, <1>2, <3>1 DEF NoEvaluate
  <2> QED BY <2>1, <2>2
<1>5. NoEvaluate' BY <1>3, <1>4 DEF NoEvaluate
<1>6. (frames # <<>> /\ Top.ret \in {"wait", "wait_oob"} => paused_for_messages_)'
  BY <1>1 DEF Waits
<1>7. ~HasTop("waiting")' BY <1>1 DEF HasTop
<1> QED BY <1>5, <1>6, <1>7 DEF Waits

\* A message that is posted wakes up the thread that waits.
LEMMA PostWaits ==
    ASSUME IInv, Waits, NEW kind \in Posted, kind # "evaluate", PostMessage(kind), StackOK(frames')
    PROVE  Waits'
<1> USE Zenon
<1>0. Types /\ NoEvaluate /\ paused_for_messages_' = paused_for_messages_
  BY DEF IInv, Waits, PostMessage
<1>1. HasTop("waiting") => paused_for_messages_
  <2> SUFFICES ASSUME HasTop("waiting") PROVE paused_for_messages_ OBVIOUS
  <2>1. frames # <<>> /\ Top.phase = "waiting" BY DEF HasTop
  <2>2. Top.ret = "wait" BY <2>1, InUse DEF FrameOK
  <2> QED BY <2>1, <2>2 DEF Waits
<1>2. \A i \in 1 .. Len(oob_queue_') : oob_queue_'[i].kind # "evaluate"
  <2>1. CASE oob_queue_' = oob_queue_ BY <1>0, <2>1 DEF NoEvaluate
  <2>2. CASE kind \in OOBKind
    <3> DEFINE m == [kind |-> kind, id |-> posted - events + 1]
               K == Kind \ {"evaluate"}
    <3>1. m \in Message /\ Inserted(oob_queue_, oob_queue_', m, Len(oob_queue_))
      BY <1>0, <2>2, PostedMessage DEF OOBKind
    <3>2. m.kind \in K BY <2>2 DEF Kind
    <3>3. /\ Len(oob_queue_) \in 0 .. Len(oob_queue_) /\ oob_queue_ \in Seq(Message)
      BY <1>0, SMT DEF Types
    <3>4. ASSUME NEW i \in 1 .. Len(oob_queue_) PROVE oob_queue_[i].kind \in K
      <4>1. oob_queue_[i] \in Message BY <3>3, SMT
      <4> QED BY <1>0, <4>1 DEF Message, NoEvaluate
    <3> HIDE DEF m, K
    <3>5. \A i \in 1 .. Len(oob_queue_') : oob_queue_'[i].kind \in K
      BY <3>1, <3>2, <3>3, <3>4, InsertedKind
    <3> QED BY <3>5 DEF K
  <2> QED BY <1>0, <2>1, <2>2, PostedMessage
<1>3. CASE HasTop("waiting")
  <2>1. /\ ~HasTop("handle")' /\ ~HasTop("waiting")' /\ frames' # <<>>
        /\ Len(frames') = Len(frames) /\ Top'.ret = Top.ret
        /\ \A i \in 1 .. Len(frames) - 1 : frames'[i] = frames[i]
    BY <1>1, <1>3, PostFrames
  <2>2. Len(frames) \in Nat BY <1>3, InUse DEF HasTop
  <2>3. ASSUME NEW i \in 1 .. Len(frames'), frames'[i].phase = "handle"
        PROVE  frames'[i].msg.kind # "evaluate"
    <3>1. i # Len(frames') BY <2>1, <2>3 DEF HasTop, Top
    <3>2. i \in 1 .. Len(frames) - 1 /\ i \in 1 .. Len(frames) BY <2>1, <2>2, <3>1, SMT
    <3> QED BY <1>0, <2>1, <2>3, <3>2 DEF NoEvaluate
  <2>4. NoEvaluate' BY <1>2, <2>3 DEF NoEvaluate
  <2>5. (frames # <<>> /\ Top.ret \in {"wait", "wait_oob"} => paused_for_messages_)'
    BY <1>0, <1>3, <2>1 DEF Waits, HasTop
  <2> QED BY <2>1, <2>4, <2>5 DEF Waits
<1>4. CASE ~HasTop("waiting")
  <2>1. frames' = frames BY <1>4, PostFrames
  <2>2. NoEvaluate' BY <1>0, <1>2, <2>1 DEF NoEvaluate
  <2> QED BY <1>0, <1>4, <2>1, <2>2 DEF Waits, HasTop, Top
<1> QED BY <1>3, <1>4

LEMMA InitWaits == Init => Waits
<1>1. Len(<<>>) = 0 BY Zenon
<1> QED BY <1>1 DEF Init, Waits, NoEvaluate, HasTop

LEMMA NextWaits ==
    ASSUME "evaluate" \notin Posted
    PROVE  IInv /\ Waits /\ [Next]_vars => Waits'
<1> USE Zenon
<1> SUFFICES ASSUME IInv, Waits, [Next]_vars PROVE Waits' OBVIOUS
<1> USE DEF queues
<1>0. StackOK(frames') BY NextIInv DEF IInv
<1>1. CASE HandleMessages \/ MessageHandled BY <1>0, <1>1, HandlingSteps, TakesWaits, QuietWaits
<1>2. ASSUME NEW kind \in Posted, PostMessage(kind) PROVE Waits' BY <1>0, <1>2, PostWaits
<1>3. CASE TaskCallback \/ PausedLocked \/ EndCallback \/ Run \/ HandleNextMessage
  <2>1. oob_queue_' \in {oob_queue_, <<>>}
    BY <1>3 DEF TaskCallback, PausedLocked, EndCallback, Run, HandleNextMessage
  <2> QED BY <1>0, <1>3, <2>1, QuietTask, QuietWaits
<1>4. CASE HandlePause \/ HandleKill \/ HandleService \/ DartReturns \/ HandleDelayed
  <2>1. oob_queue_' \in {oob_queue_, <<>>}
    BY <1>4 DEF HandlePause, HandleKill, HandleService, DartReturns, HandleDelayed
  <2> QED BY <1>0, <1>4, <2>1, QuietFinish, QuietWaits
<1>5. CASE HandleOOBMessages \/ PauseAndHandleAllMessages
  <2>1. oob_queue_' \in {oob_queue_, <<>>}
    BY <1>5 DEF HandleOOBMessages, PauseAndHandleAllMessages
  <2> QED BY <1>0, <1>5, <2>1, QuietWait, QuietWaits
<1>6. CASE WaitEnds \/ WaitReturns
  <2>1. oob_queue_' \in {oob_queue_, <<>>} BY <1>6 DEF WaitEnds, WaitReturns
  <2> QED BY <1>0, <1>6, <2>1, QuietWaitEnds, QuietWaits
<1>7. CASE UNCHANGED vars BY <1>7 DEF vars, Waits, NoEvaluate, HasTop, Top
<1> QED BY <1>1, <1>2, <1>3, <1>4, <1>5, <1>6, <1>7 DEF Next, TaskStep

(* When the task of a handler has ended no control message is left, and    *)
(* events only while the isolate is paused and nobody has resumed it; and  *)
(* there is one task.  This holds whatever messages are posted.            *)
THEOREM EndedTaskHasServed == Spec => [](OneTask /\ Served)
<1>1. IInv => OneTask /\ Served
  <2> USE Zenon
  <2> SUFFICES ASSUME IInv PROVE OneTask /\ Served OBVIOUS
  <2>1. Placed /\ Served BY DEF IInv
  <2>2. frames # <<>> => Root = frames[1].ret /\ Root \in Bottom BY InUse
  <2>3. frames = <<>> => Root = "none" /\ Root \notin TaskRet BY DEF Root, TaskRet
  <2> QED BY <2>1, <2>2, <2>3 DEF OneTask, Placed, Bottom
<1> QED BY <1>1, HandlerInvariant, PTL

(* Nobody who should handle a message lets it lie: with that, the thread   *)
(* that waits in PauseAndHandleAllMessages has nothing to handle, when no  *)
(* service request runs Dart code that could wait as well.                 *)
THEOREM NoMessageIsMissed == ASSUME "evaluate" \notin Posted
                             PROVE  Spec => []NoMissedMessage
<1> USE Zenon
<1>1. Init => Waits BY InitWaits
<1>2. IInv /\ Waits /\ [Next]_vars => Waits' BY NextWaits
<1>3. IInv /\ OneTask /\ Served /\ Waits => NoMissedMessage
  BY DEF NoMissedMessage, Served, Waits, IInv, Paused
<1> QED BY <1>1, <1>2, <1>3, HandlerInvariant, EndedTaskHasServed, PTL DEF Spec
=============================================================================
