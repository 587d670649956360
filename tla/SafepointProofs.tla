--------------------------- MODULE SafepointProofs ---------------------------
(***************************************************************************)
(* Proofs that the safepoint protocol keeps its promises for every finite  *)
(* set of threads and every number of operations.                          *)
(***************************************************************************)
EXTENDS Safepoint, FiniteSetTheorems, TLAPS

-----------------------------------------------------------------------------
(* Threads that own no level.  A step of such a thread cannot disturb      *)
(* ownership (MutatorFrame), and a step of one thread cannot disturb what  *)
(* the locations of the others determine (LocFrame); the lemmas of the     *)
(* actions follow.                                                         *)

\* A step that changes neither the active list, nor the request bits, nor the
\* at bits keeps the sets the counters count.
LEMMA NotParkedUnchanged ==
    ASSUME active' = active, req' = req, at' = at
    PROVE  \A l \in Level : NotParked(l)' = NotParked(l)
BY Zenon DEF NotParked, IsAtSafepoint

\* A step of t leaves alone what the other threads' locations determine.
LEMMA LocFrame ==
    ASSUME LocInv, NEW t \in Thread, LocAt(t)',
           \A u \in Thread \ {t} :
               /\ pc'[u] = pc[u] /\ ret'[u] = ret[u] /\ level'[u] = level[u]
               /\ at'[u] = at[u] /\ req'[u] = req[u] /\ bypass'[u] = bypass[u]
               /\ u \in active' <=> u \in active
    PROVE  LocInv'
<1> USE Zenon
<1> SUFFICES ASSUME NEW u \in Thread PROVE LocAt(u)' BY DEF LocInv
<1>1. CASE u = t BY <1>1
<1>2. CASE u # t
  <2>1. LocAt(u) BY DEF LocInv
  <2> QED BY <1>2, <2>1 DEF LocAt
<1> QED BY <1>1, <1>2

\* The locations of a thread that owns a level.
OwnerLoc == {"st_notify", "st_parked", "st_lower", "op", "rt_notify"}

\* A step of a thread that owns no level, before and after, leaves ownership
\* and requests alone, as long as the participants of no loop change.
LEMMA MutatorFrame ==
    ASSUME IInv, NEW t \in Thread, NEW x \in Loc \ OwnerLoc,
           pc[t] \notin OwnerLoc, pc' = [pc EXCEPT ![t] = x],
           UNCHANGED <<owner, count, lock, todo, req>>,
           \A u \in Thread \ {t} : opLevel'[u] = opLevel[u],
           \A u \in Thread : Participants(u)' = Participants(u)
    PROVE  /\ OwnerInv' /\ RequestsHaveAnOwner' /\ RequestInv'
           /\ (\A l \in Level : NotParked(l)' \subseteq NotParked(l)) => ParkedInv'
<1> USE Zenon
<1>1. pc \in [Thread -> Loc] /\ opLevel \in [Thread -> Level]
  BY DEF IInv, TypeOK
<1>2. /\ pc'[t] \notin OwnerLoc
      /\ \A u \in Thread \ {t} : pc'[u] = pc[u] /\ opLevel'[u] = opLevel[u]
  BY <1>1
<1>3. \A u \in Thread, l \in Level : Owns(u, l)' <=> Owns(u, l)
  BY <1>2 DEF Owns, OwnerLoc
<1>4. OwnerInv' BY <1>2, <1>3, SMT DEF IInv, OwnerInv, OwnerLoc
<1>5. RequestsHaveAnOwner'
  <2>1. \A l \in Level : owner[l] # t
    BY SMT DEF IInv, OwnerInv, Owns, OwnerLoc
  <2>2. owner \in [Level -> Thread \cup {NoThread}] /\ req \in [Thread -> SUBSET Level]
    BY DEF IInv, TypeOK
  <2> QED BY <1>2, <2>1, <2>2, SMT DEF IInv, RequestsHaveAnOwner
<1>6. RequestInv' BY <1>2 DEF IInv, RequestInv, OwnerLoc
<1>7. ASSUME \A l \in Level : NotParked(l)' \subseteq NotParked(l)
      PROVE  ParkedInv'
  BY <1>1, <1>2, <1>7 DEF IInv, ParkedInv, OwnerLoc
<1> QED BY <1>4, <1>5, <1>6, <1>7

\* A step that claims a free level for a thread that owned none.
LEMMA ClaimFrame ==
    ASSUME IInv, NEW t \in Thread, NEW l \in Level,
           pc[t] \notin OwnerLoc, pc' = [pc EXCEPT ![t] = "st_notify"],
           opLevel' = [opLevel EXCEPT ![t] = l],
           lock = NoThread, lock' = t, todo' = Participants(t),
           ~SafepointInProgress(l), SetSafepointInProgress(t, l),
           UNCHANGED <<req, active, bypass>>
    PROVE  /\ OwnerInv' /\ RequestsHaveAnOwner' /\ RequestInv'
           /\ (\A k \in Level : NotParked(k)' \subseteq NotParked(k)) => ParkedInv'
<1> USE Zenon
<1> USE DEF SetSafepointInProgress
<1>1. /\ pc \in [Thread -> Loc] /\ opLevel \in [Thread -> Level]
      /\ owner \in [Level -> Thread \cup {NoThread}] /\ count \in [Level -> Nat]
      /\ req \in [Thread -> SUBSET Level]
  BY DEF IInv, TypeOK
<1>2. owner[l] = NoThread
  BY <1>1, SMT DEF IInv, OwnerInv, SafepointInProgress
<1>3. \A u \in Thread : l \notin req[u] BY <1>1, <1>2 DEF IInv, RequestsHaveAnOwner
<1>4. \A u \in Thread : pc[u] \notin {"st_notify", "rt_notify"}
  BY ThreadAssumption DEF IInv, OwnerInv
<1>5. \A u \in Thread : Participants(u)' = Participants(u) BY DEF Participants
<1>6. OwnerInv'
  <2>1. \A u \in Thread \ {t}, k \in Level : Owns(u, k)' <=> Owns(u, k)
    BY <1>1 DEF Owns
  <2>2. \A k \in Level : Owns(t, k)' <=> k = l BY <1>1 DEF Owns
  <2>3. \A k \in Level : owner[k] # t BY DEF IInv, OwnerInv, Owns, OwnerLoc
  <2>4. \A u \in Thread : ~Owns(u, l) BY <1>2, ThreadAssumption DEF IInv, OwnerInv
  <2>5. \A u \in Thread, k \in Level : (owner[k] = u)' <=> Owns(u, k)'
    BY <1>1, <2>1, <2>2, <2>3, <2>4, SMT DEF IInv, OwnerInv
  <2>6. \A k \in Level : (owner[k] = NoThread)' <=> (count[k] = 0)'
    BY <1>1, ThreadAssumption, SMT DEF IInv, OwnerInv
  <2>7. \A u \in Thread : /\ (lock = u)' <=> (pc[u] \in {"st_notify", "rt_notify"})'
                          /\ (pc[u] \in {"st_notify", "rt_notify"})' => u = t
                          /\ pc'[u] # "rt_notify"
    BY <1>1, <1>4
  <2> QED BY <1>5, <2>5, <2>6, <2>7, SMT DEF OwnerInv
<1>7. RequestsHaveAnOwner'
  <2>1. \A k \in Level : owner[k] # t BY DEF IInv, OwnerInv, Owns, OwnerLoc
  <2> QED BY <1>1, <1>3, <2>1, SMT DEF IInv, RequestsHaveAnOwner
<1>8. RequestInv'
  BY <1>1, <1>3, <1>4, <1>5 DEF IInv, RequestInv, OwnerLoc
<1>9. ASSUME \A k \in Level : NotParked(k)' \subseteq NotParked(k)
      PROVE  ParkedInv'
  BY <1>1, <1>9 DEF IInv, ParkedInv, OwnerLoc
<1> QED BY <1>6, <1>7, <1>8, <1>9

\* A step that changes no thread's word, location or scope, nor the handlers.
LEMMA WaitFrame ==
    ASSUME IInv, TypeOK',
           UNCHANGED <<pc, ret, level, at, req, bypass, active>>,
           UNCHANGED <<owner, count, notParked, opLevel, lock, todo>>
    PROVE  IInv'
<1> USE Zenon
<1>1. \A l \in Level : NotParked(l)' = NotParked(l) BY NotParkedUnchanged
<1>2. \A u \in Thread : Participants(u)' = Participants(u) BY DEF Participants
<1>3. LocInv' BY DEF IInv, LocInv, LocAt
<1>4. \A u \in Thread, l \in Level : Owns(u, l)' <=> Owns(u, l) BY DEF Owns
<1>5. OwnerInv' BY <1>2, <1>4, SMT DEF IInv, OwnerInv
<1>6. RequestsHaveAnOwner' /\ RequestInv'
  BY <1>2, SMT DEF IInv, RequestsHaveAnOwner, RequestInv
<1>7. NotParkedIsExact' /\ ParkedInv'
  BY <1>1 DEF IInv, TypeOK, NotParkedIsExact, ParkedInv
<1> QED BY <1>3, <1>5, <1>6, <1>7 DEF IInv

\* A step of t that changes its at bits only at levels t is not asked to park
\* at keeps the sets the counters count.
LEMMA AtFrame ==
    ASSUME NEW t \in Thread, UNCHANGED <<active, req>>,
           \A u \in Thread \ {t} : at'[u] = at[u], active \subseteq Thread,
           \A l \in req[t] : IsAtSafepoint(t, l)' <=> IsAtSafepoint(t, l)
    PROVE  \A l \in Level : NotParked(l)' = NotParked(l)
BY DEF NotParked, IsAtSafepoint

\* A thread that asks to be scheduled is not yet part of the protocol.
LEMMA ScheduleThreadInv ==
    ASSUME IInv, NEW t \in Thread, NEW b \in BOOLEAN, ScheduleThread(t, b)
    PROVE  IInv'
<1> USE Zenon
<1> USE DEF ScheduleThread, handlerVars, lockVars, waitVars
<1>1. TypeOK' BY DEF IInv, TypeOK, Loc, ExecState
<1>2. LocAt(t) BY DEF IInv, LocInv
<1>3. LocAt(t)' BY <1>2 DEF IInv, TypeOK, LocAt, Running
<1>4. LocInv' BY <1>3, LocFrame DEF IInv, TypeOK
<1>5. "sched" \in Loc \ OwnerLoc BY DEF Loc, ExecState, OwnerLoc
<1>6. \A l \in Level : NotParked(l)' = NotParked(l) BY NotParkedUnchanged
<1>7. \A u \in Thread : Participants(u)' = Participants(u)
  BY <1>2 DEF IInv, TypeOK, LocAt, Participants
<1>8. OwnerInv' /\ RequestsHaveAnOwner' /\ RequestInv' /\ ParkedInv'
  BY <1>5, <1>6, <1>7, MutatorFrame DEF OwnerLoc
<1>9. NotParkedIsExact' BY <1>6 DEF IInv, NotParkedIsExact
<1> QED BY <1>1, <1>4, <1>8, <1>9 DEF IInv

\* A thread joins with no request: no operation is in progress, or it
\* bypasses safepoints.
LEMMA ScheduleThreadLockedInv ==
    ASSUME IInv, NEW t \in Thread, ScheduleThreadLocked(t)
    PROVE  IInv'
<1> USE Zenon
<1> USE DEF handlerVars, lockVars, waitVars
<1>1. CASE ~bypass[t] /\ AnySafepointInProgress
  <2>1. UNCHANGED <<pc, ret, level, at, req, bypass, blocked, active, owner,
                    count, notParked, opLevel, lock, todo, tWait, nOps>>
    BY <1>1 DEF ScheduleThreadLocked
  <2>2. tlWait' \in SUBSET Thread BY <1>1 DEF ScheduleThreadLocked, IInv, TypeOK
  <2>3. TypeOK' BY <2>1, <2>2 DEF IInv, TypeOK
  <2> QED BY <2>1, <2>3, WaitFrame
<1>2. CASE bypass[t] \/ ~AnySafepointInProgress
  <2>1. /\ pc[t] = "sched" /\ lock = NoThread
        /\ active' = active \cup {t}
        /\ at' = [at EXCEPT ![t] = {}]
        /\ req' = [req EXCEPT ![t] = {}]
        /\ blocked' = [blocked EXCEPT ![t] = FALSE]
        /\ pc' = [pc EXCEPT ![t] = "vm"]
        /\ UNCHANGED <<ret, level, bypass, owner, count, notParked, opLevel,
                       lock, todo, tlWait, tWait, nOps>>
    BY <1>2 DEF ScheduleThreadLocked
  <2>2. TypeOK' BY <2>1 DEF IInv, TypeOK, Loc, ExecState
  <2>3. LocAt(t) BY DEF IInv, LocInv
  <2>4. LocAt(t)' BY <2>1, <2>3 DEF IInv, TypeOK, LocAt, Running
  <2>5. LocInv' BY <2>1, <2>4, LocFrame DEF IInv, TypeOK
  <2>6. req' = req /\ t \notin active BY <2>1, <2>3 DEF IInv, TypeOK, LocAt
  <2>7. \A l \in Level : NotParked(l)' = NotParked(l)
    BY <2>1, <2>3, <2>6 DEF IInv, TypeOK, LocAt, NotParked, IsAtSafepoint
  <2>8. "vm" \in Loc \ OwnerLoc BY DEF Loc, ExecState, OwnerLoc
  <2>9. CASE bypass[t]
    <3>1. \A u \in Thread : Participants(u)' = Participants(u)
      BY <2>1, <2>9 DEF Participants
    <3> QED BY <2>1, <2>2, <2>5, <2>6, <2>7, <2>8, <3>1, MutatorFrame
            DEF OwnerLoc, IInv, NotParkedIsExact
  <2>10. CASE ~AnySafepointInProgress
    <3>1. \A u \in Thread : pc[u] \notin OwnerLoc
      <4>1. \A l \in Level : owner[l] = NoThread
        BY <2>10, SMT DEF IInv, TypeOK, OwnerInv, AnySafepointInProgress,
                     SafepointInProgress
      <4> QED BY <4>1, ThreadAssumption, SMT DEF IInv, TypeOK, OwnerInv, Owns, OwnerLoc
    <3>2. \A u \in Thread : pc'[u] \notin OwnerLoc
      BY <2>1, <3>1 DEF IInv, TypeOK, OwnerLoc
    <3>3. \A u \in Thread, l \in Level : ~Owns(u, l) /\ ~Owns(u, l)'
      BY <3>1, <3>2 DEF Owns, OwnerLoc
    <3>4. OwnerInv'
      BY <2>1, <3>1, <3>2, <3>3, SMT DEF IInv, OwnerInv, OwnerLoc
    <3>5. RequestsHaveAnOwner' BY <2>1, <2>6 DEF IInv, RequestsHaveAnOwner
    <3>6. RequestInv' /\ ParkedInv'
      BY <3>2 DEF RequestInv, ParkedInv, OwnerLoc
    <3>7. NotParkedIsExact' BY <2>1, <2>7 DEF IInv, NotParkedIsExact
    <3> QED BY <2>2, <2>5, <3>4, <3>5, <3>6, <3>7 DEF IInv
  <2> QED BY <1>2, <2>9, <2>10
<1> QED BY <1>1, <1>2 DEF ScheduleThreadLocked

\* A runtime call sets its level and polls.
LEMMA TransitionGeneratedToVMInv ==
    ASSUME IInv, NEW t \in Thread, NEW k \in Level,
           TransitionGeneratedToVM(t, k)
    PROVE  IInv'
<1> USE Zenon
<1> USE DEF TransitionGeneratedToVM, wordVars, handlerVars, lockVars, waitVars
<1>1. TypeOK' BY DEF IInv, TypeOK, Loc, ExecState, Level, kGC, kGCAndDeopt
<1>2. LocAt(t) BY DEF IInv, LocInv
<1>3. LocAt(t)'
  BY <1>2 DEF IInv, TypeOK, LocAt, Running, AtSafepointBits, Level, kGC,
              kGCAndDeopt
<1>4. LocInv' BY <1>3, LocFrame DEF IInv, TypeOK
<1>5. PICK x \in Loc \ OwnerLoc : pc' = [pc EXCEPT ![t] = x]
  BY DEF Loc, ExecState, OwnerLoc
<1>6. \A l \in Level : NotParked(l)' = NotParked(l) BY NotParkedUnchanged
<1>7. \A u \in Thread : Participants(u)' = Participants(u) BY DEF Participants
<1>8. OwnerInv' /\ RequestsHaveAnOwner' /\ RequestInv' /\ ParkedInv'
  BY <1>5, <1>6, <1>7, MutatorFrame DEF OwnerLoc
<1>9. NotParkedIsExact' BY <1>6 DEF IInv, NotParkedIsExact
<1> QED BY <1>1, <1>4, <1>8, <1>9 DEF IInv

\* Returning to generated code leaves the word alone.
LEMMA TransitionVMToGeneratedInv ==
    ASSUME IInv, NEW t \in Thread, TransitionVMToGenerated(t)
    PROVE  IInv'
<1> USE Zenon
<1> USE DEF TransitionVMToGenerated, wordVars, handlerVars, lockVars, waitVars
<1>1. TypeOK' BY DEF IInv, TypeOK, Loc, ExecState, Level, kGC, kGCAndDeopt
<1>2. LocAt(t) BY DEF IInv, LocInv
<1>3. LocAt(t)'
  BY <1>2 DEF IInv, TypeOK, LocAt, Running, AtSafepointBits, Level, kGC,
              kGCAndDeopt
<1>4. LocInv' BY <1>3, LocFrame DEF IInv, TypeOK
<1>5. "gen" \in Loc \ OwnerLoc BY DEF Loc, ExecState, OwnerLoc
<1>6. \A l \in Level : NotParked(l)' = NotParked(l) BY NotParkedUnchanged
<1>7. \A u \in Thread : Participants(u)' = Participants(u) BY DEF Participants
<1>8. OwnerInv' /\ RequestsHaveAnOwner' /\ RequestInv' /\ ParkedInv'
  BY <1>5, <1>6, <1>7, MutatorFrame DEF OwnerLoc
<1>9. NotParkedIsExact' BY <1>6 DEF IInv, NotParkedIsExact
<1> QED BY <1>1, <1>4, <1>8, <1>9 DEF IInv

\* The unlocked poll only decides to block.
LEMMA CheckForSafepointInv ==
    ASSUME IInv, NEW t \in Thread, CheckForSafepoint(t)
    PROVE  IInv'
<1> USE Zenon
<1> USE DEF CheckForSafepoint, wordVars, handlerVars, lockVars, waitVars
<1>1. TypeOK' BY DEF IInv, TypeOK, Loc, ExecState, Level, kGC, kGCAndDeopt
<1>2. LocAt(t) BY DEF IInv, LocInv
<1>3. LocAt(t)'
  BY <1>2 DEF IInv, TypeOK, LocAt, Running, AtSafepointBits, Level, kGC,
              kGCAndDeopt
<1>4. LocInv' BY <1>3, LocFrame DEF IInv, TypeOK
<1>5. "block" \in Loc \ OwnerLoc BY DEF Loc, ExecState, OwnerLoc
<1>6. \A l \in Level : NotParked(l)' = NotParked(l) BY NotParkedUnchanged
<1>7. \A u \in Thread : Participants(u)' = Participants(u) BY DEF Participants
<1>8. OwnerInv' /\ RequestsHaveAnOwner' /\ RequestInv' /\ ParkedInv'
  BY <1>5, <1>6, <1>7, MutatorFrame DEF OwnerLoc
<1>9. NotParkedIsExact' BY <1>6 DEF IInv, NotParkedIsExact
<1> QED BY <1>1, <1>4, <1>8, <1>9 DEF IInv

\* The fast update succeeds only on a thread without requests, which no
\* counter counts.
LEMMA EnterSafepointInv ==
    ASSUME IInv, NEW t \in Thread, NEW s \in ExecState, EnterSafepoint(t, s)
    PROVE  IInv'
<1> USE Zenon
<1> USE DEF handlerVars, lockVars, waitVars
<1>1. /\ pc[t] \notin OwnerLoc /\ ~bypass[t]
      /\ UNCHANGED <<level, req, blocked, bypass, active, owner, count, notParked,
                     opLevel, lock, todo, tlWait, tWait, nOps>>
  BY DEF EnterSafepoint, OwnerLoc
<1>2. LocAt(t) BY DEF IInv, LocInv
<1>3. \A u \in Thread : Participants(u)' = Participants(u)
  BY <1>1 DEF Participants
<1>4. CASE WordIs(t, {})
  <2>1. /\ at' = [at EXCEPT ![t] = AtSafepointBits(level[t])]
        /\ pc' = [pc EXCEPT ![t] = s]
        /\ ret' = ret /\ req[t] = {}
        /\ pc[t] \in {"vm", "gen"} /\ s \in {"native", "blocked"}
        /\ s = "native" => level[t] = kGCAndDeopt
    BY <1>4 DEF EnterSafepoint, WordIs
  <2>2. TypeOK'
    <3>1. at' \in [Thread -> SUBSET Level]
      BY <2>1 DEF IInv, TypeOK, AtSafepointBits, Level, kGC, kGCAndDeopt
    <3>2. pc' \in [Thread -> Loc] BY <2>1 DEF IInv, TypeOK, Loc
    <3> QED BY <1>1, <2>1, <3>1, <3>2, SMT DEF IInv, TypeOK
  <2>3. LocAt(t)' BY <1>1, <1>2, <2>1, SMT DEF IInv, TypeOK, LocAt, Running, AtSafepointBits
  <2>4. LocInv' BY <1>1, <2>1, <2>3, LocFrame DEF IInv, TypeOK
  <2>5. \A l \in Level : NotParked(l)' = NotParked(l)
    BY <1>1, <2>1, AtFrame DEF IInv, TypeOK
  <2>6. s \in Loc \ OwnerLoc BY DEF Loc, ExecState, OwnerLoc
  <2>7. OwnerInv' /\ RequestsHaveAnOwner' /\ RequestInv' /\ ParkedInv'
    BY <1>1, <1>3, <2>1, <2>5, <2>6, MutatorFrame
  <2>8. NotParkedIsExact' BY <1>1, <2>5 DEF IInv, NotParkedIsExact
  <2> QED BY <2>2, <2>4, <2>7, <2>8 DEF IInv
<1>5. CASE ~WordIs(t, {})
  <2>1. /\ at' = at
        /\ pc' = [pc EXCEPT ![t] = "enter"]
        /\ ret' = [ret EXCEPT ![t] = s]
        /\ pc[t] \in {"vm", "gen"} /\ s \in {"native", "blocked"}
        /\ s = "native" => level[t] = kGCAndDeopt
    BY <1>5 DEF EnterSafepoint
  <2>2. TypeOK'
    <3>1. pc' \in [Thread -> Loc] BY <2>1 DEF IInv, TypeOK, Loc
    <3>2. ret' \in [Thread -> ExecState] BY <2>1 DEF IInv, TypeOK
    <3> QED BY <1>1, <2>1, <3>1, <3>2 DEF IInv, TypeOK
  <2>3. LocAt(t)' BY <1>1, <1>2, <2>1 DEF IInv, TypeOK, LocAt, Running, AtSafepointBits
  <2>4. LocInv' BY <1>1, <2>1, <2>3, LocFrame DEF IInv, TypeOK
  <2>5. \A l \in Level : NotParked(l)' = NotParked(l)
    BY <1>1, <2>1, NotParkedUnchanged
  <2>6. "enter" \in Loc \ OwnerLoc BY DEF Loc, ExecState, OwnerLoc
  <2>7. OwnerInv' /\ RequestsHaveAnOwner' /\ RequestInv' /\ ParkedInv'
    BY <1>1, <1>3, <2>1, <2>5, <2>6, MutatorFrame
  <2>8. NotParkedIsExact' BY <1>1, <2>5 DEF IInv, NotParkedIsExact
  <2> QED BY <2>2, <2>4, <2>7, <2>8 DEF IInv
<1> QED BY <1>4, <1>5

\* The same for the way back.
LEMMA ExitSafepointInv ==
    ASSUME IInv, NEW t \in Thread, NEW s \in ExecState, ExitSafepoint(t, s)
    PROVE  IInv'
<1> USE Zenon
<1> USE DEF handlerVars, lockVars, waitVars
<1>1. /\ pc[t] \notin OwnerLoc
      /\ UNCHANGED <<level, req, blocked, bypass, active, owner, count, notParked,
                     opLevel, lock, todo, tlWait, tWait, nOps>>
  BY DEF ExitSafepoint, OwnerLoc
<1>2. LocAt(t) BY DEF IInv, LocInv
<1>3. \A u \in Thread : Participants(u)' = Participants(u)
  BY <1>1 DEF Participants
<1>4. CASE WordIs(t, AtSafepointBits(level[t]))
  <2>1. /\ at' = [at EXCEPT ![t] = {}]
        /\ pc' = [pc EXCEPT ![t] = s]
        /\ ret' = ret /\ req[t] = {}
        /\ pc[t] \in {"native", "blocked"} /\ s \in {"vm", "gen"}
        /\ s = "gen" => pc[t] = "native"
    BY <1>4 DEF ExitSafepoint, WordIs
  <2>2. TypeOK'
    <3>1. at' \in [Thread -> SUBSET Level]
      BY <2>1 DEF IInv, TypeOK, AtSafepointBits, Level, kGC, kGCAndDeopt
    <3>2. pc' \in [Thread -> Loc] BY <2>1 DEF IInv, TypeOK, Loc
    <3> QED BY <1>1, <2>1, <3>1, <3>2 DEF IInv, TypeOK
  <2>3. LocAt(t)' BY <1>1, <1>2, <2>1 DEF IInv, TypeOK, LocAt, Running, AtSafepointBits
  <2>4. LocInv' BY <1>1, <2>1, <2>3, LocFrame DEF IInv, TypeOK
  <2>5. \A l \in Level : NotParked(l)' = NotParked(l)
    BY <1>1, <2>1, AtFrame DEF IInv, TypeOK
  <2>6. s \in Loc \ OwnerLoc BY DEF Loc, ExecState, OwnerLoc
  <2>7. OwnerInv' /\ RequestsHaveAnOwner' /\ RequestInv' /\ ParkedInv'
    BY <1>1, <1>3, <2>1, <2>5, <2>6, MutatorFrame
  <2>8. NotParkedIsExact' BY <1>1, <2>5 DEF IInv, NotParkedIsExact
  <2> QED BY <2>2, <2>4, <2>7, <2>8 DEF IInv
<1>5. CASE ~WordIs(t, AtSafepointBits(level[t]))
  <2>1. /\ at' = at
        /\ pc' = [pc EXCEPT ![t] = "exit"]
        /\ ret' = [ret EXCEPT ![t] = s]
        /\ pc[t] \in {"native", "blocked"} /\ s \in {"vm", "gen"}
        /\ s = "gen" => pc[t] = "native"
    BY <1>5 DEF ExitSafepoint
  <2>2. TypeOK'
    <3>1. pc' \in [Thread -> Loc] BY <2>1 DEF IInv, TypeOK, Loc
    <3>2. ret' \in [Thread -> ExecState] BY <2>1 DEF IInv, TypeOK
    <3> QED BY <1>1, <2>1, <3>1, <3>2 DEF IInv, TypeOK
  <2>3. LocAt(t)' BY <1>1, <1>2, <2>1 DEF IInv, TypeOK, LocAt, Running, AtSafepointBits
  <2>4. LocInv' BY <1>1, <2>1, <2>3, LocFrame DEF IInv, TypeOK
  <2>5. \A l \in Level : NotParked(l)' = NotParked(l)
    BY <1>1, <2>1, NotParkedUnchanged
  <2>6. "exit" \in Loc \ OwnerLoc BY DEF Loc, ExecState, OwnerLoc
  <2>7. OwnerInv' /\ RequestsHaveAnOwner' /\ RequestInv' /\ ParkedInv'
    BY <1>1, <1>3, <2>1, <2>5, <2>6, MutatorFrame
  <2>8. NotParkedIsExact' BY <1>1, <2>5 DEF IInv, NotParkedIsExact
  <2> QED BY <2>2, <2>4, <2>7, <2>8 DEF IInv
<1> QED BY <1>4, <1>5

\* A thread leaves only when no request at its level is set.
LEMMA ExitSafepointLockedInv ==
    ASSUME IInv, NEW t \in Thread, ExitSafepointLocked(t)
    PROVE  IInv'
<1> USE Zenon
<1> USE DEF handlerVars, lockVars
<1>1. /\ pc[t] = "exit"
      /\ UNCHANGED <<ret, level, req, bypass, active, owner, count, notParked,
                     opLevel, lock, todo, tlWait, nOps>>
  BY DEF ExitSafepointLocked
<1>2. LocAt(t) BY DEF IInv, LocInv
<1>3. CASE IsSafepointRequested(t)
  <2>1. /\ pc' = pc /\ at' = at /\ tWait' = tWait \cup {t}
        /\ blocked' = [blocked EXCEPT ![t] = TRUE]
    BY <1>3 DEF ExitSafepointLocked
  <2>2. TypeOK' BY <1>1, <2>1 DEF IInv, TypeOK
  <2> QED BY <1>1, <2>1, <2>2, WaitFrame
<1>4. CASE ~IsSafepointRequested(t)
  <2>1. /\ blocked' = [blocked EXCEPT ![t] = FALSE]
        /\ at' = [at EXCEPT ![t] = @ \ AtSafepointBits(level[t])]
        /\ pc' = [pc EXCEPT ![t] = ret[t]]
        /\ tWait' = tWait
    BY <1>4 DEF ExitSafepointLocked
  <2>2. /\ ret[t] \in {"vm", "gen"}
        /\ ret[t] = "gen" => level[t] = kGCAndDeopt
        /\ at[t] = AtSafepointBits(level[t])
    BY <1>1, <1>2 DEF LocAt, Running
  <2>3. ret[t] \in Loc \ OwnerLoc BY <2>2 DEF Loc, ExecState, OwnerLoc
  <2>4. at'[t] = {} /\ pc'[t] = ret[t] BY <2>1, <2>2 DEF IInv, TypeOK
  <2>5. TypeOK'
    <3>1. at' \in [Thread -> SUBSET Level] BY <2>1 DEF IInv, TypeOK
    <3>2. pc' \in [Thread -> Loc] BY <2>1, <2>3 DEF IInv, TypeOK
    <3>3. blocked' \in [Thread -> BOOLEAN] BY <2>1 DEF IInv, TypeOK
    <3> QED BY <1>1, <2>1, <3>1, <3>2, <3>3 DEF IInv, TypeOK
  <2>6. LocAt(t)' BY <1>1, <1>2, <2>2, <2>4 DEF LocAt, Running
  <2>7. LocInv' BY <1>1, <2>1, <2>6, LocFrame DEF IInv, TypeOK
  <2>8. \A l \in req[t] : ~IsAtSafepoint(t, l) /\ ~IsAtSafepoint(t, l)'
    <3> SUFFICES ASSUME NEW l \in req[t]
                 PROVE  ~IsAtSafepoint(t, l) /\ ~IsAtSafepoint(t, l)'
      OBVIOUS
    <3>1. l \in Level /\ level[t] \in Level BY DEF IInv, TypeOK
    <3>2. l = kGCAndDeopt /\ level[t] = kGC
      BY <1>4, <3>1, SMT DEF IsSafepointRequested, Level, kGC, kGCAndDeopt
    <3> QED BY <2>2, <2>4, <3>2, SMT DEF IsAtSafepoint, AtSafepointBits, kGC, kGCAndDeopt
  <2>9. \A l \in Level : NotParked(l)' = NotParked(l)
    BY <1>1, <2>1, <2>8, AtFrame DEF IInv, TypeOK
  <2>10. \A u \in Thread : Participants(u)' = Participants(u)
    BY <1>1 DEF Participants
  <2>11. OwnerInv' /\ RequestsHaveAnOwner' /\ RequestInv' /\ ParkedInv'
    BY <1>1, <2>1, <2>3, <2>9, <2>10, MutatorFrame DEF OwnerLoc
  <2>12. NotParkedIsExact' BY <1>1, <2>9 DEF IInv, NotParkedIsExact
  <2> QED BY <2>5, <2>7, <2>11, <2>12 DEF IInv
<1> QED BY <1>3, <1>4

\* The invariant does not rely on who sleeps.
LEMMA SpuriousWakeupInv ==
    ASSUME IInv, NEW t \in Thread, SpuriousWakeup(t)
    PROVE  IInv'
<1> USE DEF SpuriousWakeup, wordVars, handlerVars, lockVars
<1>1. TypeOK' BY Zenon DEF IInv, TypeOK
<1> QED BY <1>1, WaitFrame, Zenon

\* Waiting for a level, or claiming it when it is free, keeps ownership right.
LEMMA ClaimOrWaitInv ==
    ASSUME IInv, NEW t \in Thread, NEW l \in Level, ClaimOrWait(t, l),
           pc[t] \in {"vm", "st_wait"}, lock = NoThread,
           opLevel' = [opLevel EXCEPT ![t] = l],
           UNCHANGED <<req, active, bypass>>
    PROVE  /\ OwnerInv' /\ RequestsHaveAnOwner' /\ RequestInv'
           /\ (\A k \in Level : NotParked(k)' \subseteq NotParked(k)) => ParkedInv'
           /\ pc' \in [Thread -> Loc] /\ pc'[t] \in {"st_wait", "st_notify"}
           /\ \A u \in Thread \ {t} : pc'[u] = pc[u]
           /\ owner' \in [Level -> Thread \cup {NoThread}]
           /\ count' \in [Level -> Nat] /\ lock' \in Thread \cup {NoThread}
           /\ todo' \in SUBSET Thread /\ tlWait' \in SUBSET Thread
<1> USE Zenon
<1>1. pc[t] \notin OwnerLoc /\ TypeOK BY DEF OwnerLoc, IInv
<1>2. CASE SafepointInProgress(l)
  <2>1. /\ tlWait' = tlWait \cup {t}
        /\ pc' = [pc EXCEPT ![t] = "st_wait"]
        /\ UNCHANGED <<owner, count, lock, todo>>
    BY <1>2 DEF ClaimOrWait, lockVars
  <2>2. "st_wait" \in Loc \ OwnerLoc BY DEF Loc, OwnerLoc
  <2>3. /\ \A u \in Thread : Participants(u)' = Participants(u)
        /\ \A u \in Thread \ {t} : opLevel'[u] = opLevel[u]
    BY <1>1 DEF Participants, TypeOK
  <2>4. /\ OwnerInv' /\ RequestsHaveAnOwner' /\ RequestInv'
        /\ (\A k \in Level : NotParked(k)' \subseteq NotParked(k)) => ParkedInv'
    BY <1>1, <2>1, <2>2, <2>3, MutatorFrame
  <2>5. /\ pc' \in [Thread -> Loc] /\ pc'[t] \in {"st_wait", "st_notify"}
        /\ \A u \in Thread \ {t} : pc'[u] = pc[u]
    BY <1>1, <2>1, <2>2 DEF TypeOK
  <2> QED BY <1>1, <2>1, <2>4, <2>5 DEF TypeOK
<1>3. CASE ~SafepointInProgress(l)
  <2>1. /\ SetSafepointInProgress(t, l)
        /\ lock' = t /\ todo' = Participants(t)
        /\ pc' = [pc EXCEPT ![t] = "st_notify"]
        /\ tlWait' = tlWait
    BY <1>3 DEF ClaimOrWait
  <2>2. /\ OwnerInv' /\ RequestsHaveAnOwner' /\ RequestInv'
        /\ (\A k \in Level : NotParked(k)' \subseteq NotParked(k)) => ParkedInv'
    BY <1>1, <1>3, <2>1, ClaimFrame
  <2>3. /\ pc' \in [Thread -> Loc] /\ pc'[t] \in {"st_wait", "st_notify"}
        /\ \A u \in Thread \ {t} : pc'[u] = pc[u]
    BY <1>1, <2>1 DEF TypeOK, Loc
  <2>4. /\ owner' \in [Level -> Thread \cup {NoThread}]
        /\ count' \in [Level -> Nat] /\ todo' \in SUBSET Thread
    BY <1>1, <2>1 DEF TypeOK, SetSafepointInProgress, Participants
  <2> QED BY <1>1, <2>1, <2>2, <2>3, <2>4 DEF TypeOK
<1> QED BY <1>2, <1>3

\* A thread that waited for the level claims it or waits again.
LEMMA SafepointThreadsWakeInv ==
    ASSUME IInv, NEW t \in Thread, SafepointThreadsWake(t)
    PROVE  IInv'
<1> USE Zenon
<1> USE DEF SafepointThreadsWake, wordVars
<1>1. LocAt(t) /\ TypeOK BY DEF IInv, LocInv
<1>2. opLevel[t] \in Level /\ opLevel' = [opLevel EXCEPT ![t] = opLevel[t]]
  BY <1>1 DEF TypeOK
<1>3. \A l \in Level : NotParked(l)' = NotParked(l) BY NotParkedUnchanged
<1>4. /\ OwnerInv' /\ RequestsHaveAnOwner' /\ RequestInv' /\ ParkedInv'
      /\ pc' \in [Thread -> Loc] /\ pc'[t] \in {"st_wait", "st_notify"}
      /\ \A u \in Thread \ {t} : pc'[u] = pc[u]
      /\ owner' \in [Level -> Thread \cup {NoThread}]
      /\ count' \in [Level -> Nat] /\ lock' \in Thread \cup {NoThread}
      /\ todo' \in SUBSET Thread /\ tlWait' \in SUBSET Thread
  BY <1>2, <1>3, ClaimOrWaitInv
<1>5. TypeOK' BY <1>1, <1>4 DEF TypeOK
<1>6. LocAt(t)' BY <1>1, <1>4 DEF LocAt, Running
<1>7. LocInv' BY <1>4, <1>6, LocFrame DEF IInv
<1>8. NotParkedIsExact' BY <1>3 DEF IInv, NotParkedIsExact
<1> QED BY <1>4, <1>5, <1>7, <1>8 DEF IInv

-----------------------------------------------------------------------------
(* The thread that runs an operation, from the end of its requests to the  *)
(* end of its resumption.                                                  *)

\* A step between locations of an owner that leaves the words and the active
\* list alone keeps what locations determine and the sets that are counted.
LEMMA OwnerFrame ==
    ASSUME IInv, NEW t \in Thread, NEW x \in OwnerLoc, pc[t] \in OwnerLoc,
           pc' = [pc EXCEPT ![t] = x],
           UNCHANGED <<ret, level, at, req, bypass, active, opLevel>>
    PROVE  /\ LocInv' /\ pc' \in [Thread -> Loc]
           /\ \A l \in Level : NotParked(l)' = NotParked(l)
           /\ \A u \in Thread : Participants(u)' = Participants(u)
           /\ pc'[t] = x /\ \A u \in Thread \ {t} : pc'[u] = pc[u]
           /\ \A u \in Thread \ {t}, l \in Level : Owns(u, l)' <=> Owns(u, l)
<1> USE Zenon
<1>1. pc'[t] = x /\ \A u \in Thread \ {t} : pc'[u] = pc[u] BY DEF IInv, TypeOK
<1>2. LocAt(t) BY DEF IInv, LocInv
<1>3. LocAt(t)' BY <1>1, <1>2 DEF LocAt, OwnerLoc, Running
<1>4. LocInv' BY <1>1, <1>3, LocFrame DEF IInv
<1>5. pc' \in [Thread -> Loc] BY DEF IInv, TypeOK, Loc, OwnerLoc
<1>6. \A l \in Level : NotParked(l)' = NotParked(l) BY NotParkedUnchanged
<1>7. \A u \in Thread : Participants(u)' = Participants(u) BY DEF Participants
<1>8. \A u \in Thread \ {t}, l \in Level : Owns(u, l)' <=> Owns(u, l)
  BY <1>1 DEF Owns
<1> QED BY <1>1, <1>4, <1>5, <1>6, <1>7, <1>8

\* At the end of the list every participant has been asked.
LEMMA NotifyThreadsDoneInv ==
    ASSUME IInv, NEW t \in Thread, NotifyThreadsDone(t)
    PROVE  IInv'
<1> USE Zenon
<1>1. /\ pc[t] = "st_notify" /\ todo = {} /\ lock' = NoThread
      /\ pc' = [pc EXCEPT ![t] = "st_parked"]
      /\ UNCHANGED <<ret, level, at, req, bypass, active, opLevel>>
      /\ UNCHANGED <<owner, count, notParked, todo, blocked, tlWait, tWait, nOps>>
  BY DEF NotifyThreadsDone, wordVars, handlerVars, lockVars, waitVars
<1>2. "st_parked" \in OwnerLoc /\ pc[t] \in OwnerLoc BY <1>1 DEF OwnerLoc
<1>3. /\ LocInv' /\ pc' \in [Thread -> Loc]
      /\ \A l \in Level : NotParked(l)' = NotParked(l)
      /\ \A u \in Thread : Participants(u)' = Participants(u)
      /\ pc'[t] = "st_parked" /\ \A u \in Thread \ {t} : pc'[u] = pc[u]
      /\ \A u \in Thread \ {t}, l \in Level : Owns(u, l)' <=> Owns(u, l)
  BY <1>1, <1>2, OwnerFrame
<1>4. TypeOK' BY <1>1, <1>3 DEF IInv, TypeOK
<1>5. OwnerInv'
  <2>1. \A l \in Level : Owns(t, l)' <=> Owns(t, l) BY <1>1, <1>3 DEF Owns
  <2>2. \A u \in Thread : pc'[u] \notin {"st_notify", "rt_notify"}
    BY <1>1, <1>3 DEF IInv, OwnerInv
  <2> QED BY <1>1, <1>3, <2>1, <2>2, ThreadAssumption, SMT DEF IInv, OwnerInv
<1>6. RequestsHaveAnOwner' BY <1>1 DEF IInv, RequestsHaveAnOwner
<1>7. RequestInv' BY <1>1, <1>3 DEF IInv, RequestInv
<1>8. ParkedInv' BY <1>1, <1>3 DEF IInv, TypeOK, ParkedInv
<1>9. NotParkedIsExact' BY <1>1, <1>3 DEF IInv, NotParkedIsExact
<1> QED BY <1>3, <1>4, <1>5, <1>6, <1>7, <1>8, <1>9 DEF IInv

\* A deopt operation takes the free GC level; nobody has a GC request then.
LEMMA AcquireLowerLevelSafepointsInv ==
    ASSUME IInv, NEW t \in Thread, AcquireLowerLevelSafepoints(t)
    PROVE  IInv'
<1> USE Zenon
<1> USE DEF wordVars, lockVars
<1>1. /\ pc[t] = "st_lower" /\ lock = NoThread
      /\ UNCHANGED <<ret, level, at, req, bypass, active, opLevel>>
      /\ UNCHANGED <<notParked, lock, todo, blocked, tWait, nOps>>
  BY DEF AcquireLowerLevelSafepoints
<1>2. \A u \in Thread : pc[u] \notin {"st_notify", "rt_notify"}
  BY <1>1, ThreadAssumption DEF IInv, OwnerInv
<1>3. CASE opLevel[t] = kGCAndDeopt /\ SafepointInProgress(kGC)
  <2>1. pc' = pc /\ owner' = owner /\ count' = count /\ tlWait' = tlWait \cup {t}
    BY <1>3, SMT DEF AcquireLowerLevelSafepoints, kGC, kGCAndDeopt
  <2>2. TypeOK' BY <1>1, <2>1 DEF IInv, TypeOK
  <2> QED BY <1>1, <2>1, <2>2, WaitFrame
<1>4. CASE opLevel[t] = kGC \/ ~SafepointInProgress(kGC)
  <2>1. /\ pc' = [pc EXCEPT ![t] = "op"] /\ tlWait' = tlWait
        /\ opLevel[t] = kGC => owner' = owner /\ count' = count
        /\ opLevel[t] = kGCAndDeopt =>
             ~SafepointInProgress(kGC) /\ SetSafepointInProgress(t, kGC)
    BY <1>4, SMT DEF AcquireLowerLevelSafepoints, kGC, kGCAndDeopt
  <2>2. "op" \in OwnerLoc /\ pc[t] \in OwnerLoc BY <1>1 DEF OwnerLoc
  <2>3. /\ LocInv' /\ pc' \in [Thread -> Loc]
        /\ \A l \in Level : NotParked(l)' = NotParked(l)
        /\ \A u \in Thread : Participants(u)' = Participants(u)
        /\ pc'[t] = "op" /\ \A u \in Thread \ {t} : pc'[u] = pc[u]
        /\ \A u \in Thread \ {t}, l \in Level : Owns(u, l)' <=> Owns(u, l)
    BY <1>1, <2>1, <2>2, OwnerFrame
  <2>4. opLevel[t] \in Level /\ owner \in [Level -> Thread \cup {NoThread}]
        /\ count \in [Level -> Nat]
    BY DEF IInv, TypeOK
  <2>5. RequestInv' BY <1>1, <1>2, <2>3 DEF IInv, RequestInv
  <2>6. ParkedInv' BY <1>1, <2>3 DEF IInv, TypeOK, ParkedInv
  <2>7. NotParkedIsExact' BY <1>1, <2>3 DEF IInv, NotParkedIsExact
  <2>8. \A u \in Thread : pc'[u] \notin {"st_notify", "rt_notify"}
    BY <1>2, <2>3
  <2>9. CASE opLevel[t] = kGC
    <3>1. owner' = owner /\ count' = count BY <2>1, <2>9
    <3>2. \A l \in Level : Owns(t, l)' <=> Owns(t, l)
      BY <1>1, <2>3, <2>9 DEF Owns, kGC, kGCAndDeopt
    <3>3. OwnerInv'
      BY <1>1, <1>2, <2>3, <2>8, <3>1, <3>2, SMT DEF IInv, OwnerInv
    <3>4. RequestsHaveAnOwner' BY <1>1, <3>1 DEF IInv, RequestsHaveAnOwner
    <3>5. TypeOK' BY <1>1, <2>1, <2>3, <3>1 DEF IInv, TypeOK
    <3> QED BY <2>3, <2>5, <2>6, <2>7, <3>3, <3>4, <3>5 DEF IInv
  <2>10. CASE opLevel[t] = kGCAndDeopt
    <3>1. /\ owner[kGC] = NoThread /\ kGC \in Level
          /\ owner' = [owner EXCEPT ![kGC] = t]
          /\ count' = [count EXCEPT ![kGC] = 1]
      BY <2>1, <2>4, <2>10, SMT DEF IInv, OwnerInv, SafepointInProgress,
         SetSafepointInProgress, Level
    <3>2. \A u \in Thread : ~Owns(u, kGC)
      BY <3>1, ThreadAssumption DEF IInv, OwnerInv
    <3>3. \A l \in Level : Owns(t, l)' /\ (l # kGC => Owns(t, l))
      BY <1>1, <2>3, <2>10 DEF Owns, Level, kGC, kGCAndDeopt
    <3>4. \A u \in Thread, l \in Level : (owner[l] = u)' <=> Owns(u, l)'
      BY <2>3, <2>4, <3>1, <3>2, <3>3, SMT DEF IInv, OwnerInv
    <3>5. \A l \in Level : (owner[l] = NoThread)' <=> (count[l] = 0)'
      BY <2>4, <3>1, ThreadAssumption, SMT DEF IInv, OwnerInv
    <3>6. OwnerInv'
      BY <1>1, <1>2, <2>8, <3>4, <3>5 DEF IInv, OwnerInv
    <3>7. \A u \in Thread : kGC \notin req[u]
      BY <3>1 DEF IInv, RequestsHaveAnOwner
    <3>8. RequestsHaveAnOwner'
      BY <1>1, <2>4, <3>1, <3>7, SMT DEF IInv, RequestsHaveAnOwner
    <3>9. TypeOK' BY <1>1, <2>1, <2>3, <3>1 DEF IInv, TypeOK
    <3> QED BY <2>3, <2>5, <2>6, <2>7, <3>6, <3>8, <3>9 DEF IInv
  <2> QED BY <2>4, <2>9, <2>10 DEF Level
<1>5. opLevel[t] \in Level BY DEF IInv, TypeOK
<1> QED BY <1>3, <1>4, <1>5 DEF Level

\* A scope that is opened or closed inside an operation only counts, and the
\* count stays above zero.
LEMMA NestedFrame ==
    ASSUME IInv, NEW l \in Level, NEW n \in Nat \ {0}, count[l] # 0,
           count' = [count EXCEPT ![l] = n], nOps' \in Nat,
           UNCHANGED <<pc, ret, level, at, req, bypass, active, opLevel>>,
           UNCHANGED <<owner, notParked, lock, todo, blocked, tlWait, tWait>>
    PROVE  IInv'
<1> USE Zenon
<1>1. TypeOK' BY DEF IInv, TypeOK
<1>2. \A k \in Level : count'[k] = 0 <=> count[k] = 0 BY DEF IInv, TypeOK
<1>3. \A k \in Level : NotParked(k)' = NotParked(k) BY NotParkedUnchanged
<1>4. \A u \in Thread : Participants(u)' = Participants(u) BY DEF Participants
<1>5. LocInv' BY DEF IInv, LocInv, LocAt
<1>6. \A u \in Thread, k \in Level : Owns(u, k)' <=> Owns(u, k) BY DEF Owns
<1>7. OwnerInv' BY <1>2, <1>4, <1>6, SMT DEF IInv, OwnerInv
<1>8. RequestsHaveAnOwner' /\ RequestInv'
  BY <1>4, SMT DEF IInv, RequestsHaveAnOwner, RequestInv
<1>9. NotParkedIsExact' /\ ParkedInv'
  BY <1>3 DEF IInv, TypeOK, NotParkedIsExact, ParkedInv
<1> QED BY <1>1, <1>5, <1>7, <1>8, <1>9 DEF IInv

\* A nested scope of an owner.
LEMMA SafepointThreadsNestedInv ==
    ASSUME IInv, NEW t \in Thread, NEW l \in Level,
           SafepointThreadsNested(t, l)
    PROVE  IInv'
<1> USE Zenon
<1>1. count \in [Level -> Nat] /\ nOps \in Nat BY DEF IInv, TypeOK
<1>2. count[l] # 0
  BY ThreadAssumption DEF SafepointThreadsNested, IInv, OwnerInv
<1>3. count[l] + 1 \in Nat \ {0} /\ nOps' \in Nat
  BY <1>1, SMT DEF SafepointThreadsNested
<1>4. /\ count' = [count EXCEPT ![l] = count[l] + 1]
      /\ UNCHANGED <<pc, ret, level, at, req, bypass, active, opLevel>>
      /\ UNCHANGED <<owner, notParked, lock, todo, blocked, tlWait, tWait>>
  BY DEF SafepointThreadsNested, wordVars, lockVars, waitVars
<1> QED BY <1>2, <1>3, <1>4, NestedFrame

\* The end of a nested scope.
LEMMA ResumeThreadsNestedInv ==
    ASSUME IInv, NEW t \in Thread, NEW l \in Level, ResumeThreadsNested(t, l)
    PROVE  IInv'
<1>1. count \in [Level -> Nat] /\ nOps \in Nat BY Zenon DEF IInv, TypeOK
<1>2. count[l] # 0 /\ count[l] - 1 \in Nat \ {0} /\ nOps' \in Nat
  BY <1>1 DEF ResumeThreadsNested
<1>3. /\ count' = [count EXCEPT ![l] = count[l] - 1]
      /\ UNCHANGED <<pc, ret, level, at, req, bypass, active, opLevel>>
      /\ UNCHANGED <<owner, notParked, lock, todo, blocked, tlWait, tWait>>
  BY Zenon DEF ResumeThreadsNested, wordVars, lockVars, waitVars
<1> QED BY <1>2, <1>3, NestedFrame, Zenon

\* The lower level is released and the loop starts with all participants:
\* whoever has the request is one of them.
LEMMA ResumeThreadsInv ==
    ASSUME IInv, NEW t \in Thread, ResumeThreads(t)
    PROVE  IInv'
<1>1. /\ pc[t] = "op" /\ lock = NoThread /\ lock' = t
      /\ todo' = Participants(t) /\ pc' = [pc EXCEPT ![t] = "rt_notify"]
      /\ owner' = [l \in Level |-> IF l < opLevel[t] THEN NoThread ELSE owner[l]]
      /\ count' = [l \in Level |-> IF l < opLevel[t] THEN 0 ELSE count[l]]
      /\ UNCHANGED <<ret, level, at, req, bypass, active, opLevel>>
      /\ UNCHANGED <<notParked, blocked, tlWait, tWait, nOps>>
  BY Zenon DEF ResumeThreads, wordVars, handlerVars, lockVars, waitVars
<1>2. "rt_notify" \in OwnerLoc /\ pc[t] \in OwnerLoc BY <1>1, Zenon DEF OwnerLoc
<1>3. /\ LocInv' /\ pc' \in [Thread -> Loc]
      /\ \A l \in Level : NotParked(l)' = NotParked(l)
      /\ \A u \in Thread : Participants(u)' = Participants(u)
      /\ pc'[t] = "rt_notify" /\ \A u \in Thread \ {t} : pc'[u] = pc[u]
      /\ \A u \in Thread \ {t}, l \in Level : Owns(u, l)' <=> Owns(u, l)
  BY <1>1, <1>2, OwnerFrame, Zenon
<1>4. TypeOK'
  <2>1. owner' \in [Level -> Thread \cup {NoThread}] BY <1>1, Zenon DEF IInv, TypeOK
  <2>2. count' \in [Level -> Nat] BY <1>1, Zenon DEF IInv, TypeOK
  <2>3. todo' \in SUBSET Thread BY <1>1, Zenon DEF IInv, TypeOK, Participants
  <2> QED BY <1>1, <1>3, <2>1, <2>2, <2>3 DEF IInv, TypeOK
<1>a. \A u \in Thread : pc[u] \notin {"st_notify", "rt_notify"}
  BY <1>1, ThreadAssumption DEF IInv, OwnerInv
<1>b. /\ opLevel[t] \in Level /\ owner \in [Level -> Thread \cup {NoThread}]
      /\ owner[opLevel[t]] = t
  BY <1>1 DEF IInv, TypeOK, OwnerInv, Owns
<1>c. \A l \in Level : l < opLevel[t] => owner[l] = t
  BY <1>1, <1>b DEF IInv, OwnerInv, Owns, Level, kGC, kGCAndDeopt
<1>5. OwnerInv'
  <2>1. \A l \in Level : Owns(t, l)' <=> l = opLevel[t]
    BY <1>1, <1>3, <1>b, Zenon DEF Owns, Level, kGC, kGCAndDeopt
  <2>2. \A l \in Level : l # opLevel[t] => l < opLevel[t] \/ owner[l] # t
    BY <1>1, <1>b, ThreadAssumption DEF IInv, OwnerInv, Owns, Level, kGC, kGCAndDeopt
  <2>3. \A l \in Level : Owns(t, l)' <=> owner'[l] = t
    BY <1>1, <1>b, <2>1, <2>2, ThreadAssumption DEF Level, kGC, kGCAndDeopt
  <2>4. ASSUME NEW u \in Thread \ {t}, NEW l \in Level
        PROVE  (owner[l] = u)' <=> Owns(u, l)'
    BY <1>1, <1>3, <1>b, <1>c, ThreadAssumption DEF IInv, OwnerInv
  <2>5. \A l \in Level : (owner[l] = NoThread)' <=> (count[l] = 0)'
    BY <1>1, Zenon DEF IInv, OwnerInv
  <2>6. \A u \in Thread : pc'[u] \in {"st_notify", "rt_notify"} <=> u = t
    BY <1>3, <1>a, Zenon
  <2>7. opLevel[t] = kGCAndDeopt => owner'[kGC] = NoThread
    BY <1>1 DEF Level, kGC, kGCAndDeopt
  <2>8. \A u \in Thread, l \in Level : (owner[l] = u)' <=> Owns(u, l)'
    BY <2>3, <2>4
  <2>9. \A u \in Thread : (lock = u)' <=> (pc[u] \in {"st_notify", "rt_notify"})'
    BY <1>1, <2>6, Zenon
  <2>10. ASSUME NEW u \in Thread
         PROVE  /\ pc'[u] \in {"st_notify", "rt_notify"}
                     => todo' \subseteq Participants(u)'
                /\ pc'[u] = "rt_notify" /\ opLevel'[u] = kGCAndDeopt
                     => owner'[kGC] = NoThread
    BY <1>1, <1>3, <2>6, <2>7
  <2> QED BY <2>5, <2>8, <2>9, <2>10, Zenon DEF OwnerInv
<1>6. RequestsHaveAnOwner'
  <2>1. \A u \in Thread, l \in Level : l < opLevel[t] => l \notin req[u]
    <3> SUFFICES ASSUME NEW u \in Thread, NEW l \in Level, l < opLevel[t],
                        l \in req[u]
                 PROVE  FALSE
      BY Zenon
    <3>1. opLevel[owner[l]] = l BY Zenon DEF IInv, RequestsHaveAnOwner
    <3> QED BY <1>b, <1>c, <3>1 DEF Level, kGC, kGCAndDeopt
  <2> QED BY <1>1, <2>1 DEF IInv, TypeOK, RequestsHaveAnOwner
<1>7. RequestInv'
  <2>1. ASSUME NEW u \in Thread, opLevel[t] \in req[u] PROVE u \in Participants(t)
    <3>1. u # t BY <1>b, <2>1, Zenon DEF IInv, RequestsHaveAnOwner
    <3> QED BY <2>1, <3>1 DEF IInv, LocInv, LocAt, Participants
  <2> QED BY <1>1, <1>3, <1>a, <2>1 DEF IInv, RequestInv
<1>8. ParkedInv' BY <1>1, <1>3 DEF IInv, TypeOK, ParkedInv
<1>9. NotParkedIsExact' BY <1>1, <1>3, Zenon DEF IInv, NotParkedIsExact
<1> QED BY <1>3, <1>4, <1>5, <1>6, <1>7, <1>8, <1>9 DEF IInv

\* Clearing the request of a parked thread changes no set a counter counts:
\* nobody is unparked at the level, and nobody owns a lower one.
LEMMA NotifyThreadToContinueInv ==
    ASSUME IInv, NEW t \in Thread, NEW u \in Thread,
           NotifyThreadToContinue(t, u)
    PROVE  IInv'
<1>1. /\ pc[t] = "rt_notify" /\ u \in todo /\ u # t
      /\ req' = [req EXCEPT ![u] = {l \in @ : l > opLevel[t]}]
      /\ todo' = todo \ {u}
      /\ UNCHANGED <<pc, ret, level, at, blocked, bypass, active, owner, count,
                     notParked, opLevel, lock, tlWait, nOps>>
  BY Zenon DEF NotifyThreadToContinue, handlerVars, IInv, OwnerInv, Participants
<1>2. TypeOK'
  <2>1. tWait' \in SUBSET Thread BY Zenon DEF NotifyThreadToContinue, IInv, TypeOK
  <2> QED BY <1>1, <2>1 DEF IInv, TypeOK
<1>3. /\ \A w \in Thread : req'[w] \subseteq req[w]
      /\ \A w \in Thread \ {u} : req'[w] = req[w]
      /\ \A l \in Level : l \in req'[u] <=> l \in req[u] /\ l > opLevel[t]
  BY <1>1, Zenon DEF IInv, TypeOK
<1>4. ASSUME NEW w \in Thread \ {t}, pc[w] \in OwnerLoc
      PROVE  opLevel[w] > opLevel[t]
  <2>1. opLevel[w] \in Level /\ opLevel[t] \in Level BY Zenon DEF IInv, TypeOK
  <2>2. owner[opLevel[w]] = w /\ owner[opLevel[t]] = t
    BY <1>1, <1>4, <2>1 DEF IInv, OwnerInv, Owns, OwnerLoc
  <2>3. opLevel[t] = kGCAndDeopt => owner[kGC] = NoThread
    BY <1>1, Zenon DEF IInv, OwnerInv
  <2> QED BY <2>1, <2>2, <2>3, ThreadAssumption DEF Level, kGC, kGCAndDeopt
<1>5. LocInv' BY <1>1, <1>3 DEF IInv, LocInv, LocAt
<1>6. \A w \in Thread : Participants(w)' = Participants(w)
  BY <1>1, Zenon DEF Participants
<1>7. OwnerInv'
  <2>1. \A w \in Thread, l \in Level : Owns(w, l)' <=> Owns(w, l)
    BY <1>1, Zenon DEF Owns
  <2>2. todo' \subseteq todo BY <1>1, Zenon
  <2> QED BY <1>1, <1>6, <2>1, <2>2 DEF IInv, OwnerInv
<1>8. RequestsHaveAnOwner' BY <1>1, <1>3, Zenon DEF IInv, RequestsHaveAnOwner
<1>9. RequestInv'
  <2> SUFFICES ASSUME NEW w \in Thread, NEW v \in Thread
               PROVE  /\ pc[w] \in {"st_parked", "st_lower", "op"}
                           /\ v \in Participants(w) => opLevel[w] \in req'[v]
                      /\ pc[w] = "st_notify" /\ v \in Participants(w)
                           => (opLevel[w] \in req'[v] <=> v \notin todo')
                      /\ pc[w] = "rt_notify" /\ opLevel[w] \in req'[v]
                           => v \in todo'
    BY <1>1, <1>6 DEF RequestInv
  <2>1. opLevel[w] \in Level /\ opLevel[t] \in Level BY Zenon DEF IInv, TypeOK
  <2>2. CASE w = t
    <3>1. opLevel[t] \in req'[v] => v # u
      BY <1>3, <2>1 DEF Level, kGC, kGCAndDeopt
    <3> QED BY <1>1, <1>3, <2>2, <3>1 DEF IInv, RequestInv
  <2>3. CASE w # t
    <3>1. pc[w] \notin {"st_notify", "rt_notify"}
      BY <1>1, <2>3 DEF IInv, OwnerInv
    <3>2. pc[w] \in OwnerLoc => (opLevel[w] \in req'[v] <=> opLevel[w] \in req[v])
      BY <1>3, <1>4, <2>1, <2>3, Zenon
    <3> QED BY <3>1, <3>2 DEF IInv, RequestInv, OwnerLoc
  <2> QED BY <2>2, <2>3, Zenon
<1>10. \A l \in Level : NotParked(l)' = NotParked(l)
  <2> SUFFICES ASSUME NEW l \in Level PROVE NotParked(l)' = NotParked(l)
    BY Zenon
  <2>1. opLevel[t] \in Level BY Zenon DEF IInv, TypeOK
  <2>2. NotParked(l)' \subseteq NotParked(l)
    BY <1>1, <1>3 DEF IInv, TypeOK, NotParked, IsAtSafepoint
  <2>3. CASE l = opLevel[t]
    <3>1. NotParked(l) = {} BY <1>1, <2>3, Zenon DEF IInv, ParkedInv
    <3> QED BY <2>2, <3>1, Zenon
  <2>4. CASE l > opLevel[t]
    BY <1>1, <1>3, <2>4 DEF IInv, TypeOK, NotParked, IsAtSafepoint
  <2>5. CASE l < opLevel[t]
    <3>a. l = kGC /\ opLevel[t] = kGCAndDeopt
      BY <2>1, <2>5 DEF Level, kGC, kGCAndDeopt
    <3>1. owner[l] = NoThread BY <1>1, <3>a DEF IInv, OwnerInv
    <3>2. \A w \in Thread : l \notin req[w]
      BY <3>1, Zenon DEF IInv, RequestsHaveAnOwner
    <3>3. NotParked(l) = {} BY <3>2, Zenon DEF IInv, TypeOK, NotParked
    <3> QED BY <2>2, <3>3, Zenon
  <2> QED BY <2>1, <2>3, <2>4, <2>5 DEF Level, kGC, kGCAndDeopt
<1>11. NotParkedIsExact' BY <1>1, <1>10 DEF IInv, NotParkedIsExact
<1>12. ParkedInv' BY <1>1, <1>10 DEF IInv, TypeOK, ParkedInv
<1> QED BY <1>2, <1>5, <1>7, <1>8, <1>9, <1>11, <1>12 DEF IInv

\* At the end of the list no thread has the request any more.
LEMMA ResumeThreadsDoneInv ==
    ASSUME IInv, NEW t \in Thread, ResumeThreadsDone(t)
    PROVE  IInv'
<1>1. /\ pc[t] = "rt_notify" /\ todo = {}
      /\ owner' = [owner EXCEPT ![opLevel[t]] = NoThread]
      /\ count' = [count EXCEPT ![opLevel[t]] = 0]
      /\ lock' = NoThread /\ tlWait' = {}
      /\ ret' = [ret EXCEPT ![t] = "vm"] /\ pc' = [pc EXCEPT ![t] = "exit"]
      /\ UNCHANGED <<level, at, req, bypass, active, opLevel>>
      /\ UNCHANGED <<notParked, todo, blocked, tWait, nOps>>
  BY Zenon DEF ResumeThreadsDone, wordVars
<1>2. /\ pc'[t] = "exit" /\ ret'[t] = "vm"
      /\ \A u \in Thread \ {t} : pc'[u] = pc[u] /\ ret'[u] = ret[u]
      /\ opLevel[t] \in Level /\ owner \in [Level -> Thread \cup {NoThread}]
  BY <1>1 DEF IInv, TypeOK
<1>3. TypeOK'
  <2>1. pc' \in [Thread -> Loc] BY <1>1, Zenon DEF IInv, TypeOK, Loc
  <2>2. ret' \in [Thread -> ExecState] BY <1>1 DEF IInv, TypeOK, ExecState
  <2>3. owner' \in [Level -> Thread \cup {NoThread}] /\ count' \in [Level -> Nat]
    BY <1>1, Zenon DEF IInv, TypeOK
  <2> QED BY <1>1, <2>1, <2>2, <2>3 DEF IInv, TypeOK
<1>4. LocAt(t) BY Zenon DEF IInv, LocInv
<1>5. LocAt(t)' BY <1>1, <1>2, <1>4, Zenon DEF LocAt, Running
<1>6. LocInv' BY <1>1, <1>2, <1>5, LocFrame, Zenon DEF IInv
<1>7. \A l \in Level : NotParked(l)' = NotParked(l) BY <1>1, NotParkedUnchanged, Zenon
<1>8. \A u \in Thread : Participants(u)' = Participants(u)
  BY <1>1, Zenon DEF Participants
<1>9. OwnerInv'
  <2>1. \A u \in Thread \ {t}, l \in Level : Owns(u, l)' <=> Owns(u, l)
    BY <1>1, <1>2, Zenon DEF Owns
  <2>2. \A l \in Level : ~Owns(t, l)' /\ (Owns(t, l) <=> l = opLevel[t])
    BY <1>1, <1>2, Zenon DEF Owns
  <2>3. \A u \in Thread, l \in Level : (owner[l] = u)' <=> Owns(u, l)'
    BY <1>1, <1>2, <2>1, <2>2, ThreadAssumption DEF IInv, OwnerInv
  <2>4. \A l \in Level : (owner[l] = NoThread)' <=> (count[l] = 0)'
    BY <1>1, <1>2 DEF IInv, TypeOK, OwnerInv
  <2>5. \A u \in Thread : pc'[u] \notin {"st_notify", "rt_notify"}
    BY <1>1, <1>2 DEF IInv, OwnerInv
  <2> QED BY <1>1, <2>3, <2>4, <2>5, ThreadAssumption DEF OwnerInv
<1>10. \A u \in Thread : opLevel[t] \notin req[u]
  BY <1>1 DEF IInv, RequestInv
<1>11. RequestsHaveAnOwner'
  BY <1>1, <1>2, <1>10 DEF IInv, TypeOK, RequestsHaveAnOwner
<1>12. RequestInv' BY <1>1, <1>2, <1>8 DEF IInv, RequestInv
<1>13. ParkedInv' BY <1>1, <1>2, <1>7 DEF IInv, TypeOK, ParkedInv
<1>14. NotParkedIsExact' BY <1>1, <1>7, Zenon DEF IInv, NotParkedIsExact
<1> QED BY <1>3, <1>6, <1>9, <1>11, <1>12, <1>13, <1>14 DEF IInv

-----------------------------------------------------------------------------
(* The steps that change a check-in counter, the inductive invariant, and  *)
(* the theorems.                                                           *)

\* The set a check-in counter counts is finite.
LEMMA NotParkedFinite ==
    ASSUME TypeOK, NEW l \in Level
    PROVE  IsFiniteSet(NotParked(l)) /\ Cardinality(NotParked(l)) \in Nat
<1>1. NotParked(l) \subseteq Thread BY Zenon DEF NotParked, TypeOK
<1> QED BY <1>1, ThreadAssumption, FS_Subset, FS_CardinalityType, Zenon

\* The initial states satisfy the inductive invariant.
LEMMA InitInv == Init => IInv
<1> USE Zenon
<1> SUFFICES ASSUME Init PROVE IInv OBVIOUS
<1> USE DEF Init, kGC, kGCAndDeopt, Level
<1>1. TypeOK BY ThreadAssumption DEF TypeOK, Loc, ExecState
<1>2. LocInv BY DEF LocInv, LocAt, AtSafepointBits, Running
<1>3. OwnerInv BY ThreadAssumption DEF OwnerInv, Owns
<1>4. RequestsHaveAnOwner BY DEF RequestsHaveAnOwner
<1>5. RequestInv BY DEF RequestInv
<1>6. \A l \in Level : NotParked(l) = {} BY DEF NotParked
<1>7. NotParkedIsExact
  <2>1. Cardinality({}) = 0 BY FS_EmptySet
  <2> QED BY <1>6, <2>1 DEF NotParkedIsExact
<1>8. ParkedInv BY DEF ParkedInv
<1> QED BY <1>1, <1>2, <1>3, <1>4, <1>5, <1>7, <1>8 DEF IInv

\* The check-in: each counter drops by one exactly when the thread leaves
\* the set it counts.
LEMMA CheckIn ==
    ASSUME IInv, NEW t \in Thread, pc[t] \in Running, ~bypass[t],
           EnterSafepointLocked(t), UNCHANGED <<req, active>>
    PROVE  /\ notParked' \in [Level -> Nat]
           /\ NotParkedIsExact'
           /\ \A l \in Level : NotParked(l)' \subseteq NotParked(l)
           /\ at'[t] = AtSafepointBits(level[t]) /\ at' \in [Thread -> SUBSET Level]
<1> USE Zenon
<1> USE DEF kGC, kGCAndDeopt, Level
<1>1. at[t] = {} /\ t \in active BY DEF IInv, LocInv, LocAt, Running
<1>2. ASSUME NEW l \in Level
      PROVE  /\ notParked'[l] \in Nat
             /\ notParked'[l] = Cardinality(NotParked(l)')
             /\ NotParked(l)' \subseteq NotParked(l)
  <2>1. IsFiniteSet(NotParked(l)) BY NotParkedFinite DEF IInv
  <2>2. notParked[l] = Cardinality(NotParked(l)) BY DEF IInv, NotParkedIsExact
  <2>3. CASE l \in req[t] /\ l <= level[t]
    <3>1. NotParked(l)' = NotParked(l) \ {t} /\ t \in NotParked(l)
      BY <1>1, <2>3, SMT DEF IInv, TypeOK, EnterSafepointLocked, NotParked,
                        IsAtSafepoint, AtSafepointBits
    <3>2. notParked'[l] = notParked[l] - 1 BY <2>3 DEF EnterSafepointLocked
    <3>3. Cardinality(NotParked(l) \ {t}) = Cardinality(NotParked(l)) - 1
      BY <2>1, <3>1, FS_RemoveElement
    <3>4. Cardinality(NotParked(l) \ {t}) \in Nat
      BY <2>1, FS_RemoveElement, FS_CardinalityType
    <3> QED BY <2>2, <3>1, <3>2, <3>3, <3>4
  <2>4. CASE ~(l \in req[t] /\ l <= level[t])
    <3>1. NotParked(l)' = NotParked(l)
      BY <1>1, <2>4, SMT DEF IInv, TypeOK, EnterSafepointLocked, NotParked,
                        IsAtSafepoint, AtSafepointBits
    <3>2. notParked'[l] = notParked[l] BY <2>4 DEF EnterSafepointLocked
    <3> QED BY <2>2, <3>1, <3>2 DEF IInv, TypeOK
  <2> QED BY <2>3, <2>4
<1>3. notParked' = [l \in Level |-> notParked'[l]] BY DEF EnterSafepointLocked
<1>4. at'[t] = AtSafepointBits(level[t]) /\ at' \in [Thread -> SUBSET Level]
  BY <1>1 DEF EnterSafepointLocked, AtSafepointBits, IInv, TypeOK
<1> QED BY <1>2, <1>3, <1>4 DEF NotParkedIsExact

\* The slow path into a safepoint checks in.
LEMMA EnterSafepointUsingLockInv ==
    ASSUME IInv, NEW t \in Thread, EnterSafepointUsingLock(t)
    PROVE  IInv'
<1> USE Zenon
<1> USE DEF EnterSafepointUsingLock, lockVars, waitVars
<1>1. LocAt(t) BY DEF IInv, LocInv
<1>2. /\ pc[t] \in Running /\ ~bypass[t] /\ ret[t] \in {"native", "blocked"}
      /\ ret[t] = "native" => level[t] = kGCAndDeopt
  BY <1>1 DEF LocAt, Running
<1>3. /\ notParked' \in [Level -> Nat] /\ NotParkedIsExact'
      /\ \A l \in Level : NotParked(l)' \subseteq NotParked(l)
      /\ at'[t] = AtSafepointBits(level[t]) /\ at' \in [Thread -> SUBSET Level]
  BY <1>2, CheckIn
<1>4. ret[t] \in Loc \ OwnerLoc BY <1>2 DEF Loc, ExecState, OwnerLoc
<1>5. TypeOK'
  <2>1. pc' \in [Thread -> Loc] BY <1>4 DEF IInv, TypeOK
  <2> QED BY <1>3, <2>1 DEF IInv, TypeOK
<1>6. LocAt(t)'
  <2>1. pc'[t] = ret[t] BY DEF IInv, TypeOK
  <2> QED BY <1>1, <1>2, <1>3, <2>1 DEF LocAt, Running
<1>7. LocInv' BY <1>6, LocFrame DEF IInv, TypeOK, EnterSafepointLocked
<1>8. \A u \in Thread : Participants(u)' = Participants(u) BY DEF Participants
<1>9. OwnerInv' /\ RequestsHaveAnOwner' /\ RequestInv' /\ ParkedInv'
  BY <1>3, <1>4, <1>8, MutatorFrame DEF OwnerLoc
<1> QED BY <1>3, <1>5, <1>7, <1>9 DEF IInv

\* Blocking checks in if the request is still there under the lock.
LEMMA BlockForSafepointInv ==
    ASSUME IInv, NEW t \in Thread, BlockForSafepoint(t)
    PROVE  IInv'
<1> USE Zenon
<1> USE DEF lockVars
<1>1. LocAt(t) BY DEF IInv, LocInv
<1>2. /\ pc[t] = "block" /\ pc[t] \in Running /\ pc[t] \notin OwnerLoc
      /\ ~bypass[t]
      /\ UNCHANGED <<level, req, bypass, active, owner, count, opLevel, lock,
                     todo, tlWait, nOps>>
  BY <1>1 DEF BlockForSafepoint, LocAt, Running, OwnerLoc
<1>3. \A u \in Thread : Participants(u)' = Participants(u)
  BY <1>2 DEF Participants
<1>4. CASE IsSafepointRequested(t)
  <2>1. /\ EnterSafepointLocked(t)
        /\ blocked' = [blocked EXCEPT ![t] = TRUE]
        /\ tWait' = tWait \cup {t}
        /\ ret' = [ret EXCEPT ![t] = "vm"]
        /\ pc' = [pc EXCEPT ![t] = "exit"]
    BY <1>4 DEF BlockForSafepoint
  <2>2. /\ notParked' \in [Level -> Nat] /\ NotParkedIsExact'
        /\ \A l \in Level : NotParked(l)' \subseteq NotParked(l)
        /\ at'[t] = AtSafepointBits(level[t]) /\ at' \in [Thread -> SUBSET Level]
    BY <1>2, <2>1, CheckIn
  <2>3. TypeOK'
    <3>1. pc' \in [Thread -> Loc] BY <2>1 DEF IInv, TypeOK, Loc
    <3>2. ret' \in [Thread -> ExecState] BY <2>1 DEF IInv, TypeOK, ExecState
    <3>3. tWait' \in SUBSET Thread /\ blocked' \in [Thread -> BOOLEAN]
      BY <2>1 DEF IInv, TypeOK
    <3> QED BY <1>2, <2>1, <2>2, <3>1, <3>2, <3>3 DEF IInv, TypeOK
  <2>4. LocAt(t)'
    <3>1. pc'[t] = "exit" /\ ret'[t] = "vm" BY <2>1 DEF IInv, TypeOK
    <3> QED BY <1>1, <1>2, <2>2, <3>1 DEF LocAt, Running
  <2>5. LocInv' BY <1>2, <2>1, <2>4, LocFrame DEF IInv, TypeOK, EnterSafepointLocked
  <2>6. "exit" \in Loc \ OwnerLoc BY DEF Loc, OwnerLoc
  <2>7. OwnerInv' /\ RequestsHaveAnOwner' /\ RequestInv' /\ ParkedInv'
    BY <1>2, <1>3, <2>1, <2>2, <2>6, MutatorFrame
  <2> QED BY <2>2, <2>3, <2>5, <2>7 DEF IInv
<1>5. CASE ~IsSafepointRequested(t)
  <2>1. /\ pc' = [pc EXCEPT ![t] = "vm"]
        /\ UNCHANGED <<ret, at, blocked, notParked, tWait>>
    BY <1>5 DEF BlockForSafepoint
  <2>2. TypeOK'
    <3>1. pc' \in [Thread -> Loc] BY <2>1 DEF IInv, TypeOK, Loc, ExecState
    <3> QED BY <1>2, <2>1, <3>1 DEF IInv, TypeOK
  <2>3. LocAt(t)' BY <1>1, <1>2, <2>1 DEF IInv, TypeOK, LocAt, Running
  <2>4. LocInv' BY <1>2, <2>1, <2>3, LocFrame DEF IInv, TypeOK
  <2>5. \A l \in Level : NotParked(l)' = NotParked(l)
    BY <1>2, <2>1, NotParkedUnchanged
  <2>6. "vm" \in Loc \ OwnerLoc BY DEF Loc, ExecState, OwnerLoc
  <2>7. OwnerInv' /\ RequestsHaveAnOwner' /\ RequestInv' /\ ParkedInv'
    BY <1>2, <1>3, <2>1, <2>5, <2>6, MutatorFrame
  <2>8. NotParkedIsExact' BY <2>1, <2>5 DEF IInv, NotParkedIsExact
  <2> QED BY <2>2, <2>4, <2>7, <2>8 DEF IInv
<1> QED BY <1>4, <1>5

\* A thread that opens an operation checks in for the other operations first.
LEMMA SafepointThreadsInv ==
    ASSUME IInv, NEW t \in Thread, NEW l \in Level, SafepointThreads(t, l)
    PROVE  IInv'
<1> USE Zenon
<1> USE DEF SafepointThreads
<1>1. LocAt(t) /\ TypeOK BY DEF IInv, LocInv
<1>2. pc[t] \in Running /\ ~bypass[t] BY DEF Running
<1>3. /\ notParked' \in [Level -> Nat] /\ NotParkedIsExact'
      /\ \A k \in Level : NotParked(k)' \subseteq NotParked(k)
      /\ at'[t] = AtSafepointBits(level[t]) /\ at' \in [Thread -> SUBSET Level]
  BY <1>2, CheckIn
<1>4. /\ OwnerInv' /\ RequestsHaveAnOwner' /\ RequestInv' /\ ParkedInv'
      /\ pc' \in [Thread -> Loc] /\ pc'[t] \in {"st_wait", "st_notify"}
      /\ \A u \in Thread \ {t} : pc'[u] = pc[u]
      /\ owner' \in [Level -> Thread \cup {NoThread}]
      /\ count' \in [Level -> Nat] /\ lock' \in Thread \cup {NoThread}
      /\ todo' \in SUBSET Thread /\ tlWait' \in SUBSET Thread
  BY <1>3, ClaimOrWaitInv
<1>5. TypeOK'
  <2>1. opLevel' \in [Thread -> Level] BY <1>1 DEF TypeOK
  <2>2. nOps' \in Nat BY <1>1, SMT DEF TypeOK
  <2> QED BY <1>1, <1>3, <1>4, <2>1, <2>2 DEF TypeOK
<1>6. LocAt(t)' BY <1>1, <1>3, <1>4 DEF LocAt, Running
<1>7. LocInv' BY <1>1, <1>4, <1>6, LocFrame DEF IInv, TypeOK, EnterSafepointLocked
<1> QED BY <1>3, <1>4, <1>5, <1>7 DEF IInv

\* A thread that leaves the group checks in for everything it was asked.
LEMMA UnscheduleThreadLockedInv ==
    ASSUME IInv, NEW t \in Thread, UnscheduleThreadLocked(t)
    PROVE  IInv'
<1> USE Zenon
<1> USE DEF UnscheduleThreadLocked, lockVars, waitVars, kGC, kGCAndDeopt, Level
<1>1. at[t] = {} /\ t \in active /\ (bypass[t] => req[t] = {})
  BY DEF IInv, LocInv, LocAt, Running
<1>2. ASSUME NEW l \in Level
      PROVE  /\ notParked'[l] \in Nat
             /\ notParked'[l] = Cardinality(NotParked(l)')
             /\ NotParked(l)' \subseteq NotParked(l)
  <2>1. IsFiniteSet(NotParked(l)) BY NotParkedFinite DEF IInv
  <2>2. notParked[l] = Cardinality(NotParked(l)) BY DEF IInv, NotParkedIsExact
  <2>3. NotParked(l)' = NotParked(l) \ {t}
    BY <1>1 DEF IInv, TypeOK, NotParked, IsAtSafepoint
  <2>4. t \in NotParked(l) <=> l \in req[t]
    BY <1>1 DEF NotParked, IsAtSafepoint, AtSafepointBits
  <2>5. notParked'[l] = IF l \in req[t] THEN notParked[l] - 1 ELSE notParked[l]
    BY <1>1
  <2>6. /\ IsFiniteSet(NotParked(l) \ {t})
        /\ Cardinality(NotParked(l) \ {t}) =
             IF t \in NotParked(l) THEN Cardinality(NotParked(l)) - 1
                                   ELSE Cardinality(NotParked(l))
    BY <2>1, FS_RemoveElement
  <2>7. Cardinality(NotParked(l) \ {t}) \in Nat BY <2>6, FS_CardinalityType
  <2> QED BY <2>2, <2>3, <2>4, <2>5, <2>6, <2>7
<1>3. TypeOK'
  <2>1. notParked' \in [Level -> Nat] BY <1>2
  <2> QED BY <2>1 DEF IInv, TypeOK, Loc
<1>4. LocInv'
  <2> SUFFICES ASSUME NEW u \in Thread PROVE LocAt(u)' BY DEF LocInv
  <2> LocAt(u) /\ LocAt(t) BY DEF IInv, LocInv
  <2>1. CASE u = t BY <2>1, SMT DEF IInv, TypeOK, LocAt, Running, AtSafepointBits
  <2>2. CASE u # t BY <2>2 DEF IInv, TypeOK, LocAt, Running, AtSafepointBits
  <2> QED BY <2>1, <2>2
<1>5. OwnerInv'
  BY ThreadAssumption, SMT DEF IInv, TypeOK, OwnerInv, Owns, Participants
<1>6. RequestsHaveAnOwner' BY SMT DEF IInv, TypeOK, RequestsHaveAnOwner
<1>7. RequestInv' BY SMT DEF IInv, TypeOK, RequestInv, Participants
<1>8. NotParkedIsExact' BY <1>2 DEF NotParkedIsExact
<1>9. ParkedInv' BY <1>2, SMT DEF IInv, TypeOK, ParkedInv
<1> QED BY <1>3, <1>4, <1>5, <1>6, <1>7, <1>8, <1>9 DEF IInv

\* A thread is asked once, and counted if it is not yet parked.
LEMMA NotifyThreadToGetToSafepointLevelInv ==
    ASSUME IInv, NEW t \in Thread, NEW u \in Thread,
           NotifyThreadToGetToSafepointLevel(t, u)
    PROVE  IInv'
<1> USE DEF NotifyThreadToGetToSafepointLevel, waitVars, kGC, kGCAndDeopt,
    Level
<1> DEFINE l == opLevel[t]
<1>1. /\ l \in Level /\ u \in active /\ u # t /\ ~bypass[u] /\ l \notin req[u]
      /\ owner[l] = t
  BY DEF IInv, TypeOK, OwnerInv, Owns, RequestInv, Participants
<1>2. ASSUME NEW k \in Level, k # l PROVE NotParked(k)' = NotParked(k)
  BY <1>1, <1>2, Zenon DEF IInv, TypeOK, NotParked, IsAtSafepoint
<1>3. /\ notParked'[l] \in Nat
      /\ notParked'[l] = Cardinality(NotParked(l)')
  <2> USE Zenon
  <2>1. IsFiniteSet(NotParked(l)) BY <1>1, NotParkedFinite DEF IInv
  <2>2. notParked[l] = Cardinality(NotParked(l))
    BY <1>1 DEF IInv, NotParkedIsExact
  <2>3. u \notin NotParked(l) BY <1>1 DEF NotParked
  <2>4. CASE IsAtSafepoint(u, l)
    <3>1. NotParked(l)' = NotParked(l)
      BY <1>1, <2>4 DEF IInv, TypeOK, NotParked, IsAtSafepoint
    <3> QED BY <1>1, <2>2, <2>4, <3>1, SMT DEF IInv, TypeOK
  <2>5. CASE ~IsAtSafepoint(u, l)
    <3>1. NotParked(l)' = NotParked(l) \cup {u}
      BY <1>1, <2>5, SMT DEF IInv, TypeOK, NotParked, IsAtSafepoint
    <3>2. notParked'[l] = notParked[l] + 1 BY <1>1, <2>5, SMT DEF IInv, TypeOK
    <3>3. Cardinality(NotParked(l) \cup {u}) = Cardinality(NotParked(l)) + 1
      BY <2>1, <2>3, FS_AddElement
    <3>4. notParked[l] \in Nat BY <1>1 DEF IInv, TypeOK
    <3> QED BY <2>2, <3>1, <3>2, <3>3, <3>4, SMT
  <2> QED BY <2>4, <2>5
<1>4. TypeOK'
  <2>1. notParked' \in [Level -> Nat] BY <1>1, <1>3, Zenon DEF IInv, TypeOK
  <2> QED BY <1>1, <2>1 DEF IInv, TypeOK
<1>5. LocInv' BY <1>1 DEF IInv, TypeOK, LocInv, LocAt, Participants
<1>6. OwnerInv' BY DEF IInv, TypeOK, OwnerInv, Owns, Participants
<1>7. RequestsHaveAnOwner'
  BY <1>1, ThreadAssumption DEF IInv, TypeOK, RequestsHaveAnOwner
<1>8. RequestInv'
  BY <1>1 DEF IInv, TypeOK, OwnerInv, Owns, RequestInv, Participants
<1>9. NotParkedIsExact' BY <1>1, <1>2, <1>3 DEF IInv, TypeOK, NotParkedIsExact
<1>10. ParkedInv'
  BY <1>1, <1>2 DEF IInv, TypeOK, OwnerInv, Owns, ParkedInv
<1> QED BY <1>4, <1>5, <1>6, <1>7, <1>8, <1>9, <1>10 DEF IInv

\* The counter is exact, so zero means that nobody is left to park.
LEMMA WaitUntilThreadsReachedSafepointLevelInv ==
    ASSUME IInv, NEW t \in Thread, WaitUntilThreadsReachedSafepointLevel(t)
    PROVE  IInv'
<1> USE Zenon
<1>1. /\ pc[t] = "st_parked" /\ notParked[opLevel[t]] = 0
      /\ pc' = [pc EXCEPT ![t] = "st_lower"]
      /\ UNCHANGED <<ret, level, at, req, bypass, active, opLevel>>
      /\ UNCHANGED <<owner, count, notParked, lock, todo, blocked, tlWait, tWait, nOps>>
  BY DEF WaitUntilThreadsReachedSafepointLevel, wordVars, handlerVars, lockVars, waitVars
<1>2. "st_lower" \in OwnerLoc /\ pc[t] \in OwnerLoc BY <1>1 DEF OwnerLoc
<1>3. /\ LocInv' /\ pc' \in [Thread -> Loc]
      /\ \A l \in Level : NotParked(l)' = NotParked(l)
      /\ \A u \in Thread : Participants(u)' = Participants(u)
      /\ pc'[t] = "st_lower" /\ \A u \in Thread \ {t} : pc'[u] = pc[u]
      /\ \A u \in Thread \ {t}, l \in Level : Owns(u, l)' <=> Owns(u, l)
  BY <1>1, <1>2, OwnerFrame
<1>4. TypeOK' BY <1>1, <1>3, SMT DEF IInv, TypeOK
<1>5. OwnerInv'
  <2>1. \A l \in Level : Owns(t, l)' <=> Owns(t, l) BY <1>1, <1>3 DEF Owns
  <2>2. \A u \in Thread : /\ pc'[u] = "st_notify" <=> pc[u] = "st_notify"
                          /\ pc'[u] = "rt_notify" <=> pc[u] = "rt_notify"
    BY <1>1, <1>3
  <2> QED BY <1>1, <1>3, <2>1, <2>2, SMT DEF IInv, OwnerInv
<1>6. RequestsHaveAnOwner' BY <1>1 DEF IInv, RequestsHaveAnOwner
<1>7. RequestInv' BY <1>1, <1>3 DEF IInv, RequestInv
<1>8. ParkedInv'
  <2>1. opLevel[t] \in Level /\ opLevel \in [Thread -> Level] BY DEF IInv, TypeOK
  <2>2. Cardinality(NotParked(opLevel[t])) = 0
    BY <1>1, <2>1 DEF IInv, NotParkedIsExact
  <2>3. IsFiniteSet(NotParked(opLevel[t])) BY <2>1, NotParkedFinite DEF IInv
  <2>4. NotParked(opLevel[t]) = {} BY <2>2, <2>3, FS_EmptySet
  <2> QED BY <1>1, <1>3, <2>1, <2>4 DEF IInv, ParkedInv
<1>9. NotParkedIsExact' BY <1>1, <1>3 DEF IInv, NotParkedIsExact
<1> QED BY <1>3, <1>4, <1>5, <1>6, <1>7, <1>8, <1>9 DEF IInv

\* Every step keeps the inductive invariant.
LEMMA NextInv == IInv /\ [Next]_vars => IInv'
<1> USE Zenon
<1> SUFFICES ASSUME IInv, [Next]_vars PROVE IInv' OBVIOUS
<1>1. CASE UNCHANGED vars
  <2> USE <1>1 DEF vars, wordVars, handlerVars, lockVars, waitVars
  <2>1. TypeOK' BY DEF IInv, TypeOK
  <2> QED BY <2>1, WaitFrame
<1>2. ASSUME NEW t \in Thread, Progress(t) PROVE IInv'
  BY <1>2, ScheduleThreadLockedInv, CheckForSafepointInv,
     EnterSafepointUsingLockInv, ExitSafepointLockedInv, BlockForSafepointInv,
     SafepointThreadsWakeInv, NotifyThreadToGetToSafepointLevelInv,
     NotifyThreadsDoneInv, WaitUntilThreadsReachedSafepointLevelInv,
     AcquireLowerLevelSafepointsInv, ResumeThreadsInv,
     NotifyThreadToContinueInv, ResumeThreadsDoneInv DEF Progress
<1>3. ASSUME NEW t \in Thread, Choice(t) PROVE IInv'
  BY <1>3, ScheduleThreadInv, UnscheduleThreadLockedInv,
     TransitionGeneratedToVMInv, TransitionVMToGeneratedInv, EnterSafepointInv,
     ExitSafepointInv, SafepointThreadsInv, SafepointThreadsNestedInv,
     ResumeThreadsNestedInv, SpuriousWakeupInv DEF Choice
<1> QED BY <1>1, <1>2, <1>3 DEF Next

\* The inductive invariant holds in every reachable state.
THEOREM Invariance == Spec => []IInv
BY InitInv, NextInv, PTL DEF Spec

\* The state keeps its types: in particular num_threads_not_parked_ never
\* drops below zero, the assertion of NotifyWeAreParked.
THEOREM TypeCorrect == Spec => []TypeOK
<1>1. IInv => TypeOK BY Zenon DEF IInv
<1> QED BY <1>1, Invariance, PTL

\* For any number of threads and operations: while an operation runs, all
\* other threads are parked at its level and none executes.
THEOREM MutatorExclusion == Spec => []OperationExcludesMutators
<1>1. IInv => OperationExcludesMutators
  <2> USE Zenon
  <2> SUFFICES ASSUME IInv, NEW t \in Thread, pc[t] = "op",
                      NEW u \in Participants(t)
               PROVE  IsAtSafepoint(u, opLevel[t]) /\ pc[u] \notin Running
    BY DEF OperationExcludesMutators
  <2>1. u \in Thread /\ opLevel[t] \in req[u] /\ u \in active
    BY DEF IInv, TypeOK, RequestInv, Participants
  <2>2. IsAtSafepoint(u, opLevel[t])
    BY <2>1 DEF IInv, ParkedInv, NotParked
  <2>3. at[u] # {} BY <2>2 DEF IsAtSafepoint, AtSafepointBits
  <2> QED BY <2>1, <2>2, <2>3 DEF IInv, LocInv, LocAt
<1> QED BY <1>1, Invariance, PTL

\* Two operations never run at once.
THEOREM OperationExclusion == Spec => []OneOperationAtATime
<1>1. IInv => OneOperationAtATime
  BY DEF IInv, TypeOK, OwnerInv, Owns, OneOperationAtATime, Level, kGC,
         kGCAndDeopt
<1> QED BY <1>1, Invariance, PTL

\* The check-in counters are exact.
THEOREM CheckInsAreCounted == Spec => []NotParkedIsExact
<1>1. IInv => NotParkedIsExact BY Zenon DEF IInv
<1> QED BY <1>1, Invariance, PTL

\* Every request bit belongs to an operation in progress.
THEOREM RequestsAreOwned == Spec => []RequestsHaveAnOwner
<1>1. IInv => RequestsHaveAnOwner BY Zenon DEF IInv
<1> QED BY <1>1, Invariance, PTL

\* What GcSafepointOperationScope and DeoptSafepointOperationScope promise.
THEOREM Exclusion == Spec => []OperationsAreExclusive
<1>1. OperationExcludesMutators /\ OneOperationAtATime => OperationsAreExclusive
  BY Zenon DEF OperationsAreExclusive
<1> QED BY <1>1, MutatorExclusion, OperationExclusion, PTL

\* The requests and check-ins that SafepointThreads waits for are exact.
THEOREM ExactCheckIns == Spec => []CheckInsAreExact
<1>1. TypeOK /\ NotParkedIsExact /\ RequestsHaveAnOwner => CheckInsAreExact
  BY Zenon DEF CheckInsAreExact
<1> QED BY <1>1, TypeCorrect, CheckInsAreCounted, RequestsAreOwned, PTL
=============================================================================
