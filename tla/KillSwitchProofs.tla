-------------------------- MODULE KillSwitchProofs --------------------------
(* Proofs about KillSwitch, for any number of setting and evaluating threads,*)
(* any interfaces and any requests.                                          *)
EXTENDS KillSwitch, TLAPS

-----------------------------------------------------------------------------
(* The inductive invariant *)

SetterLabels == {"idle", "set_acquire", "set_mode", "set_luid", "set_release",
                 "get_mode", "publish"}
EvaluatorLabels == {"idle", "eval_acquire", "eval_mode", "eval_luid",
                    "eval_release", "decide"}

\* Every thread is in its own function, and a setter has its request with it
CallPart ==
  /\ \A s \in Setters :
       /\ pc[s] \in SetterLabels
       /\ pc[s] # "idle" => req[s] \in Requests
       /\ pc[s] = "publish" => seen[s] \in Modes
  /\ \A e \in Evaluators : pc[e] \in EvaluatorLabels

\* g_KillSwitchLock is taken exactly while one thread is between its acquire
\* and its release
LockPart ==
  /\ lock <=> \E t \in Threads : pc[t] \in Holding
  /\ \A t, u \in Threads : pc[t] \in Holding /\ pc[u] \in Holding => t = u

\* The two words are the pair last put in place, but for the mode of a setter
\* that has still to write its interface
PairPart ==
  /\ vpnLuid = installed[2]
  /\ ksMode = installed[1] \/ \E s \in Setters : pc[s] = "set_luid"
  /\ \A s \in Setters : pc[s] = "set_luid" => ksMode = Effect(req[s])[1]

\* What an evaluation has read so far belongs to the pair in place, as long as
\* it holds the lock, and to one of its window afterwards
ReadPart ==
  \A e \in Evaluators :
    /\ pc[e] # "idle" => installed \in window[e]
    /\ pc[e] = "eval_luid" => seen[e] = installed[1]
    /\ pc[e] \in {"eval_release", "decide"} =>
         <<seen[e], seenLuid[e]>> \in window[e]

\* What a setter is about to report was in place since the requests overlap
ReportPart ==
  /\ ksMode \in recent
  /\ \A s \in Setters : pc[s] = "publish" => seen[s] \in recent
  /\ Quiet => dsMode \in recent

TInv == TypeOK /\ CallPart
IInv == TInv /\ LockPart /\ PairPart /\ ReadPart /\ ReportPart

-----------------------------------------------------------------------------
(* Operators *)

\* Whatever the registry holds, the mode taken over is a known one.
LEMMA StoredModeIsMode ==
  ASSUME NEW v \in Nat
  PROVE  StoredMode(v) \in Modes
  BY DEF StoredMode, Modes, Off, BlockAll, AllowVpnOnly, Restore

\* A request puts a known mode and a known interface in place.
LEMMA EffectIsPair ==
  ASSUME NEW r \in Requests
  PROVE  /\ Effect(r) \in Pairs
         /\ Effect(r)[1] \in Modes
         /\ Effect(r)[2] \in Luids
  BY RequestsAssumption, LuidsAssumption
     DEF Effect, Pairs, Modes, Off, BlockAll, AllowVpnOnly, Restore

-----------------------------------------------------------------------------
(* Types *)

\* GuardianKillSwitchInitialize leaves a state of the right types.
LEMMA TypeInit == Init => TInv
<1> SUFFICES ASSUME Init PROVE TInv
  OBVIOUS
<1>1. ksMode \in Modes
  BY StoredModeIsMode, StoredAssumption DEF Init
<1>2. Off \in Modes
  BY DEF Modes
<1>3. <<ksMode, 0>> \in Pairs
  BY <1>1, LuidsAssumption DEF Pairs
<1> QED
  BY <1>1, <1>2, <1>3, LuidsAssumption
     DEF Init, TInv, TypeOK, CallPart, Labels, SetterLabels, EvaluatorLabels,
         Threads

\* Every step of a setting thread keeps the types.
LEMMA SetterTypes ==
  ASSUME TInv, NEW s \in Setters, SetterNext(s)
  PROVE  TInv'
<1> USE KsThreadsAssumption DEF Goto, TInv, Threads, locals, history
<1>1. ASSUME NEW r \in Requests, BeginSet(s, r)
      PROVE  TInv'
  BY <1>1 DEF BeginSet, TypeOK, CallPart, Labels, SetterLabels
<1>2. CASE Acquire(s, "set_acquire", "set_mode")
  BY <1>2 DEF Acquire, TypeOK, CallPart, Labels, SetterLabels
<1>3. CASE WriteMode(s)
  BY <1>3, EffectIsPair DEF WriteMode, TypeOK, CallPart, Labels, SetterLabels
<1>4. CASE WriteLuid(s)
  <2>1. Effect(req[s]) \in Pairs /\ Effect(req[s])[2] \in Luids
    BY <1>4, EffectIsPair DEF WriteLuid, CallPart
  <2> QED
    BY <1>4, <2>1 DEF WriteLuid, TypeOK, CallPart, Labels, SetterLabels
<1>5. CASE Release(s, "set_release", "get_mode")
  BY <1>5 DEF Release, TypeOK, CallPart, Labels, SetterLabels
<1>6. CASE GetMode(s)
  BY <1>6 DEF GetMode, TypeOK, CallPart, Labels, SetterLabels
<1>7. CASE Publish(s)
  BY <1>7 DEF Publish, TypeOK, CallPart, Labels, SetterLabels
<1> QED
  BY <1>1, <1>2, <1>3, <1>4, <1>5, <1>6, <1>7 DEF SetterNext

\* So does every step of an evaluating thread.
LEMMA EvaluatorTypes ==
  ASSUME TInv, NEW e \in Evaluators, EvaluatorNext(e)
  PROVE  TInv'
<1> USE KsThreadsAssumption DEF Goto, TInv, Threads, locals, history
<1>1. CASE BeginEvaluate(e)
  BY <1>1 DEF BeginEvaluate, TypeOK, CallPart, Labels, EvaluatorLabels
<1>2. CASE Acquire(e, "eval_acquire", "eval_mode")
  BY <1>2 DEF Acquire, TypeOK, CallPart, Labels, EvaluatorLabels
<1>3. CASE ReadMode(e)
  BY <1>3 DEF ReadMode, TypeOK, CallPart, Labels, EvaluatorLabels
<1>4. CASE ReadLuid(e)
  BY <1>4 DEF ReadLuid, TypeOK, CallPart, Labels, EvaluatorLabels
<1>5. CASE Release(e, "eval_release", "decide")
  BY <1>5 DEF Release, TypeOK, CallPart, Labels, EvaluatorLabels
<1>6. CASE Decide(e)
  BY <1>6 DEF Decide, TypeOK, CallPart, Labels, EvaluatorLabels
<1> QED
  BY <1>1, <1>2, <1>3, <1>4, <1>5, <1>6 DEF EvaluatorNext

-----------------------------------------------------------------------------
(* Safety *)

\* A setting thread keeps the invariant.  The lock keeps others out from its
\* first write to its second, so that nobody reads one word of each request.
LEMMA SetterSafe ==
  ASSUME IInv, TInv', NEW s \in Setters, SetterNext(s)
  PROVE  LockPart' /\ PairPart' /\ ReadPart' /\ ReportPart'
<1> USE KsThreadsAssumption DEF Goto, Threads, locals, history
<1>0. /\ TypeOK /\ CallPart /\ LockPart /\ PairPart /\ ReadPart /\ ReportPart
  BY DEF IInv, TInv
<1>1. ASSUME NEW r \in Requests, BeginSet(s, r)
      PROVE  LockPart' /\ PairPart' /\ ReadPart' /\ ReportPart'
  <2>1. LockPart'
    BY <1>0, <1>1 DEF BeginSet, TypeOK, LockPart, Holding
  <2>2. PairPart'
    BY <1>0, <1>1 DEF BeginSet, TypeOK, PairPart
  <2>3. ReadPart'
    BY <1>0, <1>1 DEF BeginSet, TypeOK, ReadPart
  <2>4. ReportPart'
    BY <1>0, <1>1 DEF BeginSet, TypeOK, ReportPart, Quiet
  <2> QED BY <2>1, <2>2, <2>3, <2>4
<1>2. CASE Acquire(s, "set_acquire", "set_mode")
  <2>1. LockPart'
    BY <1>0, <1>2 DEF Acquire, LockFree, TypeOK, LockPart, Holding
  <2>2. PairPart'
    BY <1>0, <1>2 DEF Acquire, TypeOK, PairPart
  <2>3. ReadPart'
    BY <1>0, <1>2 DEF Acquire, TypeOK, ReadPart
  <2>4. ReportPart'
    BY <1>0, <1>2 DEF Acquire, TypeOK, ReportPart, Quiet
  <2> QED BY <2>1, <2>2, <2>3, <2>4
<1>3. CASE WriteMode(s)
  <2>1. LockPart'
    BY <1>0, <1>3 DEF WriteMode, TypeOK, LockPart, Holding
  <2>2. PairPart'
    <3>1. \A u \in Setters : pc'[u] = "set_luid" => u = s
      BY <1>0, <1>3 DEF WriteMode, TypeOK, LockPart, Holding
    <3> QED
      BY <1>0, <1>3, <3>1 DEF WriteMode, TypeOK, PairPart
  <2>3. ReadPart'
    BY <1>0, <1>3 DEF WriteMode, TypeOK, ReadPart
  <2>4. ReportPart'
    BY <1>0, <1>3 DEF WriteMode, TypeOK, ReportPart, Quiet
  <2> QED BY <2>1, <2>2, <2>3, <2>4
<1>4. CASE WriteLuid(s)
  <2>0. \A t \in Threads : t # s => pc[t] \notin Holding
    BY <1>0, <1>4 DEF WriteLuid, LockPart, Holding
  <2>1. LockPart'
    BY <1>0, <1>4 DEF WriteLuid, TypeOK, LockPart, Holding
  <2>2. PairPart'
    BY <1>0, <1>4, <2>0 DEF WriteLuid, TypeOK, PairPart, Holding
  <2>3. ReadPart'
    BY <1>0, <1>4, <2>0 DEF WriteLuid, TypeOK, ReadPart, Holding
  <2>4. ReportPart'
    BY <1>0, <1>4 DEF WriteLuid, TypeOK, ReportPart, Quiet
  <2> QED BY <2>1, <2>2, <2>3, <2>4
<1>5. CASE Release(s, "set_release", "get_mode")
  <2>1. LockPart'
    BY <1>0, <1>5 DEF Release, TypeOK, LockPart, Holding
  <2>2. PairPart'
    BY <1>0, <1>5 DEF Release, TypeOK, PairPart
  <2>3. ReadPart'
    BY <1>0, <1>5 DEF Release, TypeOK, ReadPart
  <2>4. ReportPart'
    BY <1>0, <1>5 DEF Release, TypeOK, ReportPart, Quiet
  <2> QED BY <2>1, <2>2, <2>3, <2>4
<1>6. CASE GetMode(s)
  <2>1. LockPart'
    BY <1>0, <1>6 DEF GetMode, TypeOK, LockPart, Holding
  <2>2. PairPart'
    BY <1>0, <1>6 DEF GetMode, TypeOK, PairPart
  <2>3. ReadPart'
    BY <1>0, <1>6 DEF GetMode, TypeOK, ReadPart
  <2>4. ReportPart'
    BY <1>0, <1>6 DEF GetMode, TypeOK, ReportPart, Quiet
  <2> QED BY <2>1, <2>2, <2>3, <2>4
<1>7. CASE Publish(s)
  <2>1. LockPart'
    BY <1>0, <1>7 DEF Publish, TypeOK, LockPart, Holding
  <2>2. PairPart'
    BY <1>0, <1>7 DEF Publish, TypeOK, PairPart
  <2>3. ReadPart'
    BY <1>0, <1>7 DEF Publish, TypeOK, ReadPart
  <2>4. ReportPart'
    BY <1>0, <1>7 DEF Publish, TypeOK, ReportPart, Quiet
  <2> QED BY <2>1, <2>2, <2>3, <2>4
<1> QED
  BY <1>1, <1>2, <1>3, <1>4, <1>5, <1>6, <1>7 DEF SetterNext

\* An evaluating thread keeps it too: it holds the lock from its first read to
\* its last, and no setter is between its two writes then.
LEMMA EvaluatorSafe ==
  ASSUME IInv, TInv', NEW e \in Evaluators, EvaluatorNext(e)
  PROVE  LockPart' /\ PairPart' /\ ReadPart' /\ ReportPart'
<1> USE KsThreadsAssumption DEF Goto, Threads, locals, history
<1>0. /\ TypeOK /\ CallPart /\ LockPart /\ PairPart /\ ReadPart /\ ReportPart
  BY DEF IInv, TInv
<1>1. CASE BeginEvaluate(e)
  <2>1. LockPart'
    BY <1>0, <1>1 DEF BeginEvaluate, TypeOK, LockPart, Holding
  <2>2. PairPart'
    BY <1>0, <1>1 DEF BeginEvaluate, TypeOK, PairPart
  <2>3. ReadPart'
    BY <1>0, <1>1 DEF BeginEvaluate, TypeOK, ReadPart
  <2>4. ReportPart'
    BY <1>0, <1>1 DEF BeginEvaluate, TypeOK, ReportPart, Quiet
  <2> QED BY <2>1, <2>2, <2>3, <2>4
<1>2. CASE Acquire(e, "eval_acquire", "eval_mode")
  <2>1. LockPart'
    BY <1>0, <1>2 DEF Acquire, LockFree, TypeOK, LockPart, Holding
  <2>2. PairPart'
    BY <1>0, <1>2 DEF Acquire, TypeOK, PairPart
  <2>3. ReadPart'
    BY <1>0, <1>2 DEF Acquire, TypeOK, ReadPart
  <2>4. ReportPart'
    BY <1>0, <1>2 DEF Acquire, TypeOK, ReportPart, Quiet
  <2> QED BY <2>1, <2>2, <2>3, <2>4
<1>3. CASE ReadMode(e)
  <2>0. ksMode = installed[1]
    BY <1>0, <1>3 DEF ReadMode, LockPart, PairPart, Holding
  <2>1. LockPart'
    BY <1>0, <1>3 DEF ReadMode, TypeOK, LockPart, Holding
  <2>2. PairPart'
    BY <1>0, <1>3 DEF ReadMode, TypeOK, PairPart
  <2>3. ReadPart'
    BY <1>0, <1>3, <2>0 DEF ReadMode, TypeOK, ReadPart
  <2>4. ReportPart'
    BY <1>0, <1>3 DEF ReadMode, TypeOK, ReportPart, Quiet
  <2> QED BY <2>1, <2>2, <2>3, <2>4
<1>4. CASE ReadLuid(e)
  <2>0. <<seen[e], vpnLuid>> = installed /\ installed \in window[e]
    <3>1. seen[e] = installed[1] /\ vpnLuid = installed[2]
      BY <1>0, <1>4 DEF ReadLuid, PairPart, ReadPart
    <3>2. installed = <<installed[1], installed[2]>>
      <4>1. installed \in Modes \X Luids
        BY <1>0 DEF TypeOK, Pairs
      <4> QED BY <4>1
    <3>3. installed \in window[e]
      BY <1>0, <1>4 DEF ReadLuid, ReadPart
    <3> QED BY <3>1, <3>2, <3>3
  <2>1. LockPart'
    BY <1>0, <1>4 DEF ReadLuid, TypeOK, LockPart, Holding
  <2>2. PairPart'
    BY <1>0, <1>4 DEF ReadLuid, TypeOK, PairPart
  <2>3. ReadPart'
    BY <1>0, <1>4, <2>0 DEF ReadLuid, TypeOK, ReadPart
  <2>4. ReportPart'
    BY <1>0, <1>4 DEF ReadLuid, TypeOK, ReportPart, Quiet
  <2> QED BY <2>1, <2>2, <2>3, <2>4
<1>5. CASE Release(e, "eval_release", "decide")
  <2>1. LockPart'
    BY <1>0, <1>5 DEF Release, TypeOK, LockPart, Holding
  <2>2. PairPart'
    BY <1>0, <1>5 DEF Release, TypeOK, PairPart
  <2>3. ReadPart'
    BY <1>0, <1>5 DEF Release, TypeOK, ReadPart
  <2>4. ReportPart'
    BY <1>0, <1>5 DEF Release, TypeOK, ReportPart, Quiet
  <2> QED BY <2>1, <2>2, <2>3, <2>4
<1>6. CASE Decide(e)
  <2>1. LockPart'
    BY <1>0, <1>6 DEF Decide, TypeOK, LockPart, Holding
  <2>2. PairPart'
    BY <1>0, <1>6 DEF Decide, TypeOK, PairPart
  <2>3. ReadPart'
    BY <1>0, <1>6 DEF Decide, TypeOK, ReadPart
  <2>4. ReportPart'
    BY <1>0, <1>6 DEF Decide, TypeOK, ReportPart, Quiet
  <2> QED BY <2>1, <2>2, <2>3, <2>4
<1> QED
  BY <1>1, <1>2, <1>3, <1>4, <1>5, <1>6 DEF EvaluatorNext

\* The invariant holds initially and every step keeps it.
LEMMA InvariantHolds == Spec => []IInv
<1>1. Init => IInv
  <2> SUFFICES ASSUME Init PROVE IInv
    OBVIOUS
  <2>1. TInv
    BY TypeInit
  <2> QED
    BY <2>1, KsThreadsAssumption
       DEF Init, IInv, LockPart, PairPart, ReadPart, ReportPart, Threads, Holding
<1>2. IInv /\ [Next]_vars => IInv'
  <2> SUFFICES ASSUME IInv, [Next]_vars PROVE IInv'
    OBVIOUS
  <2>1. ASSUME NEW s \in Setters, SetterNext(s)
        PROVE  IInv'
    BY <2>1, SetterTypes, SetterSafe DEF IInv
  <2>2. ASSUME NEW e \in Evaluators, EvaluatorNext(e)
        PROVE  IInv'
    BY <2>2, EvaluatorTypes, EvaluatorSafe DEF IInv
  <2>3. CASE UNCHANGED vars
    BY <2>3
       DEF vars, IInv, TInv, TypeOK, CallPart, LockPart, PairPart, ReadPart,
           ReportPart, Quiet
  <2> QED
    BY <2>1, <2>2, <2>3 DEF Next
<1> QED
  BY <1>1, <1>2, PTL DEF Spec

\* Every variable keeps its type: whatever the registry holds and however
\* requests overlap, the mode in force and the mode reported are known ones.
THEOREM TypeCorrect == Spec => []TypeOK
<1>1. IInv => TypeOK
  BY DEF IInv, TInv
<1> QED
  BY <1>1, InvariantHolds, PTL

\* For any number of threads, GuardianKillSwitchEvaluate acts on a mode and an
\* interface that were in place together during the call.
THEOREM SnapshotIsInstalledHolds == Spec => []SnapshotIsInstalled
<1>1. IInv => SnapshotIsInstalled
  BY DEF IInv, ReadPart, SnapshotIsInstalled
<1> QED
  BY <1>1, InvariantHolds, PTL

\* For any number of overlapping SET_KILL_SWITCH requests, the mode reported once
\* they are done was in place since the first of them began.
THEOREM ReportIsRecentHolds == Spec => []ReportIsRecent
<1>1. IInv => ReportIsRecent
  BY DEF IInv, ReportPart, ReportIsRecent
<1> QED
  BY <1>1, InvariantHolds, PTL
=============================================================================
