------------------------- MODULE IoctlDispatchProofs -------------------------
(* Proofs about IoctlDispatch, for any number of handlers, processes,        *)
(* sessions and requests.                                                    *)
EXTENDS IoctlDispatch, FiniteSetTheorems, TLAPS

-----------------------------------------------------------------------------
(* The inductive invariant *)

Checking == {"check", "pin", "compare", "compare_session"}

\* A caller lives as long as its request, so that the session looked up for it
\* is still its session; and nothing was decided about it before the check ends
CallerPart ==
  \A h \in Handlers :
    /\ pc[h] # "idle" => caller[h] \in Pids /\ session[caller[h]] # None
    /\ pc[h] \in Checking => callerSession[h] = session[caller[h]]
    /\ pc[h] \in Checking \cup {"lookup"} => status[h] = "none"
    /\ pc[h] \in {"compare", "compare_session"} => pinned # None

\* Until two first callers tie, a process is remembered once, by the only
\* handler that found none
PinPart ==
  racing \/
    /\ \A g, h \in Handlers : pc[g] = "pin" /\ pc[h] = "pin" => g = h
    /\ \A h \in Handlers : pc[h] = "pin" => pinned = None
    /\ pinned = None => pinSession = None /\ admitted = {}
    /\ pinned = None => \A h \in Handlers : status[h] # "denied"
    /\ pinned # None => pinSession # None
    /\ pinned # None /\ ~orphaned => session[pinned] = pinSession
    /\ pinned # None /\ ~reused => session[pinned] \in {pinSession, None}

GatePart ==
  /\ racing \/ reused \/ admitted \subseteq {pinSession}
  /\ \A h \in Handlers :
       status[h] = "denied" /\ callerSession[h] = pinSession => orphaned \/ racing

\* The requests recorded but not completed, and those of them that failed
Recorded == {h \in Handlers : pc[h] = "complete"}
RecordedFailed == {h \in Recorded : Rejected(h)}

CountPart ==
  /\ perf.dispatched = ended.all + Cardinality(Recorded)
  /\ perf.rejected = ended.failed + Cardinality(RecordedFailed)

TInv == TypeOK /\ CallerPart
IInv == TInv /\ PinPart /\ GatePart /\ CountPart /\ ServedHasBuffers

-----------------------------------------------------------------------------
(* Types *)

\* Every step of the verification keeps the types and what a handler knows of
\* its caller.
LEMMA VerifyTypes ==
  ASSUME TInv, NEW h \in Handlers, Verify(h)
  PROVE  TInv'
<1> USE DEF Goto, gate, request, history, Checking
<1>0. TypeOK /\ CallerPart
  BY DEF TInv
<1>1. CASE LookupCaller(h)
  <2>1. /\ pc[h] = "lookup" /\ session[caller[h]] \in Sessions
        /\ session[caller[h]] # None
    BY <1>0, <1>1 DEF LookupCaller, TypeOK, CallerPart
  <2>2. /\ pc' = [pc EXCEPT ![h] = "check"] /\ status' = status
        /\ callerSession' = [callerSession EXCEPT ![h] = session[caller[h]]]
        /\ UNCHANGED <<gate, caller, perf, history>>
    BY <1>1, <2>1 DEF LookupCaller
  <2>3. TypeOK'
    BY <1>0, <2>1, <2>2 DEF TypeOK, Labels
  <2>4. CallerPart'
    BY <1>0, <2>1, <2>2 DEF TypeOK, CallerPart
  <2> QED BY <2>3, <2>4 DEF TInv
<1>2. CASE CheckUnset(h)
  <2>1. TypeOK'
    BY <1>0, <1>2 DEF CheckUnset, TypeOK, Labels
  <2>2. CallerPart'
    BY <1>0, <1>2 DEF CheckUnset, TypeOK, CallerPart
  <2> QED BY <2>1, <2>2 DEF TInv
<1>3. CASE Pin(h)
  <2>1. caller[h] \in Pids /\ callerSession[h] \in Sessions
    BY <1>0, <1>3 DEF Pin, TypeOK, CallerPart
  <2>2. TypeOK'
    BY <1>0, <1>3, <2>1 DEF Pin, Admit, TypeOK, Labels
  <2>3. CallerPart'
    BY <1>0, <1>3, <2>1, GateAssumption DEF Pin, Admit, TypeOK, CallerPart
  <2> QED BY <2>2, <2>3 DEF TInv
<1>4. CASE ComparePid(h)
  <2>1. callerSession[h] \in Sessions
    BY <1>0, <1>4 DEF ComparePid, TypeOK, CallerPart
  <2>2. TypeOK'
    BY <1>0, <1>4, <2>1 DEF ComparePid, Admit, TypeOK, Labels
  <2>3. CallerPart'
    BY <1>0, <1>4 DEF ComparePid, Admit, TypeOK, CallerPart
  <2> QED BY <2>2, <2>3 DEF TInv
<1>5. CASE CompareSession(h)
  <2>1. callerSession[h] \in Sessions
    BY <1>0, <1>5 DEF CompareSession, TypeOK, CallerPart
  <2>2. TypeOK'
    BY <1>0, <1>5, <2>1 DEF CompareSession, Admit, Deny, TypeOK, Labels
  <2>3. CallerPart'
    BY <1>0, <1>5 DEF CompareSession, Admit, Deny, TypeOK, CallerPart
  <2> QED BY <2>2, <2>3 DEF TInv
<1> QED BY <1>1, <1>2, <1>3, <1>4, <1>5 DEF Verify

\* So does every step that serves, records or completes a request.
LEMMA HandleTypes ==
  ASSUME TInv, NEW h \in Handlers, Handle(h)
  PROVE  TInv'
<1> USE DEF Goto, gate, request, history, Checking
<1>0. TypeOK /\ CallerPart
  BY DEF TInv
<1>1. CASE RetrieveFails(h) \/ \E q \in Buffers : Refuse(h, q)
  <2>1. /\ pc[h] = "serve" /\ Fail(h)
        /\ UNCHANGED <<gate, caller, callerSession, perf, history>>
    BY <1>1 DEF RetrieveFails, Refuse
  <2>2. TypeOK'
    BY <1>0, <2>1 DEF Fail, TypeOK, Labels
  <2>3. CallerPart'
    BY <1>0, <2>1 DEF Fail, TypeOK, CallerPart
  <2> QED BY <2>2, <2>3 DEF TInv
<1>2. ASSUME NEW q \in Buffers, Serve(h, q)
      PROVE  TInv'
  <2>1. TypeOK'
    <3>1. unmet' \subseteq Codes \cup {"other"}
      BY <1>0, <1>2 DEF Serve, TypeOK, Buffers
    <3> QED
      BY <1>0, <1>2, <3>1 DEF Serve, TypeOK, Labels
  <2>2. CallerPart'
    BY <1>0, <1>2 DEF Serve, TypeOK, CallerPart
  <2> QED BY <2>1, <2>2 DEF TInv
<1>3. CASE RecordIpc(h)
  <2>1. TypeOK'
    BY <1>0, <1>3 DEF RecordIpc, One, TypeOK, Labels
  <2>2. CallerPart'
    BY <1>0, <1>3 DEF RecordIpc, TypeOK, CallerPart
  <2> QED BY <2>1, <2>2 DEF TInv
<1>4. CASE Complete(h)
  <2>1. TypeOK'
    BY <1>0, <1>4 DEF Complete, One, TypeOK, Labels
  <2>2. CallerPart'
    BY <1>0, <1>4 DEF Complete, TypeOK, CallerPart
  <2> QED BY <2>1, <2>2 DEF TInv
<1> QED BY <1>1, <1>2, <1>3, <1>4 DEF Handle

\* Processes that start or exit leave the callers of requests alone.
LEMMA ProcessTypes ==
  ASSUME TInv, NEW p \in Pids,
         Exit(p) \/ (\E s \in Sessions : Start(p, s))
           \/ \E h \in Handlers : Request(h, p)
  PROVE  TInv'
<1> USE DEF Goto, gate, request, history, Checking
<1>0. TypeOK /\ CallerPart
  BY DEF TInv
<1>1. CASE Exit(p)
  <2>1. TypeOK'
    BY <1>0, <1>1 DEF Exit, TypeOK
  <2>2. CallerPart'
    BY <1>0, <1>1 DEF Exit, TypeOK, CallerPart
  <2> QED BY <2>1, <2>2 DEF TInv
<1>2. ASSUME NEW s \in Sessions, Start(p, s)
      PROVE  TInv'
  <2>1. TypeOK'
    BY <1>0, <1>2 DEF Start, TypeOK
  <2>2. CallerPart'
    BY <1>0, <1>2, GateAssumption DEF Start, TypeOK, CallerPart
  <2> QED BY <2>1, <2>2 DEF TInv
<1>3. ASSUME NEW h \in Handlers, Request(h, p)
      PROVE  TInv'
  <2>1. TypeOK'
    BY <1>0, <1>3 DEF Request, TypeOK, Labels
  <2>2. CallerPart'
    BY <1>0, <1>3 DEF Request, TypeOK, CallerPart
  <2> QED BY <2>1, <2>2 DEF TInv
<1> QED BY <1>1, <1>2, <1>3

-----------------------------------------------------------------------------
(* The remembered process *)

\* A caller is let through or refused as the remembered process demands.
LEMMA VerifyGate ==
  ASSUME TInv, PinPart, GatePart, NEW h \in Handlers, Verify(h)
  PROVE  PinPart' /\ GatePart'
<1> USE DEF Goto, gate, request, history, Checking
<1>0. TypeOK /\ CallerPart
  BY DEF TInv
<1>a. session[caller[h]] # None /\ caller[h] \in Pids
  BY <1>0 DEF CallerPart, Verify, LookupCaller, CheckUnset, Pin, ComparePid,
              CompareSession
<1>1. CASE LookupCaller(h)
  <2>1. /\ pc[h] = "lookup" /\ status[h] = "none"
        /\ pc' = [pc EXCEPT ![h] = "check"] /\ status' = status
        /\ callerSession' = [callerSession EXCEPT ![h] = session[caller[h]]]
        /\ UNCHANGED <<gate, caller, perf, history>>
    BY <1>0, <1>1, <1>a DEF LookupCaller, CallerPart
  <2>2. PinPart'
    BY <1>0, <2>1 DEF PinPart, TypeOK
  <2>3. GatePart'
    BY <1>0, <2>1 DEF GatePart, TypeOK
  <2> QED BY <2>2, <2>3
<1>2. CASE CheckUnset(h)
  <2>1. PinPart'
    BY <1>0, <1>2 DEF CheckUnset, PinPart, TypeOK
  <2>2. GatePart'
    BY <1>0, <1>2 DEF CheckUnset, GatePart, TypeOK
  <2> QED BY <2>1, <2>2
<1>3. CASE Pin(h)
  <2>1. /\ pc[h] = "pin" /\ callerSession[h] = session[caller[h]]
        /\ pc' = [pc EXCEPT ![h] = "serve"]
        /\ pinned' = caller[h] /\ pinSession' = callerSession[h]
        /\ admitted' = admitted \cup {callerSession[h]}
        /\ UNCHANGED <<session, caller, callerSession, status, racing,
                       orphaned, reused>>
    BY <1>0, <1>3 DEF Pin, Admit, CallerPart
  <2>2. ~racing => /\ pinned = None /\ admitted = {}
                   /\ \A g \in Handlers : pc[g] = "pin" => g = h
                   /\ \A g \in Handlers : status[g] # "denied"
    BY <2>1 DEF PinPart
  <2>3. PinPart'
    BY <1>0, <1>a, <2>1, <2>2, GateAssumption DEF PinPart, TypeOK
  <2>4. GatePart'
    BY <1>0, <2>1, <2>2 DEF GatePart, TypeOK
  <2> QED BY <2>3, <2>4
<1>4. CASE ComparePid(h)
  <2>1. PinPart'
    BY <1>0, <1>4 DEF ComparePid, Admit, PinPart, CallerPart, TypeOK
  <2>2. racing \/ reused \/ caller[h] # pinned \/ callerSession[h] = pinSession
    BY <1>0, <1>4, <1>a DEF ComparePid, PinPart, CallerPart
  <2>3. GatePart'
    BY <1>0, <1>4, <2>2 DEF ComparePid, Admit, GatePart, TypeOK
  <2> QED BY <2>1, <2>3
<1>5. CASE CompareSession(h)
  <2>1. PinPart'
    BY <1>0, <1>5 DEF CompareSession, Admit, Deny, PinPart, CallerPart, TypeOK
  <2>2. CASE session[pinned] # None /\ session[pinned] = callerSession[h]
    <3>1. racing \/ reused \/ callerSession[h] = pinSession
      BY <1>0, <1>5, <2>2 DEF CompareSession, PinPart, CallerPart
    <3>2. GatePart'
      BY <1>0, <1>5, <2>2, <3>1 DEF CompareSession, Admit, GatePart, TypeOK
    <3> QED BY <2>1, <3>2
  <2>3. CASE ~(session[pinned] # None /\ session[pinned] = callerSession[h])
    <3>1. racing \/ orphaned \/ callerSession[h] # pinSession
      BY <1>0, <1>5, <2>3 DEF CompareSession, PinPart, CallerPart
    <3>2. GatePart'
      BY <1>0, <1>5, <2>3, <3>1 DEF CompareSession, Deny, GatePart, TypeOK
    <3> QED BY <2>1, <3>2
  <2> QED BY <2>2, <2>3
<1> QED BY <1>1, <1>2, <1>3, <1>4, <1>5 DEF Verify

\* Once a request has passed the check it cannot undo what the check decided.
LEMMA HandleGate ==
  ASSUME TInv, PinPart, GatePart, NEW h \in Handlers, Handle(h)
  PROVE  PinPart' /\ GatePart'
<1> USE DEF Goto, gate, request, history, Checking
<1>0. TypeOK
  BY DEF TInv
<1>1. /\ \E l \in {"record", "complete", "idle"} : pc' = [pc EXCEPT ![h] = l]
      /\ \E st \in {"success", "failed", status[h]} :
           status' = [status EXCEPT ![h] = st]
      /\ UNCHANGED <<gate, callerSession, pinSession, racing, orphaned, reused,
                     admitted>>
  <2>1. CASE RetrieveFails(h) \/ \E q \in Buffers : Refuse(h, q)
    BY <2>1 DEF RetrieveFails, Refuse, Fail
  <2>2. CASE \E q \in Buffers : Serve(h, q)
    BY <2>2 DEF Serve
  <2>3. CASE RecordIpc(h) \/ Complete(h)
    <3>1. status' = [status EXCEPT ![h] = status[h]]
      BY <1>0, <2>3 DEF RecordIpc, Complete, TypeOK
    <3> QED BY <2>3, <3>1 DEF RecordIpc, Complete
  <2> QED BY <2>1, <2>2, <2>3 DEF Handle
<1>2. PinPart'
  BY <1>0, <1>1 DEF PinPart, TypeOK
<1>3. GatePart'
  BY <1>0, <1>1 DEF GatePart, TypeOK
<1> QED BY <1>2, <1>3

\* Neither can a process that starts, exits, or makes a request.
LEMMA ProcessGate ==
  ASSUME TInv, PinPart, GatePart, NEW p \in Pids,
         Exit(p) \/ (\E s \in Sessions : Start(p, s))
           \/ \E h \in Handlers : Request(h, p)
  PROVE  PinPart' /\ GatePart'
<1> USE DEF Goto, gate, request, history, Checking
<1>0. TypeOK
  BY DEF TInv
<1>1. CASE Exit(p)
  <2>1. PinPart'
    BY <1>0, <1>1 DEF Exit, PinPart, TypeOK
  <2>2. GatePart'
    BY <1>0, <1>1 DEF Exit, GatePart, TypeOK
  <2> QED BY <2>1, <2>2
<1>2. ASSUME NEW s \in Sessions, Start(p, s)
      PROVE  PinPart' /\ GatePart'
  <2>1. PinPart'
    BY <1>0, <1>2, GateAssumption DEF Start, PinPart, TypeOK
  <2>2. GatePart'
    BY <1>0, <1>2 DEF Start, GatePart, TypeOK
  <2> QED BY <2>1, <2>2
<1>3. ASSUME NEW h \in Handlers, Request(h, p)
      PROVE  PinPart' /\ GatePart'
  <2>1. PinPart'
    BY <1>0, <1>3 DEF Request, PinPart, TypeOK
  <2>2. GatePart'
    BY <1>0, <1>3 DEF Request, GatePart, TypeOK
  <2> QED BY <2>1, <2>2
<1> QED BY <1>1, <1>2, <1>3

-----------------------------------------------------------------------------
(* Validation and the switch *)

\* What passes the validation has every buffer that the switch uses, but for the
\* entries of a batch.
LEMMA ValidIsUsable ==
  ASSUME NEW q \in Buffers, IsValid(q), HasOutput(q), q.code \notin BatchCodes
  PROVE  Uses(q.code) # {} /\ \A b \in Uses(q.code) : q[b] = "enough"
<1>1. CASE q.code \in OutputCodes
  <2>1. Uses(q.code) = {"out"}
    BY <1>1 DEF Uses, OutputCodes
  <2> QED BY <1>1, <2>1 DEF HasOutput
<1>2. CASE q.code \in InputCodes
  <2>1. Uses(q.code) = {"in"}
    BY <1>2 DEF Uses, InputCodes
  <2> QED BY <1>2, <2>1 DEF IsValid
<1> QED BY <1>1, <1>2 DEF IsValid, Codes

\* No step makes the switch meet anything else that it cannot use.
LEMMA OnlyBatchesUnmet ==
  ASSUME ServedHasBuffers, [Next]_vars
  PROVE  ServedHasBuffers'
<1> USE DEF vars, gate, request, history, ServedHasBuffers
<1>1. ASSUME NEW h \in Handlers, NEW q \in Buffers, Serve(h, q)
      PROVE  ServedHasBuffers'
  <2>1. CASE q.code \in BatchCodes
    BY <1>1, <2>1 DEF Serve
  <2>2. CASE q.code \notin BatchCodes
    <3>1. Uses(q.code) # {} /\ \A b \in Uses(q.code) : q[b] = "enough"
      BY <1>1, <2>2, ValidIsUsable DEF Serve
    <3> QED BY <1>1, <3>1 DEF Serve
  <2> QED BY <2>1, <2>2
<1>2. ASSUME NEW h \in Handlers, Verify(h)
      PROVE  ServedHasBuffers'
  BY <1>2 DEF Verify, LookupCaller, CheckUnset, Pin, ComparePid, CompareSession
<1>3. ASSUME NEW h \in Handlers, Handle(h)
      PROVE  ServedHasBuffers'
  BY <1>1, <1>3 DEF Handle, RetrieveFails, Refuse, RecordIpc, Complete
<1>4. ASSUME NEW p \in Pids,
             Exit(p) \/ (\E s \in Sessions : Start(p, s))
               \/ \E h \in Handlers : Request(h, p)
      PROVE  ServedHasBuffers'
  BY <1>4 DEF Exit, Start, Request
<1> QED BY <1>2, <1>3, <1>4 DEF Next

-----------------------------------------------------------------------------
(* The statistics *)

\* A request enters the recorded ones when the counters count it, and leaves
\* them when it is completed.
LEMMA HandleCount ==
  ASSUME TypeOK, CountPart, NEW h \in Handlers, Handle(h)
  PROVE  CountPart'
<1> USE DEF Goto, gate, request, history
<1>a. IsFiniteSet(Recorded) /\ IsFiniteSet(RecordedFailed)
  BY HandlersAssumption, FS_Subset DEF Recorded, RecordedFailed
<1>b. Cardinality(Recorded) \in Nat /\ Cardinality(RecordedFailed) \in Nat
  BY <1>a, FS_CardinalityType
<1>1. CASE pc[h] = "serve"
  <2>1. /\ pc' = [pc EXCEPT ![h] = "record"]
        /\ \A g \in Handlers \ {h} : status'[g] = status[g]
        /\ UNCHANGED <<perf, ended>>
    BY <1>1 DEF Handle, RetrieveFails, Refuse, Serve, Fail, RecordIpc,
                Complete, TypeOK
  <2>2. Recorded' = Recorded /\ RecordedFailed' = RecordedFailed
    BY <1>1, <2>1 DEF Recorded, RecordedFailed, Rejected, TypeOK
  <2> QED BY <2>1, <2>2 DEF CountPart
<1>2. CASE RecordIpc(h)
  <2>1. Recorded' = Recorded \cup {h} /\ h \notin Recorded
    BY <1>2 DEF RecordIpc, Recorded, TypeOK
  <2>2. /\ RecordedFailed' = IF Rejected(h) THEN RecordedFailed \cup {h}
                                            ELSE RecordedFailed
        /\ h \notin RecordedFailed
    BY <1>2 DEF RecordIpc, Recorded, RecordedFailed, Rejected, TypeOK
  <2>3. Cardinality(Recorded') = Cardinality(Recorded) + 1
    BY <1>a, <2>1, FS_AddElement
  <2>4. Cardinality(RecordedFailed')
          = Cardinality(RecordedFailed) + One(Rejected(h))
    <3>1. CASE Rejected(h)
      <4>1. RecordedFailed' = RecordedFailed \cup {h}
        BY <2>2, <3>1
      <4>2. Cardinality(RecordedFailed') = Cardinality(RecordedFailed) + 1
        BY <1>a, <2>2, <4>1, FS_AddElement
      <4> QED BY <3>1, <4>2 DEF One
    <3>2. CASE ~Rejected(h)
      BY <1>b, <2>2, <3>2 DEF One
    <3> QED BY <3>1, <3>2
  <2>5. /\ perf'.dispatched = perf.dispatched + 1
        /\ perf'.rejected = perf.rejected + One(Rejected(h))
        /\ ended' = ended
    BY <1>2 DEF RecordIpc
  <2>6. One(Rejected(h)) \in Nat
    BY DEF One
  <2> HIDE DEF One, Rejected
  <2> QED BY <1>b, <2>3, <2>4, <2>5, <2>6 DEF CountPart, TypeOK
<1>3. CASE Complete(h)
  <2>1. Recorded' = Recorded \ {h} /\ h \in Recorded
    BY <1>3 DEF Complete, Recorded, TypeOK
  <2>2. /\ RecordedFailed' = RecordedFailed \ {h}
        /\ h \in RecordedFailed <=> Rejected(h)
    BY <1>3 DEF Complete, Recorded, RecordedFailed, Rejected, TypeOK
  <2>3. Cardinality(Recorded') = Cardinality(Recorded) - 1
    BY <1>a, <2>1, FS_RemoveElement
  <2>4. Cardinality(RecordedFailed')
          = Cardinality(RecordedFailed) - One(Rejected(h))
    <3>1. CASE Rejected(h)
      <4>1. Cardinality(RecordedFailed') = Cardinality(RecordedFailed) - 1
        BY <1>a, <2>2, <3>1, FS_RemoveElement
      <4> QED BY <3>1, <4>1 DEF One
    <3>2. CASE ~Rejected(h)
      <4>1. RecordedFailed' = RecordedFailed
        BY <2>2, <3>2
      <4> QED BY <1>b, <3>2, <4>1 DEF One
    <3> QED BY <3>1, <3>2
  <2>5. /\ ended'.all = ended.all + 1
        /\ ended'.failed = ended.failed + One(Rejected(h))
        /\ perf' = perf
    BY <1>3 DEF Complete
  <2>6. One(Rejected(h)) \in Nat
    BY DEF One
  <2> HIDE DEF One, Rejected
  <2> QED BY <1>b, <2>3, <2>4, <2>5, <2>6 DEF CountPart, TypeOK
<1> QED BY <1>1, <1>2, <1>3 DEF Handle, RetrieveFails, Refuse, Serve

\* No other step touches a recorded request.
LEMMA OthersCount ==
  ASSUME TypeOK, CountPart,
         \/ \E h \in Handlers : Verify(h)
         \/ \E p \in Pids : \/ Exit(p) \/ \E s \in Sessions : Start(p, s)
                            \/ \E h \in Handlers : Request(h, p)
  PROVE  CountPart'
<1> USE DEF Goto, gate, request, history
<1>1. /\ UNCHANGED <<perf, ended>>
      /\ \/ UNCHANGED <<pc, status>>
         \/ \E h \in Handlers :
              /\ pc[h] # "complete"
              /\ \E l \in Labels \ {"complete"} : pc' = [pc EXCEPT ![h] = l]
              /\ \A g \in Handlers \ {h} : status'[g] = status[g]
  <2>1. ASSUME NEW h \in Handlers, Verify(h)
        PROVE  /\ UNCHANGED <<perf, ended>>
               /\ pc[h] # "complete"
               /\ \E l \in Labels \ {"complete"} : pc' = [pc EXCEPT ![h] = l]
               /\ \A g \in Handlers \ {h} : status'[g] = status[g]
    <3>1. CASE LookupCaller(h)
      BY <3>1 DEF LookupCaller, Deny, TypeOK, Labels
    <3>2. CASE CheckUnset(h)
      BY <3>2 DEF CheckUnset, TypeOK, Labels
    <3>3. CASE Pin(h)
      BY <3>3 DEF Pin, Admit, TypeOK, Labels
    <3>4. CASE ComparePid(h)
      BY <3>4 DEF ComparePid, Admit, TypeOK, Labels
    <3>5. CASE CompareSession(h)
      BY <3>5 DEF CompareSession, Admit, Deny, TypeOK, Labels
    <3> QED BY <2>1, <3>1, <3>2, <3>3, <3>4, <3>5 DEF Verify
  <2>2. ASSUME NEW h \in Handlers, NEW p \in Pids, Request(h, p)
        PROVE  /\ UNCHANGED <<perf, ended>>
               /\ pc[h] # "complete"
               /\ \E l \in Labels \ {"complete"} : pc' = [pc EXCEPT ![h] = l]
               /\ \A g \in Handlers \ {h} : status'[g] = status[g]
    BY <2>2, ZenonT(30) DEF Request, TypeOK, Labels
  <2> QED BY <2>1, <2>2 DEF Exit, Start
<1>2. Recorded' = Recorded /\ RecordedFailed' = RecordedFailed
  BY <1>1 DEF Recorded, RecordedFailed, Rejected, TypeOK
<1> QED BY <1>1, <1>2 DEF CountPart

-----------------------------------------------------------------------------
(* The theorems *)

\* The inductive invariant holds throughout.
LEMMA InvariantHolds == Spec => []IInv
<1>1. Init => IInv
  <2> SUFFICES ASSUME Init PROVE IInv
    OBVIOUS
  <2>1. TypeOK
    <3>1. /\ racing \in BOOLEAN /\ orphaned \in BOOLEAN
          /\ reused \in BOOLEAN
      BY DEF Init
    <3> QED BY <3>1 DEF Init, TypeOK, Labels
  <2>2. CallerPart /\ PinPart /\ GatePart /\ ServedHasBuffers
    BY DEF Init, ServedHasBuffers, CallerPart, PinPart, GatePart, Checking
  <2>3. Recorded = {} /\ RecordedFailed = {}
    BY DEF Init, Recorded, RecordedFailed
  <2>4. CountPart
    BY <2>3, FS_EmptySet DEF Init, CountPart
  <2> QED BY <2>1, <2>2, <2>4 DEF IInv, TInv
<1>2. IInv /\ [Next]_vars => IInv'
  <2> SUFFICES ASSUME IInv, [Next]_vars PROVE IInv'
    OBVIOUS
  <2>0. TInv /\ TypeOK /\ PinPart /\ GatePart /\ CountPart /\ ServedHasBuffers
    BY DEF IInv, TInv
  <2>a. ServedHasBuffers'
    BY <2>0, OnlyBatchesUnmet
  <2>1. ASSUME NEW p \in Pids,
               Exit(p) \/ (\E s \in Sessions : Start(p, s))
                 \/ \E h \in Handlers : Request(h, p)
        PROVE  IInv'
    BY <2>0, <2>a, <2>1, ProcessTypes, ProcessGate, OthersCount DEF IInv
  <2>2. ASSUME NEW h \in Handlers, Verify(h)
        PROVE  IInv'
    BY <2>0, <2>a, <2>2, VerifyTypes, VerifyGate, OthersCount DEF IInv
  <2>3. ASSUME NEW h \in Handlers, Handle(h)
        PROVE  IInv'
    BY <2>0, <2>a, <2>3, HandleTypes, HandleGate, HandleCount DEF IInv
  <2>4. CASE UNCHANGED vars
    BY <2>0, <2>4 DEF vars, gate, request, history, IInv, TInv, TypeOK,
       CallerPart, PinPart, GatePart, CountPart, Recorded, RecordedFailed,
       Rejected, ServedHasBuffers
  <2> QED BY <2>1, <2>2, <2>3, <2>4 DEF Next
<1> QED BY <1>1, <1>2, PTL DEF Spec

\* The state of the dispatch is well-typed: whatever processes do, only
\* sessions that were really looked up are let through.
THEOREM TypeCorrect == Spec => []TypeOK
<1>1. IInv => TypeOK
  BY DEF IInv, TInv
<1> QED BY <1>1, InvariantHolds, PTL

\* All callers let through belong to the first caller's session, unless the
\* remembered id is given to a new process or two first callers tie.
THEOREM OneSessionHolds == Spec => []OneSession
<1>1. IInv => OneSession
  BY DEF IInv, GatePart, OneSession
<1> QED BY <1>1, InvariantHolds, PTL

\* A caller of the first caller's session is refused only once the remembered
\* process has exited, or after a tie between first callers.
THEOREM RefusedOnlyOnceOrphanedHolds == Spec => []RefusedOnlyOnceOrphaned
<1>1. IInv => RefusedOnlyOnceOrphaned
  BY DEF IInv, GatePart, RefusedOnlyOnceOrphaned
<1> QED BY <1>1, InvariantHolds, PTL

\* Whatever the switch uses of a request, but for the entries of a batch, the
\* validation has seen to be there.
THEOREM ServedHasBuffersHolds == Spec => []ServedHasBuffers
<1>1. IInv => ServedHasBuffers
  BY DEF IInv
<1> QED BY <1>1, InvariantHolds, PTL

\* Between requests the statistics are exactly what was completed.
THEOREM RecordedOnceHolds == Spec => []RecordedOnce
<1>1. IInv => RecordedOnce
  <2> SUFFICES ASSUME IInv, InFlight = {} PROVE RecordedOnce
    BY DEF RecordedOnce
  <2>1. Recorded = {} /\ RecordedFailed = {}
    BY DEF InFlight, Recorded, RecordedFailed
  <2>2. Cardinality(Recorded) = 0 /\ Cardinality(RecordedFailed) = 0
    BY <2>1, FS_EmptySet
  <2> QED BY <2>2 DEF IInv, TInv, TypeOK, CountPart, RecordedOnce
<1> QED BY <1>1, InvariantHolds, PTL
=============================================================================
