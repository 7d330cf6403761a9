-------------------------- MODULE HybridModeProofs --------------------------
(* Proofs about HybridMode, for any number of requesting threads, any mode   *)
(* numbers in their requests and any counts of the NDIS driver.              *)
EXTENDS HybridMode, TLAPS

-----------------------------------------------------------------------------
(* The inductive invariant *)

\* Where a call has still to store the mode, to report it, to start the
\* coordinator
BeforeStore == {"check", "shutdown", "store"}
BeforeReport == BeforeStore \cup {"report"}
BeforeStart == BeforeReport \cup {"choose", "activate"}
Counting == {"poll_sum", "count_sum"}

\* What a call carries with it at each place
CallShape(t) ==
  /\ pc[t] # "idle" => want[t] \in GuardianModes
  /\ pc[t] = "shutdown" => want[t] # Hybrid
  /\ pc[t] = "activate" => want[t] = Hybrid
  /\ pc[t] \in Counting => seen[t] \in GuardianModes

TInv == TypeOK /\ \A t \in Threads : CallShape(t)

\* The calls in progress are of the group, and as long as one of them has
\* something still to do the outcome need not be there yet
GroupPart ==
  /\ \A t \in Threads : pc[t] # "idle" => want[t] \in group
  /\ \/ group = {} \/ mode \in group
     \/ \E t \in Threads : pc[t] \in BeforeStore
  /\ \/ group = {} \/ dsMode \in group
     \/ \E t \in Threads : pc[t] \in BeforeReport
  /\ \/ group # {Hybrid} \/ active
     \/ \E t \in Threads : pc[t] \in BeforeStart
  /\ \/ Hybrid \in group \/ ~active
     \/ \E t \in Threads : pc[t] \in {"check", "shutdown"}

\* A lone call finds what it stored itself
LonePart ==
  lone =>
    /\ \A t, u \in Threads : pc[t] # "idle" /\ pc[u] # "idle" => t = u
    /\ \A t \in Threads :
         /\ pc[t] \notin BeforeStore \cup {"idle"} => mode = want[t]
         /\ pc[t] \notin BeforeReport \cup {"idle"} => dsMode = want[t]
         /\ pc[t] \in Counting => seen[t] = mode
         /\ pc[t] = "count_report" => sum[t] = Combined(mode)
    /\ Quiet => dsMode = mode /\ dsFilters = Combined(mode)

IInv == TInv /\ GroupPart /\ LonePart

-----------------------------------------------------------------------------
(* Types *)

\* A mode that GuardianHybridSetMode accepts is one of GUARDIAN_MODE.
LEMMA ValidIsMode ==
  ASSUME NEW m \in RequestModes, IsValidMode(m)
  PROVE  m \in GuardianModes
  BY HybridAssumption DEF IsValidMode, GuardianModes, Wfp, Ndis, Hybrid

\* The combined count is a number, whatever the mode.
LEMMA CombinedIsNat ==
  ASSUME TypeOK, NEW m
  PROVE  Combined(m) \in Nat
  BY DEF TypeOK, Combined, FilterCount

\* A call begins with a mode of GUARDIAN_MODE.
LEMMA BeginTypes ==
  ASSUME TInv, NEW t \in Threads, NEW m \in GuardianModes, Begin(t, m),
         entered' \in BOOLEAN
  PROVE  TInv'
<1> USE DEF Begin, Goto, state, report
<1>1. TypeOK'
  <2>1. Quiet \in BOOLEAN
    BY DEF Quiet
  <2> QED BY <2>1 DEF TInv, TypeOK, Labels
<1>2. ASSUME NEW u \in Threads PROVE CallShape(u)'
  BY DEF TInv, TypeOK, CallShape, Counting
<1> QED BY <1>1, <1>2 DEF TInv

\* Every step of a call keeps the types and what each call carries with it.
LEMMA StepTypes ==
  ASSUME TInv, NEW t \in Threads, Step(t)
  PROVE  TInv'
<1> USE DEF Goto, state, report, history, CallShape, Counting
<1>0. TypeOK /\ \A u \in Threads : CallShape(u)
  BY DEF TInv
<1>1. CASE Check(t)
  BY <1>0, <1>1 DEF Check, TInv, TypeOK, Labels
<1>2. CASE CoordinatorShutdown(t)
  BY <1>0, <1>2 DEF CoordinatorShutdown, TInv, TypeOK, Labels
<1>3. CASE StoreMode(t)
  BY <1>0, <1>3 DEF StoreMode, TInv, TypeOK, Labels
<1>4. CASE ReportMode(t)
  BY <1>0, <1>4 DEF ReportMode, TInv, TypeOK, Labels
<1>5. CASE Choose(t)
  BY <1>0, <1>5 DEF Choose, TInv, TypeOK, Labels
<1>6. CASE Activate(t)
  BY <1>0, <1>6 DEF Activate, TInv, TypeOK, Labels
<1>7. CASE Poll(t)
  BY <1>0, <1>7, HybridAssumption DEF Poll, AfterQuery, TInv, TypeOK, Labels
<1>8. CASE \/ CountMode(t, "poll_mode", "poll_sum")
           \/ CountMode(t, "count_mode", "count_sum")
  BY <1>0, <1>8 DEF CountMode, TInv, TypeOK, Labels
<1>9. CASE \/ CountSum(t, "poll_sum", "poll_report")
           \/ CountSum(t, "count_sum", "count_report")
  <2>1. sum' \in [Threads -> Nat]
    BY <1>0, <1>9, CombinedIsNat DEF CountSum, TypeOK
  <2> QED BY <1>0, <1>9, <2>1 DEF CountSum, TInv, TypeOK, Labels
<1>10. CASE PollReport(t)
  BY <1>0, <1>10 DEF PollReport, TInv, TypeOK, Labels
<1>11. CASE CountReport(t)
  BY <1>0, <1>11 DEF CountReport, TInv, TypeOK, Labels
<1> QED
  BY <1>1, <1>2, <1>3, <1>4, <1>5, <1>6, <1>7, <1>8, <1>9, <1>10, <1>11
     DEF Step

-----------------------------------------------------------------------------
(* Overlapping requests *)

\* A call that begins joins the group of those in progress, or opens one.
LEMMA BeginGroup ==
  ASSUME IInv, NEW t \in Threads, NEW m \in GuardianModes, Begin(t, m)
  PROVE  GroupPart' /\ LonePart'
<1> USE DEF Begin, Goto, state, report
<1>0. TypeOK /\ GroupPart /\ LonePart
  BY DEF IInv, TInv
<1>1. GroupPart'
  <2>1. pc'[t] = "check" /\ want'[t] = m
    BY <1>0 DEF TypeOK
  <2>2. ASSUME NEW u \in Threads, pc'[u] # "idle"
        PROVE  want'[u] \in group'
    BY <1>0, <2>1, <2>2 DEF TypeOK, GroupPart, Quiet
  <2> QED
    BY <2>1, <2>2 DEF GroupPart, BeforeStore, BeforeReport, BeforeStart
<1>2. LonePart'
  <2> SUFFICES ASSUME lone' PROVE LonePart'
    BY DEF LonePart
  <2>1. \A u \in Threads : pc'[u] = IF u = t THEN "check" ELSE "idle"
    BY <1>0 DEF TypeOK, Quiet
  <2> QED
    BY <2>1 DEF LonePart, BeforeStore, BeforeReport, Counting, Quiet
<1> QED BY <1>1, <1>2

\* Every step of a call brings its outcome nearer, or leaves it alone.
LEMMA StepGroup ==
  ASSUME IInv, NEW t \in Threads, Step(t)
  PROVE  GroupPart'
<1> USE DEF Goto, state, report, history, BeforeStore, BeforeReport, BeforeStart
<1>0. TypeOK /\ GroupPart /\ \A u \in Threads : CallShape(u)
  BY DEF IInv, TInv
<1>1. CASE Check(t)
  BY <1>0, <1>1 DEF Check, TypeOK, GroupPart
<1>2. CASE CoordinatorShutdown(t)
  BY <1>0, <1>2 DEF CoordinatorShutdown, TypeOK, GroupPart, CallShape
<1>3. CASE StoreMode(t)
  BY <1>0, <1>3 DEF StoreMode, TypeOK, GroupPart
<1>4. CASE ReportMode(t)
  BY <1>0, <1>4 DEF ReportMode, TypeOK, GroupPart
<1>5. CASE Choose(t)
  <2>1. /\ pc[t] = "choose"
        /\ UNCHANGED <<mode, active, dsMode, want, group>>
    BY <1>5 DEF Choose
  <2>2. \/ active /\ pc' = [pc EXCEPT ![t] = "count_mode"]
        \/ want[t] # Hybrid
             /\ \E l \in {"poll", "count_mode"} : pc' = [pc EXCEPT ![t] = l]
        \/ pc' = [pc EXCEPT ![t] = "activate"]
    <3>1. Hybrid # Ndis
      BY DEF Hybrid, Ndis
    <3>2. CASE want[t] = Hybrid /\ ~active
      BY <1>5, <3>1, <3>2 DEF Choose
    <3>3. CASE want[t] = Ndis
      BY <1>5, <3>1, <3>3 DEF Choose
    <3>4. CASE ~(want[t] = Hybrid /\ ~active) /\ want[t] # Ndis
      BY <1>5, <3>4 DEF Choose
    <3> QED BY <3>2, <3>3, <3>4
  <2> QED
    BY <1>0, <2>1, <2>2 DEF TypeOK, GroupPart
<1>6. CASE Activate(t)
  BY <1>0, <1>6 DEF Activate, TypeOK, GroupPart, CallShape
<1>7. CASE Poll(t)
  BY <1>0, <1>7 DEF Poll, TypeOK, GroupPart
<1>8. CASE \/ CountMode(t, "poll_mode", "poll_sum")
           \/ CountMode(t, "count_mode", "count_sum")
  BY <1>0, <1>8 DEF CountMode, TypeOK, GroupPart
<1>9. CASE \/ CountSum(t, "poll_sum", "poll_report")
           \/ CountSum(t, "count_sum", "count_report")
  BY <1>0, <1>9 DEF CountSum, TypeOK, GroupPart
<1>10. CASE PollReport(t)
  BY <1>0, <1>10 DEF PollReport, TypeOK, GroupPart
<1>11. CASE CountReport(t)
  BY <1>0, <1>11 DEF CountReport, TypeOK, GroupPart
<1> QED
  BY <1>1, <1>2, <1>3, <1>4, <1>5, <1>6, <1>7, <1>8, <1>9, <1>10, <1>11
     DEF Step

-----------------------------------------------------------------------------
(* A lone request *)

\* The sum for a mode read once, or twice with the same result, is that mode's.
LEMMA SumIsCombined ==
  ASSUME NEW m \in GuardianModes
  PROVE  Combined(IF m = Hybrid THEN Hybrid ELSE IF m = Ndis THEN Ndis ELSE Wfp)
           = Combined(m)
  BY DEF GuardianModes

\* A step of the only call in progress agrees with what that call did before.
LEMMA StepLone ==
  ASSUME IInv, NEW t \in Threads, Step(t)
  PROVE  LonePart'
<1> USE DEF Goto, state, report, history, BeforeStore, BeforeReport, Counting
<1>0. TypeOK /\ LonePart /\ \A u \in Threads : CallShape(u)
  BY DEF IInv, TInv
<1>a. lone' = lone /\ pc[t] # "idle"
  BY DEF Step, Check, CoordinatorShutdown, StoreMode, ReportMode, Choose, Activate,
         Poll, CountMode, CountSum, PollReport, CountReport
<1> SUFFICES ASSUME lone PROVE LonePart'
  BY <1>a DEF LonePart
<1>b. \A u \in Threads : u # t => pc[u] = "idle"
  BY <1>0, <1>a DEF LonePart
<1>1. CASE Check(t)
  BY <1>0, <1>b, <1>1 DEF Check, TypeOK, LonePart, Quiet, Combined
<1>2. CASE CoordinatorShutdown(t)
  BY <1>0, <1>b, <1>2 DEF CoordinatorShutdown, TypeOK, LonePart, Quiet, Combined
<1>3. CASE StoreMode(t)
  BY <1>0, <1>b, <1>3 DEF StoreMode, TypeOK, LonePart, Quiet
<1>4. CASE ReportMode(t)
  BY <1>0, <1>b, <1>4 DEF ReportMode, TypeOK, LonePart, Quiet
<1>5. CASE Choose(t)
  BY <1>0, <1>b, <1>5 DEF Choose, TypeOK, LonePart, Quiet
<1>6. CASE Activate(t)
  BY <1>0, <1>b, <1>6 DEF Activate, TypeOK, LonePart, Quiet
<1>7. CASE Poll(t)
  BY <1>0, <1>b, <1>7 DEF Poll, TypeOK, LonePart, Quiet
<1>8. CASE \/ CountMode(t, "poll_mode", "poll_sum")
           \/ CountMode(t, "count_mode", "count_sum")
  BY <1>0, <1>b, <1>8 DEF CountMode, TypeOK, LonePart, Quiet
<1>9. CASE \/ CountSum(t, "poll_sum", "poll_report")
           \/ CountSum(t, "count_sum", "count_report")
  <2>1. seen[t] = mode /\ mode \in GuardianModes
    BY <1>0, <1>9 DEF CountSum, LonePart, TypeOK
  <2>2. /\ sum' = [sum EXCEPT ![t] = Combined(mode)]
        /\ ndisCount' = ndisCount
    BY <1>9, <2>1, SumIsCombined DEF CountSum
  <2>3. Combined(mode)' = Combined(mode)
    BY <1>9 DEF CountSum, Combined
  <2> QED
    BY <1>0, <1>b, <1>9, <2>2, <2>3 DEF CountSum, TypeOK, LonePart, Quiet
<1>10. CASE PollReport(t)
  BY <1>0, <1>b, <1>10 DEF PollReport, TypeOK, LonePart, Quiet
<1>11. CASE CountReport(t)
  <2>1. Combined(mode)' = Combined(mode)
    BY <1>11 DEF CountReport, Combined
  <2> QED
    BY <1>0, <1>b, <1>11, <2>1 DEF CountReport, TypeOK, LonePart, Quiet
<1> QED
  BY <1>1, <1>2, <1>3, <1>4, <1>5, <1>6, <1>7, <1>8, <1>9, <1>10, <1>11
     DEF Step

-----------------------------------------------------------------------------
(* The specification *)

\* The invariant holds initially and every step keeps it.
LEMMA InvariantHolds == Spec => []IInv
<1>1. Init => IInv
  <2> SUFFICES ASSUME Init PROVE IInv
    OBVIOUS
  <2>1. TypeOK
    <3>1. {mode, dsMode} \subseteq GuardianModes
      BY DEF Init, GuardianModes
    <3>2. {active, entered, lone} \subseteq BOOLEAN
      BY DEF Init
    <3>3. {ndisCount, dsFilters} \subseteq Nat
      BY DEF Init
    <3>4. /\ pc \in [Threads -> Labels]
          /\ want \in [Threads -> GuardianModes \cup {None}]
          /\ seen \in [Threads -> GuardianModes \cup {None}]
          /\ sum \in [Threads -> Nat]
          /\ group \subseteq GuardianModes
      BY DEF Init, Labels
    <3> QED BY <3>1, <3>2, <3>3, <3>4 DEF TypeOK
  <2>2. \A t \in Threads : CallShape(t)
    BY DEF Init, CallShape, Counting
  <2>3. GroupPart
    BY DEF Init, GroupPart
  <2>4. LonePart
    BY DEF Init, LonePart
  <2> QED BY <2>1, <2>2, <2>3, <2>4 DEF IInv, TInv
<1>2. IInv /\ [Next]_vars => IInv'
  <2> SUFFICES ASSUME IInv, [Next]_vars PROVE IInv'
    OBVIOUS
  <2>1. CASE EntrySetsMode
    <3>1. dsMode \in GuardianModes /\ Entry \in Threads
      BY DEF IInv, TInv, TypeOK, Threads
    <3> QED
      BY <2>1, <3>1, BeginTypes, BeginGroup DEF EntrySetsMode, IInv
  <2>2. ASSUME NEW t \in Threads, NEW m \in RequestModes, Request(t, m)
        PROVE  IInv'
    <3>1. m \in GuardianModes /\ entered' \in BOOLEAN
      BY <2>2, ValidIsMode DEF Request, IInv, TInv, TypeOK
    <3> QED
      BY <2>2, <3>1, BeginTypes, BeginGroup DEF Request, IInv
  <2>3. ASSUME NEW t \in Threads, Step(t)
        PROVE  IInv'
    BY <2>3, StepTypes, StepGroup, StepLone DEF IInv
  <2>4. CASE UNCHANGED vars
    BY <2>4
       DEF vars, IInv, TInv, TypeOK, CallShape, GroupPart, LonePart, Quiet,
           Combined
  <2> QED
    BY <2>1, <2>2, <2>3, <2>4 DEF Next
<1> QED
  BY <1>1, <1>2, PTL DEF Spec

\* Every variable keeps its type: whatever numbers requests carry, the mode in
\* force and the mode reported are of GUARDIAN_MODE.
THEOREM TypeCorrect == Spec => []TypeOK
<1>1. IInv => TypeOK
  BY DEF IInv, TInv
<1> QED
  BY <1>1, InvariantHolds, PTL

\* For any number of overlapping GuardianHybridSetMode calls: the mode and the
\* report end as some of them asked, and the coordinator as all of them did.
THEOREM OverlapEndsAsRequestedHolds == Spec => []OverlapEndsAsRequested
<1>1. IInv => OverlapEndsAsRequested
  BY DEF IInv, GroupPart, OverlapEndsAsRequested, Quiet, BeforeStore,
         BeforeReport, BeforeStart
<1> QED
  BY <1>1, InvariantHolds, PTL

\* A GuardianHybridSetMode call that overlaps with no other leaves the reported
\* mode and filter count in agreement with the mode, whatever was there before.
THEOREM LoneRequestAgreesHolds == Spec => []LoneRequestAgrees
<1>1. IInv => LoneRequestAgrees
  BY DEF IInv, LonePart, LoneRequestAgrees
<1> QED
  BY <1>1, InvariantHolds, PTL
=============================================================================
