----------------------------- MODULE HybridMode -----------------------------
(* GuardianHybridSetMode and the coordinator behind it, driver/filters/      *)
(* filters.c.  SET_GUARDIAN_MODE requests run it in parallel with each other *)
(* and with DriverEntry, which applies the mode it finds in the driver state *)
(* while the device already answers.  No lock protects the mode, the         *)
(* coordinator's flag or the counts: every access is a step of its own.      *)
(* The NDIS driver that is polled is outside this driver.                    *)
EXTENDS Integers, FiniteSets

CONSTANTS
  IoctlThreads,
  Entry,         \* the thread that runs DriverEntry
  RequestModes,  \* the numbers a SET_GUARDIAN_MODE may carry
  NdisCounts,    \* what the NDIS driver may report as FilterAttached
  None

Wfp == 0         \* GUARDIAN_MODE
Ndis == 1
Hybrid == 2
GuardianModes == {Wfp, Ndis, Hybrid}

Threads == IoctlThreads \cup {Entry}

\* GuardianStateManagerFilterCount: g_FilterCount is zeroed and never counted
FilterCount == 0

ASSUME HybridAssumption ==
  /\ Entry \notin IoctlThreads
  /\ RequestModes \subseteq Nat
  /\ NdisCounts \subseteq Nat
  /\ None \notin GuardianModes

VARIABLES
  mode,          \* g_GuardianMode
  active,        \* g_HybridCoordinatorActive
  ndisCount,     \* g_NdisFilterCount
  dsMode,        \* g_GuardianDriverState.GuardianMode
  dsFilters,     \* g_GuardianDriverState.FilterCount
  entered,       \* DriverEntry has called GuardianHybridSetMode
  pc,
  want,          \* the mode each thread sets
  seen,          \* the mode it read in GuardianHybridGetCombinedFilterCount
  sum,           \* what that returned
  group,         \* history: the modes of the requests that last overlapped
  lone           \* history: the last request overlapped with no other

vars == <<mode, active, ndisCount, dsMode, dsFilters, entered, pc, want, seen,
          sum, group, lone>>
history == <<group, lone>>
state == <<mode, active, ndisCount>>
report == <<dsMode, dsFilters>>

Labels == {"idle", "check", "shutdown", "store", "report", "choose", "activate",
           "poll", "poll_mode", "poll_sum", "poll_report",
           "count_mode", "count_sum", "count_report"}

\* GuardianReadRegistryGuardianMode: the driver state starts with the mode the
\* registry holds, or with Wfp
Init ==
  /\ mode = Wfp
  /\ active = FALSE
  /\ ndisCount = 0
  /\ dsMode \in GuardianModes
  /\ dsFilters = 0
  /\ entered = FALSE
  /\ pc = [t \in Threads |-> "idle"]
  /\ want = [t \in Threads |-> None]
  /\ seen = [t \in Threads |-> None]
  /\ sum = [t \in Threads |-> 0]
  /\ group = {}
  /\ lone = FALSE

Goto(t, l) == pc' = [pc EXCEPT ![t] = l]
Quiet == \A t \in Threads : pc[t] = "idle"

Begin(t, m) ==
  /\ pc[t] = "idle"
  /\ Goto(t, "check")
  /\ want' = [want EXCEPT ![t] = m]
  /\ group' = IF Quiet THEN {m} ELSE group \cup {m}
  /\ lone' = Quiet
  /\ UNCHANGED <<state, report, seen, sum>>

(* Definitions named Bad... are altered forms of the definition that follows *)
(* them, used only to show that a property notices such a change.            *)

BadIsValidMode(m) == m <= Hybrid + 1

IsValidMode(m) == m <= Hybrid

\* Any other mode is refused without effect
Request(t, m) ==
  /\ t \in IoctlThreads
  /\ IsValidMode(m)
  /\ Begin(t, m)
  /\ entered' = entered

EntrySetsMode ==
  /\ ~entered
  /\ entered' = TRUE
  /\ Begin(Entry, dsMode)

-----------------------------------------------------------------------------
BadCheck(t) ==
  /\ pc[t] = "check"
  /\ Goto(t, IF active /\ want[t] = Wfp THEN "shutdown" ELSE "store")
  /\ UNCHANGED <<state, report, entered, want, seen, sum, history>>

Check(t) ==
  /\ pc[t] = "check"
  /\ Goto(t, IF active /\ want[t] # Hybrid THEN "shutdown" ELSE "store")
  /\ UNCHANGED <<state, report, entered, want, seen, sum, history>>

\* GuardianHybridCoordinatorShutdown
CoordinatorShutdown(t) ==
  /\ pc[t] = "shutdown"
  /\ active' = FALSE
  /\ Goto(t, "store")
  /\ UNCHANGED <<mode, ndisCount, report, entered, want, seen, sum, history>>

StoreMode(t) ==
  /\ pc[t] = "store"
  /\ mode' = want[t]
  /\ Goto(t, "report")
  /\ UNCHANGED <<active, ndisCount, report, entered, want, seen, sum, history>>

ReportMode(t) ==
  /\ pc[t] = "report"
  /\ dsMode' = want[t]
  /\ Goto(t, "choose")
  /\ UNCHANGED <<state, dsFilters, entered, want, seen, sum, history>>

\* The coordinator is started, the NDIS driver polled, or neither
Choose(t) ==
  /\ pc[t] = "choose"
  /\ Goto(t, CASE want[t] = Hybrid /\ ~active -> "activate"
               [] want[t] = Ndis -> "poll"
               [] OTHER -> "count_mode")
  /\ UNCHANGED <<state, report, entered, want, seen, sum, history>>

\* GuardianHybridCoordinatorInitialize
Activate(t) ==
  /\ pc[t] = "activate"
  /\ active' = TRUE
  /\ Goto(t, "poll")
  /\ UNCHANGED <<mode, ndisCount, report, entered, want, seen, sum, history>>

\* GuardianNdisQueryFilterCountViaIoctl: the count the NDIS driver reports, if it
\* can be opened and asked; otherwise the last count stays
AfterQuery(c) == NdisCounts \cup {c}

\* GuardianHybridPollNdisState
Poll(t) ==
  /\ pc[t] = "poll"
  /\ ndisCount' \in AfterQuery(ndisCount)
  /\ Goto(t, "poll_mode")
  /\ UNCHANGED <<mode, active, report, entered, want, seen, sum, history>>

\* GuardianHybridGetCombinedFilterCount: the count a mode calls for
Combined(m) ==
  CASE m = Hybrid -> FilterCount + ndisCount
    [] m = Ndis -> ndisCount
    [] OTHER -> FilterCount

\* The mode is compared with Hybrid and then with Ndis, and is read again for
\* the second comparison or not, as compiled
CountMode(t, from, to) ==
  /\ pc[t] = from
  /\ seen' = [seen EXCEPT ![t] = mode]
  /\ Goto(t, to)
  /\ UNCHANGED <<state, report, entered, want, sum, history>>

CountSum(t, from, to) ==
  /\ pc[t] = from
  /\ \E again \in {seen[t], mode} :
       sum' = [sum EXCEPT ![t] =
                 Combined(IF seen[t] = Hybrid THEN Hybrid
                          ELSE IF again = Ndis THEN Ndis ELSE Wfp)]
  /\ seen' = [seen EXCEPT ![t] = None]
  /\ Goto(t, to)
  /\ UNCHANGED <<state, report, entered, want, history>>

\* The poll reports the sum, and its caller counts once more
PollReport(t) ==
  /\ pc[t] = "poll_report"
  /\ dsFilters' = sum[t]
  /\ Goto(t, "count_mode")
  /\ UNCHANGED <<state, dsMode, entered, want, seen, sum, history>>

\* The last access of the call
BadCountReport(t) ==
  /\ pc[t] = "count_report"
  /\ dsFilters' = IF want[t] = Wfp THEN dsFilters ELSE sum[t]
  /\ want' = [want EXCEPT ![t] = None]
  /\ sum' = [sum EXCEPT ![t] = 0]
  /\ Goto(t, "idle")
  /\ UNCHANGED <<state, dsMode, entered, seen, history>>

CountReport(t) ==
  /\ pc[t] = "count_report"
  /\ dsFilters' = sum[t]
  /\ want' = [want EXCEPT ![t] = None]
  /\ sum' = [sum EXCEPT ![t] = 0]
  /\ Goto(t, "idle")
  /\ UNCHANGED <<state, dsMode, entered, seen, history>>

Step(t) ==
  \/ Check(t) \/ CoordinatorShutdown(t) \/ StoreMode(t) \/ ReportMode(t)
  \/ Choose(t) \/ Activate(t) \/ Poll(t)
  \/ CountMode(t, "poll_mode", "poll_sum") \/ CountSum(t, "poll_sum", "poll_report")
  \/ PollReport(t)
  \/ CountMode(t, "count_mode", "count_sum") \/ CountSum(t, "count_sum", "count_report")
  \/ CountReport(t)

Next ==
  \/ EntrySetsMode
  \/ \E t \in Threads : Step(t) \/ \E m \in RequestModes : Request(t, m)

Spec == Init /\ [][Next]_vars

-----------------------------------------------------------------------------
(* Properties *)

\* Every variable has its type; in particular the mode GET_DRIVER_STATE reports
\* is one of GUARDIAN_MODE.
TypeOK ==
  /\ {mode, dsMode} \subseteq GuardianModes
  /\ {active, entered, lone} \subseteq BOOLEAN
  /\ {ndisCount, dsFilters} \subseteq Nat
  /\ pc \in [Threads -> Labels]
  /\ want \in [Threads -> GuardianModes \cup {None}]
  /\ seen \in [Threads -> GuardianModes \cup {None}]
  /\ sum \in [Threads -> Nat]
  /\ group \subseteq GuardianModes

\* Requests that overlap end in a mode one of them asked for, and report one of
\* theirs, not always the same; the coordinator runs if all asked for Hybrid
\* and does not if none did, whatever earlier overlaps left behind.
OverlapEndsAsRequested ==
  Quiet /\ group # {} =>
    /\ mode \in group
    /\ dsMode \in group
    /\ group = {Hybrid} => active
    /\ Hybrid \notin group => ~active

\* A request that overlaps with no other leaves the report in agreement with the
\* mode and the polled count, although each is stored apart.
LoneRequestAgrees ==
  Quiet /\ lone => dsMode = mode /\ dsFilters = Combined(mode)
=============================================================================
