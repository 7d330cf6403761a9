---------------------------- MODULE IoctlDispatch ----------------------------
(* The way of a request through GuardianEvtIoDeviceControl                   *)
(* (ipc/ioctl_dispatch.c): GuardianSecurityPolicyVerifyCaller compares its   *)
(* process with the first caller's, which is remembered for as long as the   *)
(* driver is loaded; GuardianValidateIoctlBuffer checks its buffers; the     *)
(* switch hands them to a component; and, whatever became of it, it is       *)
(* recorded before it is completed.  Requests run in parallel; processes     *)
(* start, exit, and ids are reused.  What components do is modelled in their *)
(* own modules, and the accesses of GuardianPerfRecordIpc in Telemetry.      *)
EXTENDS Integers, FiniteSets

CONSTANTS
  Handlers,     \* IOCTL threads
  Pids,
  Sessions,
  MaxRequests,  \* bound on the number of requests
  None

ASSUME GateAssumption == None \notin Pids /\ None \notin Sessions
ASSUME HandlersAssumption == IsFiniteSet(Handlers)
ASSUME BoundAssumption == MaxRequests \in Nat

VARIABLES
  session,     \* the session of each live process; None where there is none
  pinned,      \* g_GuardianAllowedServicePid
  pc,
  caller,      \* the process a handler works for
  callerSession,
  status,      \* of the handler's request
  perf,        \* IpcDispatchCount and IpcRejectCount of g_Telemetry
  pinSession,  \* history: the session of the process that was remembered
  racing,      \* history: two handlers found nothing remembered
  orphaned,    \* history: the remembered process has exited
  reused,      \* history: the remembered id was given to a new process
  admitted,    \* history: the sessions of all callers let through
  ended,       \* history: completed and failed requests
  unmet        \* history: codes served without all that the switch uses

gate == <<session, pinned>>
request == <<caller, callerSession, status>>
history == <<pinSession, racing, orphaned, reused, admitted, ended, unmet>>
vars == <<gate, pc, request, perf, history>>

Labels == {"idle", "lookup", "check", "pin", "compare", "compare_session",
           "serve", "record", "complete"}

\* The codes of shared/protocol/guardian_ioctl.h
InputCodes == {"SET_APP_POLICY", "SYNC_POLICIES", "SET_ROUTE", "CLEAR_ROUTE",
               "SYNC_ROUTES", "SET_KILL_SWITCH", "IMPORT_STATE",
               "DNS_SET_CONFIG", "SET_GUARDIAN_MODE"}
OutputCodes == {"GET_DRIVER_STATE", "GET_TELEMETRY", "EXPORT_STATE",
                "RECONCILE", "GET_PERF_STATS", "GET_DNS_STATS"}
Codes == InputCodes \cup OutputCodes

BatchCodes == {"SYNC_POLICIES", "SYNC_ROUTES"}

\* A buffer may be missing, too short for what its code needs, long enough, or
\* longer than GUARDIAN_MAX_IOCTL_BUFFER; an input that is a batch may also end
\* behind its header, before the entries that the header announces
Sizes == {"none", "short", "enough", "oversized"}
Buffers ==
  {q \in [code : Codes \cup {"other"}, in : Sizes \cup {"header"}, out : Sizes] :
     q.in = "header" => q.code \in BatchCodes}

Init ==
  /\ session = [p \in Pids |-> None]
  /\ pinned = None
  /\ pc = [h \in Handlers |-> "idle"]
  /\ caller = [h \in Handlers |-> None]
  /\ callerSession = [h \in Handlers |-> None]
  /\ status = [h \in Handlers |-> "none"]
  /\ perf = [dispatched |-> 0, rejected |-> 0]
  /\ pinSession = None
  /\ racing = FALSE
  /\ orphaned = FALSE
  /\ reused = FALSE
  /\ admitted = {}
  /\ ended = [all |-> 0, failed |-> 0]
  /\ unmet = {}

Goto(h, l) == pc' = [pc EXCEPT ![h] = l]

-----------------------------------------------------------------------------
(* Processes and their requests *)

Start(p, s) ==
  /\ session[p] = None
  /\ session' = [session EXCEPT ![p] = s]
  /\ reused' = (reused \/ p = pinned)
  /\ UNCHANGED <<pinned, pc, request, perf, pinSession, racing, orphaned,
                 admitted, ended, unmet>>

\* A process is there until its requests are completed
Exit(p) ==
  /\ session[p] # None
  /\ \A h \in Handlers : caller[h] = p => pc[h] = "idle"
  /\ session' = [session EXCEPT ![p] = None]
  /\ orphaned' = (orphaned \/ p = pinned)
  /\ UNCHANGED <<pinned, pc, request, perf, pinSession, racing, reused,
                 admitted, ended, unmet>>

InFlight == {h \in Handlers : pc[h] # "idle"}

Request(h, p) ==
  /\ pc[h] = "idle"
  /\ ended.all + Cardinality(InFlight) < MaxRequests
  /\ session[p] # None
  /\ Goto(h, "lookup")
  /\ caller' = [caller EXCEPT ![h] = p]
  /\ status' = [status EXCEPT ![h] = "none"]
  /\ UNCHANGED <<gate, callerSession, perf, history>>

-----------------------------------------------------------------------------
(* GuardianSecurityPolicyVerifyCaller *)

(* Definitions named Bad... are altered forms of the definition that follows *)
(* them, used only to show that a property notices such a change.            *)

\* goto Complete: the request has failed and is recorded
BadFail(h) ==
  /\ Goto(h, "complete")
  /\ status' = [status EXCEPT ![h] = "failed"]

Fail(h) ==
  /\ Goto(h, "record")
  /\ status' = [status EXCEPT ![h] = "failed"]

Deny(h) ==
  /\ Goto(h, "record")
  /\ status' = [status EXCEPT ![h] = "denied"]

Admit(h) ==
  /\ Goto(h, "serve")
  /\ admitted' = admitted \cup {callerSession[h]}
  /\ status' = status

BadLookupCaller(h) ==
  /\ pc[h] = "lookup"
  /\ Goto(h, "check")
  /\ UNCHANGED <<gate, request, perf, history>>

\* The caller's process and session are looked up
LookupCaller(h) ==
  /\ pc[h] = "lookup"
  /\ callerSession' = [callerSession EXCEPT ![h] = session[caller[h]]]
  /\ IF session[caller[h]] = None
       THEN Deny(h)
       ELSE Goto(h, "check") /\ status' = status
  /\ UNCHANGED <<gate, caller, perf, history>>

\* Nothing is remembered yet?  The test and the store are two accesses.
CheckUnset(h) ==
  /\ pc[h] = "check"
  /\ Goto(h, IF pinned = None THEN "pin" ELSE "compare")
  /\ racing' = \/ racing
               \/ pinned = None /\ \E g \in Handlers \ {h} : pc[g] = "pin"
  /\ UNCHANGED <<gate, request, perf, pinSession, orphaned, reused, admitted,
                 ended, unmet>>

Pin(h) ==
  /\ pc[h] = "pin"
  /\ pinned' = caller[h]
  /\ pinSession' = callerSession[h]
  /\ Admit(h)
  /\ UNCHANGED <<session, caller, callerSession, perf, racing, orphaned,
                 reused, ended, unmet>>

BadComparePid(h) ==
  /\ pc[h] = "compare"
  /\ IF caller[h] = pinned THEN Admit(h) ELSE Deny(h) /\ admitted' = admitted
  /\ UNCHANGED <<gate, caller, callerSession, perf, pinSession, racing,
                 orphaned, reused, ended, unmet>>

ComparePid(h) ==
  /\ pc[h] = "compare"
  /\ IF caller[h] = pinned
       THEN Admit(h)
       ELSE Goto(h, "compare_session") /\ UNCHANGED <<status, admitted>>
  /\ UNCHANGED <<gate, caller, callerSession, perf, pinSession, racing,
                 orphaned, reused, ended, unmet>>

\* Another process: let through while the remembered one lives in its session
BadCompareSession(h) ==
  /\ pc[h] = "compare_session"
  /\ IF session[pinned] = None \/ session[pinned] = callerSession[h]
       THEN Admit(h)
       ELSE Deny(h) /\ admitted' = admitted
  /\ UNCHANGED <<gate, caller, callerSession, perf, pinSession, racing,
                 orphaned, reused, ended, unmet>>

CompareSession(h) ==
  /\ pc[h] = "compare_session"
  /\ IF session[pinned] # None /\ session[pinned] = callerSession[h]
       THEN Admit(h)
       ELSE Deny(h) /\ admitted' = admitted
  /\ UNCHANGED <<gate, caller, callerSession, perf, pinSession, racing,
                 orphaned, reused, ended, unmet>>

-----------------------------------------------------------------------------
(* GuardianValidateIoctlBuffer and the component *)

\* WdfRequestRetrieveInputBuffer or WdfRequestRetrieveOutputBuffer
RetrieveFails(h) ==
  /\ pc[h] = "serve"
  /\ Fail(h)
  /\ UNCHANGED <<gate, caller, callerSession, perf, history>>

BadIsValid(q) ==
  /\ "oversized" \notin {q.in, q.out}
  /\ q.code \in Codes
  /\ q.code \in InputCodes \ (BatchCodes \cup {"IMPORT_STATE"}) => q.in = "enough"
  /\ q.code \in BatchCodes => q.in \in {"header", "enough"}
  /\ q.code = "RECONCILE" => q.out = "enough"

\* GuardianValidateIoctlBuffer; of a batch it wants the header, whose count it
\* may find too large, and does not ask for the entries
IsValid(q) ==
  /\ "oversized" \notin {q.in, q.out}
  /\ q.code \in Codes
  /\ q.code \in InputCodes \ BatchCodes => q.in = "enough"
  /\ q.code \in BatchCodes => q.in \in {"header", "enough"}
  /\ q.code = "RECONCILE" => q.out = "enough"

\* The output it requires is compared with what there is by its caller
HasOutput(q) == q.code \in OutputCodes => q.out = "enough"

Refuse(h, q) ==
  /\ pc[h] = "serve"
  /\ q.code \in BatchCodes \/ ~IsValid(q) \/ ~HasOutput(q)
  /\ Fail(h)
  /\ UNCHANGED <<gate, caller, callerSession, perf, history>>

\* The buffer the switch reads or writes for a code without a test of its own,
\* the entries of a batch included.  (RECONCILE passes on an input it may have,
\* and GuardianRecoveryReconcile ignores it.)
Uses(code) ==
  CASE code \in {"GET_DRIVER_STATE", "GET_TELEMETRY", "EXPORT_STATE", "RECONCILE",
                 "GET_PERF_STATS", "GET_DNS_STATS"} -> {"out"}
    [] code \in {"SET_APP_POLICY", "SYNC_POLICIES", "SET_ROUTE", "CLEAR_ROUTE",
                 "SYNC_ROUTES", "SET_KILL_SWITCH", "IMPORT_STATE",
                 "DNS_SET_CONFIG", "SET_GUARDIAN_MODE"} -> {"in"}
    [] OTHER -> {}

\* The component serves the request, or refuses it
Serve(h, q) ==
  /\ pc[h] = "serve"
  /\ IsValid(q) /\ HasOutput(q)
  /\ unmet' = IF Uses(q.code) = {} \/ \E b \in Uses(q.code) : q[b] # "enough"
                THEN unmet \cup {q.code} ELSE unmet
  /\ Goto(h, "record")
  /\ \E st \in {"success", "failed"} : status' = [status EXCEPT ![h] = st]
  /\ UNCHANGED <<gate, caller, callerSession, perf, pinSession, racing,
                 orphaned, reused, admitted, ended>>

-----------------------------------------------------------------------------
(* Complete: *)

Rejected(h) == status[h] # "success"
One(b) == IF b THEN 1 ELSE 0

\* GuardianPerfRecordIpc
RecordIpc(h) ==
  /\ pc[h] = "record"
  /\ perf' = [dispatched |-> perf.dispatched + 1,
              rejected |-> perf.rejected + One(Rejected(h))]
  /\ Goto(h, "complete")
  /\ UNCHANGED <<gate, request, history>>

\* WdfRequestCompleteWithInformation
Complete(h) ==
  /\ pc[h] = "complete"
  /\ ended' = [all |-> ended.all + 1, failed |-> ended.failed + One(Rejected(h))]
  /\ Goto(h, "idle")
  /\ UNCHANGED <<gate, request, perf, pinSession, racing, orphaned, reused,
                 admitted, unmet>>

-----------------------------------------------------------------------------
Verify(h) ==
  \/ LookupCaller(h) \/ CheckUnset(h) \/ Pin(h) \/ ComparePid(h)
  \/ CompareSession(h)

Handle(h) ==
  \/ RetrieveFails(h)
  \/ \E q \in Buffers : Refuse(h, q) \/ Serve(h, q)
  \/ RecordIpc(h) \/ Complete(h)

Next ==
  \/ \E p \in Pids : Exit(p) \/ \E s \in Sessions : Start(p, s)
  \/ \E h \in Handlers : \E p \in Pids : Request(h, p)
  \/ \E h \in Handlers : Verify(h) \/ Handle(h)

Spec == Init /\ [][Next]_vars

-----------------------------------------------------------------------------
(* Properties *)

\* Every variable has its type; in particular a caller is only ever let through
\* with the session that was looked up for it.
TypeOK ==
  /\ session \in [Pids -> Sessions \cup {None}]
  /\ pinned \in Pids \cup {None}
  /\ pc \in [Handlers -> Labels]
  /\ caller \in [Handlers -> Pids \cup {None}]
  /\ callerSession \in [Handlers -> Sessions \cup {None}]
  /\ status \in [Handlers -> {"none", "success", "failed", "denied"}]
  /\ perf \in [dispatched : Nat, rejected : Nat]
  /\ pinSession \in Sessions \cup {None}
  /\ {racing, orphaned, reused} \subseteq BOOLEAN
  /\ unmet \subseteq Codes \cup {"other"}
  /\ admitted \subseteq Sessions
  /\ ended \in [all : Nat, failed : Nat]

\* All callers ever let through belong to one session, the first caller's,
\* whatever exits and starts in between; a process that takes over the
\* remembered id, or a tie between first callers, is the only exception.
OneSession ==
  racing \/ reused \/ admitted \subseteq {pinSession}

\* A caller of the first caller's session is refused only once the remembered
\* process has exited, or after a tie between first callers: no interleaving of
\* other processes and requests turns it away.  (After the exit it is refused
\* for good: nothing replaces the remembered process.)
RefusedOnlyOnceOrphaned ==
  \A h \in Handlers :
    status[h] = "denied" /\ callerSession[h] = pinSession => orphaned \/ racing

\* The validation and the switch list the codes separately.  The switch never
\* meets a code it does not know, and every structure of fixed size that it uses
\* the validation has seen to be there and whole.  The entries of a batch are the
\* exception: only their number is checked, so that a batch may be served that
\* ends before its entries do.
ServedHasBuffers == unmet \subseteq BatchCodes

\* Whatever path a request took, it is in the statistics once when it is
\* completed, among the rejected ones exactly if it failed: between requests
\* the counters are what was completed.
RecordedOnce ==
  InFlight = {} =>
    /\ perf.dispatched = ended.all
    /\ perf.rejected = ended.failed
=============================================================================
