----------------------------- MODULE KillSwitch -----------------------------
(* The kill switch, driver/killswitch/killswitch.c, with the two kinds of    *)
(* threads that meet in it: IOCTL threads running SET_KILL_SWITCH (set under *)
(* the lock, then read the mode back without it and publish it in            *)
(* g_GuardianDriverState) and classify threads running                       *)
(* GuardianKillSwitchEvaluate.  The mode and the VPN interface are two       *)
(* words, written and read one at a time.                                    *)
EXTENDS KillSwitchModes

CONSTANTS
  Setters,      \* IOCTL threads dispatching SET_KILL_SWITCH
  Evaluators,   \* classify threads
  Luids,        \* interface identifiers; 0 means none
  Requests,     \* the requests that may arrive, records of a mode and a luid
  Stored,       \* the values the registry may hold
  None

Pairs == Modes \X Luids
Threads == Setters \cup Evaluators

ASSUME KsThreadsAssumption == Setters \cap Evaluators = {}
ASSUME LuidsAssumption == 0 \in Luids
ASSUME RequestsAssumption == Requests \subseteq [mode : Modes, luid : Luids]
ASSUME StoredAssumption == Stored \subseteq Nat
ASSUME KsNoneAssumption == None \notin Requests

VARIABLES
  lock,       \* g_KillSwitchLock is taken
  ksMode,     \* g_KillSwitchMode
  vpnLuid,    \* g_VpnInterfaceLuid
  dsMode,     \* g_GuardianDriverState.KillSwitchMode
  pc,
  req,        \* the request each setter carries out
  seen,       \* the mode each thread read
  seenLuid,   \* the interface each evaluator read
  installed,  \* history: the last pair a request, or the boot, put in place
  window,     \* history: the pairs in place during each evaluation so far
  recent      \* history: the modes in place since no request was in flight

vars == <<lock, ksMode, vpnLuid, dsMode, pc, req, seen, seenLuid, installed,
          window, recent>>
locals == <<req, seen, seenLuid>>
history == <<installed, window, recent>>

Labels == {"idle", "set_acquire", "set_mode", "set_luid", "set_release",
           "get_mode", "publish",
           "eval_acquire", "eval_mode", "eval_luid", "eval_release", "decide"}
Holding == {"set_mode", "set_luid", "set_release",
            "eval_mode", "eval_luid", "eval_release"}

Goto(t, l) == pc' = [pc EXCEPT ![t] = l]
Quiet == \A s \in Setters : pc[s] = "idle"

\* GuardianKillSwitchInitialize: a stored mode may be picked up, the interface
\* never is, and the driver state is not told
Init ==
  /\ lock = FALSE
  /\ \E v \in Stored \cup {0} : ksMode = StoredMode(v)
  /\ vpnLuid = 0
  /\ dsMode = Off
  /\ pc = [t \in Threads |-> "idle"]
  /\ req = [t \in Setters |-> None]
  /\ seen = [t \in Threads |-> None]
  /\ seenLuid = [t \in Evaluators |-> None]
  /\ installed = <<ksMode, 0>>
  /\ window = [t \in Evaluators |-> {}]
  /\ recent = {ksMode, dsMode}

(* Definitions named Bad... are altered forms of the definition that follows *)
(* them, used only to show that a property notices such a change.            *)

BadLockFree == TRUE

LockFree == ~lock

Acquire(t, from, to) ==
  /\ pc[t] = from
  /\ LockFree
  /\ lock' = TRUE
  /\ Goto(t, to)
  /\ UNCHANGED <<ksMode, vpnLuid, dsMode, locals, history>>

Release(t, from, to) ==
  /\ pc[t] = from
  /\ lock' = FALSE
  /\ Goto(t, to)
  /\ UNCHANGED <<ksMode, vpnLuid, dsMode, locals, history>>

-----------------------------------------------------------------------------
(* SET_KILL_SWITCH *)

\* A request of the right version and a known mode; any other is refused
BeginSet(s, r) ==
  /\ pc[s] = "idle"
  /\ Goto(s, "set_acquire")
  /\ req' = [req EXCEPT ![s] = r]
  /\ recent' = IF Quiet THEN {ksMode} ELSE recent
  /\ UNCHANGED <<lock, ksMode, vpnLuid, dsMode, seen, seenLuid, installed,
                 window>>

WriteMode(s) ==
  /\ pc[s] = "set_mode"
  /\ ksMode' = Effect(req[s])[1]
  /\ recent' = recent \cup {ksMode'}
  /\ Goto(s, "set_luid")
  /\ UNCHANGED <<lock, vpnLuid, dsMode, locals, installed, window>>

WriteLuid(s) ==
  /\ pc[s] = "set_luid"
  /\ vpnLuid' = Effect(req[s])[2]
  /\ installed' = Effect(req[s])
  /\ window' = [e \in Evaluators |-> IF pc[e] = "idle" THEN {}
                                     ELSE window[e] \cup {Effect(req[s])}]
  /\ Goto(s, "set_release")
  /\ UNCHANGED <<lock, ksMode, dsMode, locals, recent>>

\* GuardianKillSwitchGetMode, without the lock
BadGetMode(s) ==
  /\ pc[s] = "get_mode"
  /\ seen' = [seen EXCEPT ![s] = req[s].mode]
  /\ Goto(s, "publish")
  /\ UNCHANGED <<lock, ksMode, vpnLuid, dsMode, req, seenLuid, history>>

GetMode(s) ==
  /\ pc[s] = "get_mode"
  /\ seen' = [seen EXCEPT ![s] = ksMode]
  /\ Goto(s, "publish")
  /\ UNCHANGED <<lock, ksMode, vpnLuid, dsMode, req, seenLuid, history>>

Publish(s) ==
  /\ pc[s] = "publish"
  /\ dsMode' = seen[s]
  /\ seen' = [seen EXCEPT ![s] = None]
  /\ req' = [req EXCEPT ![s] = None]
  /\ Goto(s, "idle")
  /\ UNCHANGED <<lock, ksMode, vpnLuid, seenLuid, history>>

-----------------------------------------------------------------------------
(* GuardianKillSwitchEvaluate *)

BeginEvaluate(e) ==
  /\ pc[e] = "idle"
  /\ Goto(e, "eval_acquire")
  /\ window' = [window EXCEPT ![e] = {installed}]
  /\ UNCHANGED <<lock, ksMode, vpnLuid, dsMode, locals, installed, recent>>

ReadMode(e) ==
  /\ pc[e] = "eval_mode"
  /\ seen' = [seen EXCEPT ![e] = ksMode]
  /\ Goto(e, "eval_luid")
  /\ UNCHANGED <<lock, ksMode, vpnLuid, dsMode, req, seenLuid, history>>

ReadLuid(e) ==
  /\ pc[e] = "eval_luid"
  /\ seenLuid' = [seenLuid EXCEPT ![e] = vpnLuid]
  /\ Goto(e, "eval_release")
  /\ UNCHANGED <<lock, ksMode, vpnLuid, dsMode, req, seen, history>>

\* The pair just read is judged, and the call returns
Decide(e) ==
  /\ pc[e] = "decide"
  /\ seen' = [seen EXCEPT ![e] = None]
  /\ seenLuid' = [seenLuid EXCEPT ![e] = None]
  /\ window' = [window EXCEPT ![e] = {}]
  /\ Goto(e, "idle")
  /\ UNCHANGED <<lock, ksMode, vpnLuid, dsMode, req, installed, recent>>

-----------------------------------------------------------------------------
SetterNext(s) ==
  \/ \E r \in Requests : BeginSet(s, r)
  \/ Acquire(s, "set_acquire", "set_mode")
  \/ WriteMode(s) \/ WriteLuid(s)
  \/ Release(s, "set_release", "get_mode")
  \/ GetMode(s) \/ Publish(s)

EvaluatorNext(e) ==
  \/ BeginEvaluate(e)
  \/ Acquire(e, "eval_acquire", "eval_mode")
  \/ ReadMode(e) \/ ReadLuid(e)
  \/ Release(e, "eval_release", "decide")
  \/ Decide(e)

Next ==
  \/ \E s \in Setters : SetterNext(s)
  \/ \E e \in Evaluators : EvaluatorNext(e)

Spec == Init /\ [][Next]_vars

-----------------------------------------------------------------------------
(* Properties *)

\* Every variable has its type; in particular the mode is a known one whatever
\* the registry holds.
TypeOK ==
  /\ lock \in BOOLEAN
  /\ ksMode \in Modes
  /\ vpnLuid \in Luids
  /\ dsMode \in Modes
  /\ pc \in [Threads -> Labels]
  /\ req \in [Setters -> Requests \cup {None}]
  /\ seen \in [Threads -> Modes \cup {None}]
  /\ seenLuid \in [Evaluators -> Luids \cup {None}]
  /\ installed \in Pairs
  /\ window \in [Evaluators -> SUBSET Pairs]
  /\ recent \in SUBSET Modes

\* The mode and the interface an evaluation acts on were in place together at
\* one moment of that evaluation: it never joins the mode of one request with
\* the interface of another, nor uses a pair that was replaced before it began.
SnapshotIsInstalled ==
  \A e \in Evaluators :
    pc[e] = "decide" => <<seen[e], seenLuid[e]>> \in window[e]

\* When no request is in flight, the mode reported by GET_DRIVER_STATE was in
\* place at some time since the overlapping requests began.  It need not be the
\* last one: two requests may publish in the opposite order of their sets.
ReportIsRecent ==
  Quiet => dsMode \in recent
=============================================================================
