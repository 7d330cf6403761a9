----------------------------- MODULE Lifecycle -----------------------------
(* The driver from load to unload: DriverEntry and GuardianEvtDriverUnload   *)
(* (guardian/driver.c), GuardianCreateDevice (guardian/device.c), the        *)
(* callout manager's registration (callouts/manager.c), the state manager    *)
(* and the recovery manager.  The device answers IOCTLs from the middle of   *)
(* DriverEntry on, so requests interleave with the rest of it.  The filter   *)
(* engine, the registry and the framework's clean-up are outside the driver. *)
EXTENDS KillSwitchModes, Sequences, FiniteSets

CONSTANTS
  Stored,         \* what the registry holds as KillSwitchMode
  Requests,       \* kill switch requests
  Generations,    \* generations an unsettled state may carry
  ImportedModes,  \* kill switch modes it may carry, known or not
  GenerationMod,  \* the generation is a UINT32: 2^32
  Importers,      \* IOCTL threads that import states, or copy the driver's
  None

ASSUME LifecycleAssumption ==
  /\ IsFiniteSet(Importers)
  /\ Stored \in Nat
  /\ GenerationMod \in Nat \ {0}
  /\ Generations \subseteq 0..(GenerationMod - 1)
  /\ \A r \in Requests : r.mode \in Modes

\* The callouts in the order GuardianCalloutManagerRegister registers them
CalloutOrder == <<"auth_v4", "auth_v6", "flow_v4", "flow_v6">>
Callouts == {CalloutOrder[i] : i \in 1..Len(CalloutOrder)}

VARIABLES
  phase,          \* where DriverEntry or the unload is; "absent", "up"
  openable,       \* the control device answers
  tables,         \* the policy and route tables are initialized
  engine,         \* callouts registered with the filter engine
  registered,     \* g_CalloutsRegistered
  calloutCount,   \* g_RegisteredCalloutCount
  ds,             \* g_GuardianDriverState
  generation,     \* g_RecoveryGeneration
  newGeneration,  \* the local of GuardianRecoveryManagerBegin
  ksMode,         \* g_KillSwitchMode
  importing,      \* the state each importer is half through with, or None
  copy,           \* the fields GET_DRIVER_STATE has copied so far, or None
  seen,           \* history: the life cycle state of the copy before
  loadedBefore,   \* history: the driver was loaded, and went, before
  partStart,      \* history: a start failed with callouts registered
  told,           \* history: who last set the reported kill switch mode
  unsettled,      \* history: the last import overlapped DriverEntry or another
  lastMode        \* history: the kill switch mode when the driver last went

vars == <<phase, openable, tables, engine, registered, calloutCount, ds,
          generation, newGeneration, ksMode, importing, copy, seen,
          loadedBefore, partStart, told, unsettled, lastMode>>
callouts == <<engine, registered, calloutCount>>
recovery == <<generation, newGeneration, importing>>
reading == <<copy, seen>>
history == <<loadedBefore, partStart, told, unsettled, lastMode>>

Phases == {"absent", "create_driver", "create_device", "register",
           "registered", "recovering", "recover_write", "recover_store",
           "recover_report", "running", "up",
           "failing", "failed", "closing", "unregister", "shutdown", "exit"}

Lifecycles == {"starting", "recovering", "running", "failed", "stopped"}
NoState == [lifecycle |-> "stopped", callouts |-> 0, lastError |-> FALSE,
            generation |-> 0, ksMode |-> Off]

ASSUME NoneAssumption ==
  /\ None \notin Lifecycles
  /\ None \notin [generation : Generations, ksMode : ImportedModes]

Copied == {"lifecycle", "callouts", "lastError"}
NoCopy == [f \in Copied |-> None]

Init ==
  /\ phase = "absent"
  /\ openable = FALSE
  /\ tables = FALSE
  /\ engine = {}
  /\ registered = FALSE
  /\ calloutCount = 0
  /\ ds = NoState
  /\ generation = 0
  /\ newGeneration = 0
  /\ ksMode = Off
  /\ importing = [t \in Importers |-> None]
  /\ copy = NoCopy
  /\ seen = None
  /\ loadedBefore = FALSE
  /\ partStart = FALSE
  /\ told = "boot"
  /\ unsettled = FALSE
  /\ lastMode = Off

-----------------------------------------------------------------------------
(* DriverEntry *)

\* The image is loaded with its initial globals, and the subsystems are
\* initialized; nobody else runs yet.  The query for the stored kill switch
\* mode may deliver the value or leave the default.
Load ==
  /\ phase = "absent"
  /\ phase' = "create_driver"
  /\ tables' = TRUE
  /\ registered' = FALSE
  /\ calloutCount' = 0
  /\ ds' = [NoState EXCEPT !.lifecycle = "starting"]
  /\ generation' = 0
  /\ newGeneration' = 0
  /\ \E v \in {0, Stored} : ksMode' = StoredMode(v)
  /\ told' = "boot"
  /\ unsettled' = FALSE
  /\ UNCHANGED <<reading, openable, engine, loadedBefore, partStart, lastMode,
                 importing>>

(* Definitions named Bad... are altered forms of the definition that follows *)
(* them, used only to show that a property notices such a change.            *)

\* Any failing call: the status is stored, then the state Failed, and
\* DriverEntry returns the status
Fails(at) ==
  /\ phase = at
  /\ phase' = "failing"
  /\ ds' = [ds EXCEPT !.lastError = TRUE]
  /\ partStart' = (partStart \/ engine # {})
  /\ UNCHANGED <<reading, openable, tables, callouts, recovery, ksMode,
                 loadedBefore, told, unsettled, lastMode>>

ReportFailed ==
  /\ phase = "failing"
  /\ phase' = "failed"
  /\ ds' = [ds EXCEPT !.lifecycle = "failed"]
  /\ UNCHANGED <<reading, openable, tables, callouts, recovery, ksMode,
                 history>>

DriverCreate ==
  /\ phase = "create_driver"
  /\ phase' = "create_device"
  /\ UNCHANGED <<reading, openable, tables, callouts, ds, recovery, ksMode,
                 history>>

\* WdfControlFinishInitializing: from here on requests are served
CreateDevice ==
  /\ phase = "create_device"
  /\ phase' = "register"
  /\ openable' = TRUE
  /\ UNCHANGED <<reading, tables, callouts, ds, recovery, ksMode, history>>

\* One FwpsCalloutRegister1; the engine refuses a key that is still registered
BadRegisterCallout ==
  LET key == CalloutOrder[calloutCount + 1] IN
  /\ phase = "register"
  /\ calloutCount < Len(CalloutOrder)
  /\ key \notin engine
  /\ engine' = engine \cup {key}
  /\ calloutCount' = calloutCount + 1
  /\ ds' = [ds EXCEPT !.lifecycle = IF calloutCount' = Len(CalloutOrder)
                                     THEN "recovering" ELSE @]
  /\ UNCHANGED <<reading, phase, openable, tables, registered, recovery,
                 ksMode, history>>

RegisterCallout ==
  LET key == CalloutOrder[calloutCount + 1] IN
  /\ phase = "register"
  /\ calloutCount < Len(CalloutOrder)
  /\ key \notin engine
  /\ engine' = engine \cup {key}
  /\ calloutCount' = calloutCount + 1
  /\ UNCHANGED <<reading, phase, openable, tables, registered, ds, recovery,
                 ksMode, history>>

\* After the fourth, and CalloutsRegistered is reported.  The guard is the place
\* in the code: registrations one after the other, none of them counted.
BadRegisterDone ==
  /\ phase = "register"
  /\ calloutCount >= Len(CalloutOrder) - 1
  /\ registered' = TRUE
  /\ ds' = [ds EXCEPT !.callouts = calloutCount]
  /\ phase' = "registered"
  /\ UNCHANGED <<reading, openable, tables, engine, calloutCount, recovery,
                 ksMode, history>>

RegisterDone ==
  /\ phase = "register"
  /\ calloutCount = Len(CalloutOrder)
  /\ registered' = TRUE
  /\ ds' = [ds EXCEPT !.callouts = calloutCount]
  /\ phase' = "registered"
  /\ UNCHANGED <<reading, openable, tables, engine, calloutCount, recovery,
                 ksMode, history>>

\* Recovering is reported.  GuardianHybridSetMode, which follows, cannot fail
\* with a validated mode.
ReportRecovering ==
  /\ phase = "registered"
  /\ ds' = [ds EXCEPT !.lifecycle = "recovering"]
  /\ phase' = "recovering"
  /\ UNCHANGED <<reading, openable, tables, callouts, recovery, ksMode,
                 history>>

\* GuardianRecoveryManagerBegin, in the four accesses it makes: the generation
\* is read, the next one stored, reported by the setter, and reported again
BeginRead ==
  /\ phase = "recovering"
  /\ newGeneration' = (generation + 1) % GenerationMod
  /\ phase' = "recover_write"
  /\ UNCHANGED <<reading, openable, tables, callouts, ds, generation, ksMode,
                 history, importing>>

BeginWrite ==
  /\ phase = "recover_write"
  /\ generation' = newGeneration
  /\ phase' = "recover_store"
  /\ UNCHANGED <<reading, openable, tables, callouts, ds, newGeneration,
                 ksMode, history, importing>>

BeginStore ==
  /\ phase = "recover_store"
  /\ ds' = [ds EXCEPT !.generation = newGeneration]
  /\ phase' = "recover_report"
  /\ UNCHANGED <<reading, openable, tables, callouts, recovery, ksMode,
                 history>>

BeginReport ==
  /\ phase = "recover_report"
  /\ ds' = [ds EXCEPT !.generation = newGeneration]
  /\ phase' = "running"
  /\ UNCHANGED <<reading, openable, tables, callouts, recovery, ksMode,
                 history>>

EntryDone ==
  /\ phase = "running"
  /\ ds' = [ds EXCEPT !.lifecycle = "running"]
  /\ phase' = "up"
  /\ UNCHANGED <<reading, openable, tables, callouts, recovery, ksMode,
                 history>>

\* What is left of the driver when its image goes: nothing but the callouts
\* it did not unregister
Gone ==
  /\ phase' = "absent"
  /\ openable' = FALSE
  /\ importing' = [t \in Importers |-> None]
  /\ copy' = NoCopy
  /\ seen' = None
  /\ tables' = FALSE
  /\ registered' = FALSE
  /\ calloutCount' = 0
  /\ ds' = NoState
  /\ generation' = 0
  /\ newGeneration' = 0
  /\ ksMode' = Off
  /\ told' = "boot"
  /\ unsettled' = FALSE
  /\ lastMode' = ksMode
  /\ loadedBefore' = TRUE

\* No request is half through
Idle == (\A t \in Importers : importing[t] = None) /\ copy = NoCopy

\* The framework closes the device of a driver whose entry failed, lets the
\* requests in it end, and deletes it; the unload callback does not run
CloseDevice ==
  /\ phase = "failed"
  /\ phase' = "closing"
  /\ openable' = FALSE
  /\ UNCHANGED <<reading, tables, callouts, ds, recovery, ksMode, history>>

EntryFailed ==
  /\ phase = "closing"
  /\ Idle
  /\ Gone
  /\ UNCHANGED <<engine, partStart>>

-----------------------------------------------------------------------------
(* GuardianEvtDriverUnload: the device has no open handles any more *)

BadUnload ==
  /\ phase = "up"
  /\ Idle
  /\ phase' = "shutdown"
  /\ openable' = FALSE
  /\ ds' = [ds EXCEPT !.lifecycle = "stopped"]
  /\ UNCHANGED <<reading, tables, callouts, recovery, ksMode, history>>

Unload ==
  /\ phase = "up"
  /\ Idle
  /\ phase' = "unregister"
  /\ openable' = FALSE
  /\ ds' = [ds EXCEPT !.lifecycle = "stopped"]
  /\ UNCHANGED <<reading, tables, callouts, recovery, ksMode, history>>

\* GuardianCalloutManagerUnregister
BadUnregister ==
  /\ phase = "unregister"
  /\ engine' = engine \ {"auth_v4", "auth_v6", "flow_v4"}
  /\ registered' = FALSE
  /\ calloutCount' = 0
  /\ phase' = "shutdown"
  /\ UNCHANGED <<reading, openable, tables, ds, recovery, ksMode, history>>

Unregister ==
  /\ phase = "unregister"
  /\ IF registered
       THEN /\ engine' = engine \ Callouts
            /\ registered' = FALSE
            /\ calloutCount' = 0
       ELSE UNCHANGED callouts
  /\ phase' = "shutdown"
  /\ UNCHANGED <<reading, openable, tables, ds, recovery, ksMode, history>>

\* GuardianStateManagerShutdown frees what the tables hold
Shutdown ==
  /\ phase = "shutdown"
  /\ tables' = FALSE
  /\ phase' = "exit"
  /\ UNCHANGED <<reading, openable, callouts, ds, recovery, ksMode, history>>

\* The callback returns, the framework deletes the device, the image goes
ExitDone ==
  /\ phase = "exit"
  /\ Gone
  /\ UNCHANGED <<engine, partStart>>

\* The machine stops: the engine starts afresh as well
Crash ==
  /\ phase # "absent"
  /\ Gone
  /\ engine' = {}
  /\ partStart' = FALSE

-----------------------------------------------------------------------------
(* Requests *)

\* SET_KILL_SWITCH in one step; KillSwitch models what overlapping ones do
SetKillSwitch(r) ==
  /\ openable
  /\ ksMode' = Effect(r)[1]
  /\ ds' = [ds EXCEPT !.ksMode = ksMode']
  /\ told' = "request"
  /\ UNCHANGED <<reading, phase, openable, tables, callouts, recovery,
                 loadedBefore, partStart, unsettled, lastMode>>

\* A thread is left for another request that takes more than one step
HasThread ==
  Cardinality({t \in Importers : importing[t] # None})
    + (IF copy = NoCopy THEN 0 ELSE 1) < Cardinality(Importers)

\* IMPORT_STATE, after the checks of size and version, which fail without
\* effect.  The generation is stored, then copied into the report: read back
\* from memory or not, as compiled.
ImportGeneration(t, g, m) ==
  /\ openable
  /\ importing[t] = None
  /\ HasThread
  /\ generation' = g
  /\ importing' = [importing EXCEPT ![t] = [generation |-> g, ksMode |-> m]]
  /\ unsettled' = (phase # "up" \/ \E u \in Importers : importing[u] # None)
  /\ UNCHANGED <<reading, phase, openable, tables, callouts, ds,
                 newGeneration, ksMode, loadedBefore, partStart, told,
                 lastMode>>

\* The kill switch itself is not told, and the mode is not checked
BadImportReport(t) ==
  /\ importing[t] # None
  /\ ds' = [ds EXCEPT !.ksMode = importing[t].ksMode]
  /\ importing' = [importing EXCEPT ![t] = None]
  /\ told' = "import"
  /\ UNCHANGED <<reading, phase, openable, tables, callouts, generation,
                 newGeneration, ksMode, loadedBefore, partStart, unsettled,
                 lastMode>>

ImportReport(t) ==
  /\ importing[t] # None
  /\ \E g \in {importing[t].generation, generation} :
       ds' = [ds EXCEPT !.generation = g, !.ksMode = importing[t].ksMode]
  /\ importing' = [importing EXCEPT ![t] = None]
  /\ told' = "import"
  /\ UNCHANGED <<reading, phase, openable, tables, callouts, generation,
                 newGeneration, ksMode, loadedBefore, partStart, unsettled,
                 lastMode>>

\* What EXPORT_STATE answers; RECONCILE answers the generation alone
Exported == [generation |-> generation, ksMode |-> ksMode]

\* GET_DRIVER_STATE: RtlCopyMemory takes the fields one by one, in any order;
\* one caller asks, again and again
CopyField(f) ==
  /\ copy # NoCopy \/ (openable /\ HasThread)
  /\ copy[f] = None
  /\ copy' = [copy EXCEPT ![f] = ds[f]]
  /\ UNCHANGED <<seen, phase, openable, tables, callouts, ds, recovery,
                 ksMode, history>>

IsCopied == \A f \in Copied : copy[f] # None

CopyDone ==
  /\ IsCopied
  /\ seen' = copy.lifecycle
  /\ copy' = NoCopy
  /\ UNCHANGED <<phase, openable, tables, callouts, ds, recovery, ksMode,
                 history>>

-----------------------------------------------------------------------------
Entry ==
  \/ Load
  \/ Fails("create_driver") \/ DriverCreate
  \/ Fails("create_device") \/ CreateDevice
  \/ Fails("register") /\ calloutCount < Len(CalloutOrder)
  \/ ReportFailed
  \/ RegisterCallout \/ RegisterDone \/ ReportRecovering
  \/ BeginRead \/ BeginWrite \/ BeginStore \/ BeginReport
  \/ EntryDone \/ CloseDevice \/ EntryFailed

Exit == Unload \/ Unregister \/ Shutdown \/ ExitDone

Request ==
  \/ \E r \in Requests : SetKillSwitch(r)
  \/ \E t \in Importers, g \in Generations, m \in ImportedModes :
       ImportGeneration(t, g, m)
  \/ \E t \in Importers : ImportReport(t)
  \/ \E f \in Copied : CopyField(f)
  \/ CopyDone

Next == Entry \/ Exit \/ Crash \/ Request

Spec == Init /\ [][Next]_vars

-----------------------------------------------------------------------------
(* Properties *)

\* Every variable has its type; in particular the enforced mode is a known one
\* whatever the registry holds.
TypeOK ==
  /\ phase \in Phases
  /\ {openable, tables, registered, partStart, unsettled, loadedBefore}
       \subseteq BOOLEAN
  /\ engine \subseteq Callouts
  /\ calloutCount \in 0..Len(CalloutOrder)
  /\ ds \in [lifecycle : Lifecycles,
             callouts : 0..Len(CalloutOrder), lastError : BOOLEAN,
             generation : 0..(GenerationMod - 1),
             ksMode : Modes \cup ImportedModes]
  /\ {generation, newGeneration} \subseteq 0..(GenerationMod - 1)
  /\ ksMode \in Modes
  /\ importing \in [Importers -> {None} \cup
                     [generation : Generations, ksMode : ImportedModes]]
  /\ copy \in [lifecycle : Lifecycles \cup {None},
               callouts : 0..Len(CalloutOrder) \cup {None},
               lastError : BOOLEAN \cup {None}]
  /\ seen \in Lifecycles \cup {None}
  /\ told \in {"boot", "request", "import"}
  /\ lastMode \in Modes

\* A driver that reports Running or Recovering is enforcing: all four callouts
\* are with the engine, as many as it reports, and the unload will see them.
ReportedMeansEnforcing ==
  ds.lifecycle \in {"running", "recovering"} =>
    /\ engine = Callouts
    /\ ds.callouts = Cardinality(engine)
    /\ registered

\* While the image is there, the engine never has a callout of this load
\* registered over tables that are not initialized or already torn down.
TablesOutliveCallouts ==
  phase # "absent" /\ calloutCount > 0 => tables

\* Callouts stay with the engine after their image is gone only if some start
\* failed between its first and its last registration: no other path through
\* entry, failure and unload leaves any.
LeftBehindOnlyByPartStart ==
  phase = "absent" /\ engine # {} => partStart

\* GET_DRIVER_STATE and EXPORT_STATE agree on the generation whenever the driver
\* is up and no import is under way, unless the last import overlapped another
\* one or DriverEntry; the next import that does not makes them agree again.
GenerationsAgree ==
  phase = "up" /\ Idle /\ ~unsettled => ds.generation = Exported.generation

\* A copy of the driver state may mix the fields of two moments; but a caller
\* that asks until the state is a settled one, and then once more, has a copy
\* that is right: all callouts once it saw Recovering or Running, the error once
\* it saw Failed, and no way back from Running or Failed while the device is
\* there to be asked.
SecondCopyIsComplete ==
  IsCopied =>
    /\ seen \in {"recovering", "running"} => copy.callouts = Len(CalloutOrder)
    /\ seen = "failed" => copy.lastError
    /\ seen \in {"running", "failed"} => copy.lifecycle = seen

\* "KillSwitchMode | Persisted kill switch" (docs/recovery.md): a driver that
\* came up again, and got no request since, enforces the mode it went with.
KillSwitchPersists ==
  phase = "up" /\ told = "boot" /\ loadedBefore => ksMode = lastMode
=============================================================================
