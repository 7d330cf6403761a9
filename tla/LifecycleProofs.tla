-------------------------- MODULE LifecycleProofs --------------------------
(* Proofs about Lifecycle, for any stored mode, any requests, any generation *)
(* width and any number of threads that import states.                       *)
EXTENDS Lifecycle, FiniteSetTheorems, TLAPS

-----------------------------------------------------------------------------
(* The inductive invariant *)

Recovering == {"recovering", "recover_write", "recover_store", "recover_report",
               "running"}
Loaded == {"registered", "up", "unregister"} \cup Recovering
Failure == {"failing", "failed", "closing"}
Ending == {"shutdown", "exit"}
Asked == {"register", "registered", "up", "failing", "failed"} \cup Recovering

\* What the driver reports of itself, and whether it answers, in each phase
PhasePart ==
  /\ ds.lifecycle = "recovering" <=> phase \in Recovering
  /\ ds.lifecycle = "running" <=> phase = "up"
  /\ ds.lifecycle = "failed" <=> phase \in {"failed", "closing"}
  /\ phase \in Failure => ds.lastError
  /\ openable => phase \in Asked

\* The callouts follow the registrations, and the tables stay while there are
\* any; what is left when the image goes was left by a start that failed
CalloutPart ==
  /\ registered <=> phase \in Loaded
  /\ registered => /\ engine = Callouts
                   /\ calloutCount = Len(CalloutOrder)
                   /\ ds.callouts = Len(CalloutOrder)
  /\ phase \in {"absent", "create_driver", "create_device"} => calloutCount = 0
  /\ phase = "register" => \A i \in 1..calloutCount : CalloutOrder[i] \in engine
  /\ phase \in Ending => /\ calloutCount = 0 /\ engine = {}
                         /\ ds.callouts = Len(CalloutOrder)
  /\ phase \in Failure \cup {"absent"} /\ engine # {} => partStart
  /\ phase \notin {"absent", "exit"} => tables

\* The generations meet at the end of DriverEntry and of every import that is
\* alone; such an import is the only one under way
GenerationPart ==
  /\ phase = "absent" => \A t \in Importers : importing[t] = None
  /\ ~unsettled =>
      /\ \A t, u \in Importers :
           importing[t] # None /\ importing[u] # None => t = u
      /\ \A t \in Importers : importing[t] # None =>
           phase = "up" /\ importing[t].generation = generation
      /\ phase \in {"recover_store", "recover_report"} =>
           newGeneration = generation
      /\ phase = "running" => ds.generation = generation
      /\ phase = "up" /\ (\A t \in Importers : importing[t] = None) =>
           ds.generation = generation

\* What a caller has copied, now or before, still tells how far the driver is
CopyPart ==
  /\ \A l \in {seen, copy.lifecycle} :
       /\ l = "recovering" => phase \in (Loaded \cup Ending) \ {"registered"}
       /\ l = "running" => phase \in {"up", "unregister"} \cup Ending
       /\ l = "failed" => phase \in {"failed", "closing"}
  /\ phase \in {"absent", "create_driver", "create_device", "unregister"}
       \cup Ending => copy = NoCopy /\ ~openable
  /\ phase \in {"absent", "create_driver", "create_device"} => seen = None
  /\ seen \in {"recovering", "running"} =>
       copy.callouts \in {None, Len(CalloutOrder)}
  /\ seen = "failed" => copy.lastError \in {None, TRUE}
  /\ seen \in {"running", "failed"} => copy.lifecycle \in {None, seen}

IInv == TypeOK /\ PhasePart /\ CalloutPart /\ GenerationPart /\ CopyPart

-----------------------------------------------------------------------------
(* Operators *)

\* There are four callouts, and each place of the order holds one.
LEMMA FourCallouts ==
  /\ Len(CalloutOrder) = 4
  /\ Callouts = {"auth_v4", "auth_v6", "flow_v4", "flow_v6"}
  /\ \A i \in 1..4 : CalloutOrder[i] \in Callouts
  /\ Cardinality(Callouts) = 4
<1>1. Len(CalloutOrder) = 4
  BY DEF CalloutOrder
<1>2. Callouts = {"auth_v4", "auth_v6", "flow_v4", "flow_v6"}
  BY <1>1 DEF Callouts, CalloutOrder
<1>3. \A i \in 1..4 : CalloutOrder[i] \in Callouts
  BY <1>1 DEF Callouts
<1>4. Cardinality(Callouts) = 4
  <2>1. /\ IsFiniteSet({} \cup {"auth_v4"})
        /\ Cardinality({} \cup {"auth_v4"}) = 1
    BY FS_EmptySet, FS_AddElement
  <2>2. /\ IsFiniteSet({"auth_v4"} \cup {"auth_v6"})
        /\ Cardinality({"auth_v4"} \cup {"auth_v6"}) = 2
    <3>1. {"auth_v4"} = {} \cup {"auth_v4"} /\ "auth_v6" \notin {"auth_v4"}
      OBVIOUS
    <3> QED BY <2>1, <3>1, FS_AddElement
  <2>3. /\ IsFiniteSet({"auth_v4", "auth_v6"} \cup {"flow_v4"})
        /\ Cardinality({"auth_v4", "auth_v6"} \cup {"flow_v4"}) = 3
    <3>1. /\ {"auth_v4", "auth_v6"} = {"auth_v4"} \cup {"auth_v6"}
          /\ "flow_v4" \notin {"auth_v4", "auth_v6"}
      OBVIOUS
    <3> QED BY <2>2, <3>1, FS_AddElement
  <2>4. /\ Callouts = {"auth_v4", "auth_v6", "flow_v4"} \cup {"flow_v6"}
        /\ {"auth_v4", "auth_v6", "flow_v4"} = {"auth_v4", "auth_v6"} \cup {"flow_v4"}
        /\ "flow_v6" \notin {"auth_v4", "auth_v6", "flow_v4"}
    BY <1>2
  <2> QED BY <2>3, <2>4, FS_AddElement
<1> QED BY <1>1, <1>2, <1>3, <1>4

\* The mode taken over from the registry is a known one, and so is the mode a
\* request puts in place.
LEMMA ModesKnown ==
  /\ \A v \in Nat : StoredMode(v) \in Modes
  /\ \A r \in Requests : Effect(r)[1] \in Modes
  BY LifecycleAssumption
     DEF StoredMode, Effect, Modes, Off, BlockAll, AllowVpnOnly, Restore

-----------------------------------------------------------------------------
(* Types *)

Flags ==
  /\ openable \in BOOLEAN /\ tables \in BOOLEAN /\ registered \in BOOLEAN
  /\ partStart \in BOOLEAN /\ unsettled \in BOOLEAN /\ loadedBefore \in BOOLEAN

States ==
  [lifecycle : Lifecycles, callouts : 0..Len(CalloutOrder),
   lastError : BOOLEAN, generation : 0..(GenerationMod - 1),
   ksMode : Modes \cup ImportedModes]
Copies ==
  [lifecycle : Lifecycles \cup {None},
   callouts : 0..Len(CalloutOrder) \cup {None}, lastError : BOOLEAN \cup {None}]

\* The initial globals are well-typed.
LEMMA NoStateTypes ==
  /\ 0 \in 0..(GenerationMod - 1) /\ 0 \in 0..Len(CalloutOrder)
  /\ Off \in Modes
  /\ NoState \in States /\ [NoState EXCEPT !.lifecycle = "starting"] \in States
  /\ NoCopy \in Copies
<1>1. 0 \in 0..(GenerationMod - 1) /\ 0 \in 0..Len(CalloutOrder)
  BY LifecycleAssumption, FourCallouts
<1>2. Off \in Modes
  BY DEF Modes
<1>3. NoState \in States /\ [NoState EXCEPT !.lifecycle = "starting"] \in States
  BY <1>1, <1>2 DEF NoState, States, Lifecycles
<1>4. NoCopy \in Copies
  BY DEF NoCopy, Copied, Copies
<1> QED BY <1>1, <1>2, <1>3, <1>4

\* Loading the driver leaves a well-typed state.
LEMMA LoadTypes ==
  ASSUME TypeOK, Load
  PROVE  TypeOK'
<1>1. ksMode' \in Modes
  BY LifecycleAssumption, ModesKnown DEF Load
<1>2. Flags'
  BY DEF Load, Flags, TypeOK
<1>3. ds' \in States
  BY NoStateTypes DEF Load
<1> QED BY <1>1, <1>2, <1>3, NoStateTypes
        DEF Load, TypeOK, Flags, Phases, reading, States

\* Its image going does.
LEMMA GoneTypes ==
  ASSUME TypeOK, Gone, engine' \subseteq engine, partStart' \in BOOLEAN
  PROVE  TypeOK'
<1>1. Flags'
  BY DEF Gone, Flags
<1>2. ds' \in States /\ copy' \in Copies
  BY NoStateTypes DEF Gone
<1> QED BY <1>1, <1>2, NoStateTypes
        DEF Gone, TypeOK, Flags, Phases, States, Copies

\* So does every other step of DriverEntry and of the unload.
LEMMA EntryTypes ==
  ASSUME TypeOK, Entry \/ Exit \/ Crash
  PROVE  TypeOK'
<1> USE DEF callouts, recovery, reading, history
<1>0. Flags
  BY DEF Flags, TypeOK
<1>1. CASE Load \/ EntryFailed \/ ExitDone \/ Crash
  <2>1. CASE Load
    BY <2>1, LoadTypes
  <2>2. CASE EntryFailed \/ ExitDone \/ Crash
    <3>1. Gone /\ engine' \subseteq engine /\ partStart' \in BOOLEAN
      BY <1>0, <2>2 DEF EntryFailed, ExitDone, Crash, Flags
    <3> QED BY <3>1, GoneTypes
  <2> QED BY <1>1, <2>1, <2>2
<1>2. ASSUME NEW at, Fails(at)
      PROVE  TypeOK'
  <2>1. Flags'
    BY <1>0, <1>2 DEF Fails, Flags
  <2>2. ds' \in States /\ phase' \in Phases
    BY <1>2 DEF Fails, TypeOK, States, Phases
  <2> QED BY <1>2, <2>1, <2>2 DEF Fails, Flags, TypeOK, States
<1>3. CASE ReportFailed \/ ReportRecovering \/ EntryDone
  BY <1>3 DEF ReportFailed, ReportRecovering, EntryDone, TypeOK, Phases,
              Lifecycles
<1>4. CASE DriverCreate \/ BeginWrite
  BY <1>4 DEF DriverCreate, BeginWrite, TypeOK, Phases
<1>5. CASE CreateDevice \/ CloseDevice \/ Shutdown
  <2>1. Flags'
    BY <1>0, <1>5 DEF CreateDevice, CloseDevice, Shutdown, Flags
  <2> QED BY <1>5, <2>1 DEF CreateDevice, CloseDevice, Shutdown, Flags, TypeOK,
                            Phases
<1>6. CASE RegisterCallout
  <2>1. calloutCount + 1 \in 1..4
    BY <1>6, FourCallouts DEF RegisterCallout, TypeOK
  <2>2. CalloutOrder[calloutCount + 1] \in Callouts
    BY <2>1, FourCallouts
  <2>3. calloutCount' \in 0..Len(CalloutOrder)
    BY <1>6, <2>1, FourCallouts DEF RegisterCallout
  <2>4. engine' \subseteq Callouts
    BY <1>6, <2>2 DEF RegisterCallout, TypeOK
  <2> QED BY <1>6, <2>3, <2>4 DEF RegisterCallout, TypeOK
<1>7. CASE RegisterDone
  <2>1. Flags'
    BY <1>0, <1>7 DEF RegisterDone, Flags
  <2> QED BY <1>7, <2>1 DEF RegisterDone, Flags, TypeOK, Phases
<1>8. CASE BeginRead
  <2>1. newGeneration' \in 0..(GenerationMod - 1)
    <3>1. /\ generation \in Nat /\ GenerationMod \in Nat \ {0}
          /\ newGeneration' = (generation + 1) % GenerationMod
      BY <1>8, LifecycleAssumption DEF BeginRead, TypeOK
    <3> QED BY <3>1
  <2> QED BY <1>8, <2>1 DEF BeginRead, TypeOK, Phases
<1>9. CASE BeginStore \/ BeginReport
  BY <1>9 DEF BeginStore, BeginReport, TypeOK, Phases
<1>10. CASE Unload
  <2>1. Flags'
    BY <1>0, <1>10 DEF Unload, Flags
  <2> QED BY <1>10, <2>1 DEF Unload, Flags, TypeOK, Phases, Lifecycles
<1>11. CASE Unregister
  <2>1. Flags'
    BY <1>0, <1>11 DEF Unregister, Flags
  <2>2. calloutCount' \in 0..Len(CalloutOrder)
    BY <1>11, NoStateTypes DEF Unregister, TypeOK
  <2>3. engine' \subseteq Callouts
    BY <1>11 DEF Unregister, TypeOK
  <2> QED BY <1>11, <2>1, <2>2, <2>3 DEF Unregister, Flags, TypeOK, Phases
<1> QED BY <1>1, <1>2, <1>3, <1>4, <1>5, <1>6, <1>7, <1>8, <1>9, <1>10, <1>11
        DEF Entry, Exit

\* And so does every step of a request.
LEMMA RequestTypes ==
  ASSUME TypeOK, Request
  PROVE  TypeOK'
<1> USE DEF callouts, recovery, reading, history
<1>0. Flags
  BY DEF Flags, TypeOK
<1>1. ASSUME NEW r \in Requests, SetKillSwitch(r)
      PROVE  TypeOK'
  <2>1. ksMode' \in Modes
    BY <1>1, ModesKnown DEF SetKillSwitch
  <2> QED BY <1>1, <2>1 DEF SetKillSwitch, TypeOK
<1>2. ASSUME NEW t \in Importers, NEW g \in Generations, NEW m \in ImportedModes,
             ImportGeneration(t, g, m)
      PROVE  TypeOK'
  <2>1. generation' \in 0..(GenerationMod - 1)
    BY <1>2, LifecycleAssumption DEF ImportGeneration
  <2>2. importing' \in [Importers -> {None} \cup
                         [generation : Generations, ksMode : ImportedModes]]
    BY <1>2 DEF ImportGeneration, TypeOK
  <2>3. Flags'
    BY <1>0, <1>2 DEF ImportGeneration, Flags
  <2> QED BY <1>2, <2>1, <2>2, <2>3 DEF ImportGeneration, Flags, TypeOK
<1>3. ASSUME NEW t \in Importers, ImportReport(t)
      PROVE  TypeOK'
  <2>1. importing[t] \in [generation : Generations, ksMode : ImportedModes]
    BY <1>3 DEF ImportReport, TypeOK
  <2>2. /\ importing[t].generation \in 0..(GenerationMod - 1)
        /\ importing[t].ksMode \in ImportedModes
        /\ generation \in 0..(GenerationMod - 1)
    BY <2>1, LifecycleAssumption DEF TypeOK
  <2>3. importing' \in [Importers -> {None} \cup
                         [generation : Generations, ksMode : ImportedModes]]
    BY <1>3 DEF ImportReport, TypeOK
  <2> QED BY <1>3, <2>2, <2>3 DEF ImportReport, TypeOK
<1>4. ASSUME NEW f \in Copied, CopyField(f)
      PROVE  TypeOK'
  <2>1. copy' \in Copies
    <3>1. CASE f = "lifecycle"
      BY <1>4, <3>1 DEF CopyField, TypeOK, Copies
    <3>2. CASE f = "callouts"
      BY <1>4, <3>2 DEF CopyField, TypeOK, Copies
    <3>3. CASE f = "lastError"
      BY <1>4, <3>3 DEF CopyField, TypeOK, Copies
    <3> QED BY <3>1, <3>2, <3>3 DEF Copied
  <2> QED BY <1>4, <2>1 DEF CopyField, TypeOK, Copies
<1>5. CASE CopyDone
  <2>1. copy' \in Copies
    BY <1>5, NoStateTypes DEF CopyDone
  <2> QED BY <1>5, <2>1 DEF CopyDone, TypeOK, Copies
<1> QED BY <1>1, <1>2, <1>3, <1>4, <1>5 DEF Request

-----------------------------------------------------------------------------
(* Phases and reports *)

\* A request changes neither the phase nor what the driver reports of it.
LEMMA RequestKeepsPhase ==
  ASSUME TypeOK, Request
  PROVE  /\ UNCHANGED <<phase, openable, tables, callouts, partStart>>
         /\ ds'.lifecycle = ds.lifecycle /\ ds'.callouts = ds.callouts
         /\ ds'.lastError = ds.lastError
<1> USE DEF callouts, recovery, reading, history
<1>1. ASSUME NEW r \in Requests, SetKillSwitch(r)
      PROVE  /\ UNCHANGED <<phase, openable, tables, callouts, partStart>>
             /\ ds'.lifecycle = ds.lifecycle /\ ds'.callouts = ds.callouts
             /\ ds'.lastError = ds.lastError
  BY <1>1 DEF SetKillSwitch, TypeOK
<1>2. ASSUME NEW t \in Importers, ImportReport(t)
      PROVE  /\ UNCHANGED <<phase, openable, tables, callouts, partStart>>
             /\ ds'.lifecycle = ds.lifecycle /\ ds'.callouts = ds.callouts
             /\ ds'.lastError = ds.lastError
  BY <1>2 DEF ImportReport, TypeOK
<1> QED BY <1>1, <1>2 DEF Request, ImportGeneration, CopyField, CopyDone

\* What the driver reports of its life cycle follows its phases.
LEMMA PhaseKept ==
  ASSUME TypeOK, PhasePart, [Next]_vars
  PROVE  PhasePart'
<1> USE DEF vars, callouts, recovery, reading, history, PhasePart, Recovering,
            Failure, Asked
<1>1. CASE Load
  BY <1>1 DEF Load, NoState
<1>2. CASE Fails("create_driver") \/ Fails("create_device") \/ Fails("register")
  BY <1>2 DEF Fails, TypeOK
<1>3. CASE ReportFailed \/ ReportRecovering \/ EntryDone \/ Unload
  BY <1>3 DEF ReportFailed, ReportRecovering, EntryDone, Unload, TypeOK
<1>4. CASE DriverCreate \/ CreateDevice \/ RegisterCallout \/ CloseDevice
  BY <1>4 DEF DriverCreate, CreateDevice, RegisterCallout, CloseDevice
<1>5. CASE RegisterDone \/ BeginRead \/ BeginWrite \/ BeginStore \/ BeginReport
  BY <1>5 DEF RegisterDone, BeginRead, BeginWrite, BeginStore, BeginReport, TypeOK
<1>6. CASE Unregister \/ Shutdown
  BY <1>6 DEF Unregister, Shutdown
<1>7. CASE EntryFailed \/ ExitDone \/ Crash
  BY <1>7 DEF EntryFailed, ExitDone, Crash, Gone, NoState
<1>8. CASE Request
  BY <1>8, RequestKeepsPhase
<1>9. CASE UNCHANGED vars
  BY <1>9
<1> QED BY <1>1, <1>2, <1>3, <1>4, <1>5, <1>6, <1>7, <1>8, <1>9
        DEF Next, Entry, Exit

-----------------------------------------------------------------------------
(* Callouts *)

\* Registrations, failures and the unload keep the callouts accounted for.
LEMMA CalloutKept ==
  ASSUME TypeOK, CalloutPart, [Next]_vars
  PROVE  CalloutPart'
<1> USE FourCallouts DEF vars, callouts, recovery, reading, history, CalloutPart,
                         Recovering, Loaded, Failure, Ending
<1>1. CASE Load
  BY <1>1 DEF Load, NoState
<1>2. CASE Fails("create_driver") \/ Fails("create_device") \/ Fails("register")
  BY <1>2 DEF Fails, TypeOK
<1>3. CASE ReportFailed \/ ReportRecovering \/ EntryDone \/ Unload
  BY <1>3 DEF ReportFailed, ReportRecovering, EntryDone, Unload, TypeOK
<1>4. CASE DriverCreate \/ CloseDevice
  BY <1>4 DEF DriverCreate, CloseDevice
<1>5. CASE CreateDevice
  BY <1>5 DEF CreateDevice
<1>6. CASE RegisterCallout
  <2>1. ASSUME NEW i \in 1..calloutCount'
        PROVE  CalloutOrder[i] \in engine'
    <3>1. i \in 1..calloutCount \/ i = calloutCount + 1
      BY <1>6, <2>1 DEF RegisterCallout, TypeOK
    <3> QED BY <1>6, <3>1 DEF RegisterCallout
  <2> QED BY <1>6, <2>1 DEF RegisterCallout
<1>7. CASE RegisterDone
  <2>1. engine = Callouts
    BY <1>7 DEF RegisterDone, TypeOK, Callouts
  <2> QED BY <1>7, <2>1 DEF RegisterDone, TypeOK
<1>8. CASE BeginRead \/ BeginWrite \/ BeginStore \/ BeginReport
  BY <1>8 DEF BeginRead, BeginWrite, BeginStore, BeginReport, TypeOK
<1>9. CASE Unregister
  BY <1>9 DEF Unregister, TypeOK
<1>10. CASE Shutdown
  BY <1>10 DEF Shutdown
<1>11. CASE EntryFailed \/ ExitDone \/ Crash
  BY <1>11 DEF EntryFailed, ExitDone, Crash, Gone
<1>12. CASE Request
  BY <1>12, RequestKeepsPhase
<1>13. CASE UNCHANGED vars
  BY <1>13
<1> QED BY <1>1, <1>2, <1>3, <1>4, <1>5, <1>6, <1>7, <1>8, <1>9, <1>10, <1>11,
           <1>12, <1>13
        DEF Next, Entry, Exit

-----------------------------------------------------------------------------
(* Generations *)

\* Whoever stores a generation alone also reports it.
LEMMA GenerationKept ==
  ASSUME TypeOK, PhasePart, GenerationPart, [Next]_vars
  PROVE  GenerationPart'
<1> USE DEF vars, callouts, recovery, reading, history, GenerationPart
<1>1. CASE Load
  BY <1>1 DEF Load
<1>2. CASE Fails("create_driver") \/ Fails("create_device") \/ Fails("register")
  BY <1>2 DEF Fails, TypeOK
<1>3. CASE ReportFailed \/ ReportRecovering \/ EntryDone \/ RegisterDone
  BY <1>3 DEF ReportFailed, ReportRecovering, EntryDone, RegisterDone, TypeOK
<1>4. CASE DriverCreate \/ CreateDevice \/ RegisterCallout \/ CloseDevice
            \/ Unregister \/ Shutdown
  BY <1>4 DEF DriverCreate, CreateDevice, RegisterCallout, CloseDevice,
              Unregister, Shutdown
<1>5. CASE BeginRead \/ BeginWrite \/ BeginStore \/ BeginReport
  BY <1>5 DEF BeginRead, BeginWrite, BeginStore, BeginReport, TypeOK
<1>6. CASE Unload
  BY <1>6 DEF Unload, Idle
<1>7. CASE EntryFailed \/ ExitDone \/ Crash
  BY <1>7 DEF EntryFailed, ExitDone, Crash, Gone
<1>8. ASSUME NEW r \in Requests, SetKillSwitch(r)
      PROVE  GenerationPart'
  BY <1>8 DEF SetKillSwitch, TypeOK
<1>9. ASSUME NEW t \in Importers, NEW g \in Generations, NEW m \in ImportedModes,
             ImportGeneration(t, g, m)
      PROVE  GenerationPart'
  <2>1. [generation |-> g, ksMode |-> m] # None
    BY NoneAssumption
  <2>a. phase' # "absent"
    BY <1>9 DEF ImportGeneration, PhasePart, Asked, Recovering
  <2> SUFFICES ASSUME ~unsettled' PROVE GenerationPart'
    BY <2>a
  <2>2. phase = "up" /\ \A u \in Importers : importing[u] = None
    BY <1>9 DEF ImportGeneration
  <2>3. /\ importing' = [importing EXCEPT ![t] = [generation |-> g, ksMode |-> m]]
        /\ generation' = g /\ phase' = phase
    BY <1>9 DEF ImportGeneration
  <2>4. /\ importing'[t] # None /\ importing'[t].generation = g
        /\ \A u \in Importers \ {t} : importing'[u] = None
    BY <2>1, <2>2, <2>3 DEF TypeOK
  <2> QED BY <2>2, <2>3, <2>4
<1>10. ASSUME NEW t \in Importers, ImportReport(t)
       PROVE  GenerationPart'
  <2>a. phase' # "absent"
    BY <1>10 DEF ImportReport
  <2> SUFFICES ASSUME ~unsettled' PROVE GenerationPart'
    BY <2>a
  <2>1. ~unsettled /\ phase = "up" /\ importing[t].generation = generation
    BY <1>10 DEF ImportReport
  <2>2. /\ phase' = phase /\ generation' = generation
        /\ ds'.generation = generation
    BY <1>10, <2>1 DEF ImportReport, TypeOK
  <2>3. \A u \in Importers : importing'[u] = None
    BY <1>10, <2>1 DEF ImportReport, TypeOK
  <2> QED BY <2>1, <2>2, <2>3
<1>11. CASE (\E f \in Copied : CopyField(f)) \/ CopyDone
  BY <1>11 DEF CopyField, CopyDone
<1>12. CASE UNCHANGED vars
  BY <1>12
<1> QED BY <1>1, <1>2, <1>3, <1>4, <1>5, <1>6, <1>7, <1>8, <1>9, <1>10, <1>11,
           <1>12
        DEF Next, Entry, Exit, Request

-----------------------------------------------------------------------------
(* Copies of the driver state *)

\* What was copied stays a lower bound of how far the driver is.
LEMMA CopyKept ==
  ASSUME TypeOK, PhasePart, CalloutPart, CopyPart, [Next]_vars
  PROVE  CopyPart'
<1> USE DEF vars, callouts, recovery, reading, history, CopyPart,
            Recovering, Loaded, Failure, Ending
<1>a. NoCopy.lifecycle = None /\ NoCopy.callouts = None /\ NoCopy.lastError = None
  BY DEF NoCopy, Copied
<1>1. CASE Load
  BY <1>1 DEF Load
<1>2. CASE Fails("create_driver") \/ Fails("create_device") \/ Fails("register")
  BY <1>2, <1>a, NoneAssumption DEF Fails, Lifecycles
<1>3. CASE ReportFailed \/ ReportRecovering \/ EntryDone \/ RegisterDone
            \/ DriverCreate \/ RegisterCallout \/ CloseDevice
  <2>1. /\ UNCHANGED <<copy, seen>> /\ (openable' => openable)
        /\ <<phase, phase'>> \in {<<"failing", "failed">>,
             <<"registered", "recovering">>, <<"running", "up">>,
             <<"register", "registered">>, <<"create_driver", "create_device">>,
             <<"register", "register">>, <<"failed", "closing">>}
    BY <1>3 DEF ReportFailed, ReportRecovering, EntryDone, RegisterDone,
                DriverCreate, RegisterCallout, CloseDevice
  <2> QED BY <2>1
<1>4. CASE CreateDevice
  BY <1>4, <1>a, NoneAssumption DEF CreateDevice, Lifecycles
<1>5. CASE BeginRead \/ BeginWrite \/ BeginStore \/ BeginReport \/ Unregister
            \/ Shutdown
  <2>1. /\ UNCHANGED <<copy, seen, openable>>
        /\ <<phase, phase'>> \in {<<"recovering", "recover_write">>,
             <<"recover_write", "recover_store">>,
             <<"recover_store", "recover_report">>,
             <<"recover_report", "running">>, <<"unregister", "shutdown">>,
             <<"shutdown", "exit">>}
    BY <1>5 DEF BeginRead, BeginWrite, BeginStore, BeginReport, Unregister,
                Shutdown
  <2> QED BY <2>1
<1>6. CASE Unload
  BY <1>6 DEF Unload, Idle
<1>7. CASE EntryFailed \/ ExitDone \/ Crash
  BY <1>7, <1>a, NoneAssumption DEF EntryFailed, ExitDone, Crash, Gone, Lifecycles
<1>8. CASE (\E r \in Requests : SetKillSwitch(r))
            \/ (\E t \in Importers, g \in Generations, m \in ImportedModes :
                  ImportGeneration(t, g, m))
            \/ \E t \in Importers : ImportReport(t)
  <2>1. UNCHANGED <<phase, openable, copy, seen>>
    BY <1>8 DEF SetKillSwitch, ImportGeneration, ImportReport
  <2> QED BY <2>1
<1>9. ASSUME NEW f \in Copied, CopyField(f)
      PROVE  CopyPart'
  <2>1. /\ phase' = phase /\ seen' = seen /\ openable' = openable
        /\ phase \notin {"absent", "create_driver", "create_device", "unregister"}
             \cup Ending
    BY <1>9 DEF CopyField
  <2>2. CASE f = "lifecycle"
    <3>1. /\ copy'.lifecycle = ds.lifecycle /\ copy'.callouts = copy.callouts
          /\ copy'.lastError = copy.lastError
      BY <1>9, <2>2 DEF CopyField, TypeOK
    <3> QED BY <2>1, <3>1 DEF PhasePart
  <2>3. CASE f = "callouts"
    <3>1. /\ copy'.lifecycle = copy.lifecycle /\ copy'.callouts = ds.callouts
          /\ copy'.lastError = copy.lastError
      BY <1>9, <2>3 DEF CopyField, TypeOK
    <3> QED BY <2>1, <3>1 DEF CalloutPart
  <2>4. CASE f = "lastError"
    <3>1. /\ copy'.lifecycle = copy.lifecycle /\ copy'.callouts = copy.callouts
          /\ copy'.lastError = ds.lastError
      BY <1>9, <2>4 DEF CopyField, TypeOK
    <3> QED BY <2>1, <3>1 DEF PhasePart, TypeOK
  <2> QED BY <2>2, <2>3, <2>4 DEF Copied
<1>10. CASE CopyDone
  <2>1. phase \notin {"absent", "create_driver", "create_device"}
    BY <1>10, <1>a DEF CopyDone, IsCopied, Copied
  <2> QED BY <1>10, <1>a, <2>1, NoneAssumption DEF CopyDone, Lifecycles
<1>11. CASE UNCHANGED vars
  BY <1>11
<1> QED BY <1>1, <1>2, <1>3, <1>4, <1>5, <1>6, <1>7, <1>8, <1>9, <1>10, <1>11
        DEF Next, Entry, Exit, Request

-----------------------------------------------------------------------------
(* The theorems *)

\* The inductive invariant holds throughout.
LEMMA InvariantHolds == Spec => []IInv
<1>1. Init => IInv
  <2> SUFFICES ASSUME Init PROVE IInv
    OBVIOUS
  <2>1. Flags
    BY DEF Init, Flags
  <2>2. TypeOK
    BY <2>1, NoStateTypes DEF Init, Flags, TypeOK, Phases, States, Copies
  <2>3. PhasePart
    BY DEF Init, PhasePart, NoState, Recovering, Failure
  <2>4. CalloutPart /\ GenerationPart
    BY DEF Init, CalloutPart, GenerationPart, Loaded, Recovering, Ending, Failure
  <2>5. CopyPart
    <3>1. NoCopy.lifecycle = None /\ NoCopy.callouts = None
          /\ NoCopy.lastError = None
      BY DEF NoCopy, Copied
    <3> QED BY <3>1, NoneAssumption DEF Init, CopyPart, Lifecycles
  <2> QED BY <2>2, <2>3, <2>4, <2>5 DEF IInv
<1>2. IInv /\ [Next]_vars => IInv'
  <2> SUFFICES ASSUME IInv, [Next]_vars PROVE IInv'
    OBVIOUS
  <2>0. TypeOK /\ PhasePart /\ CalloutPart /\ GenerationPart /\ CopyPart
    BY DEF IInv
  <2>1. TypeOK'
    <3>1. CASE UNCHANGED vars
      BY <2>0, <3>1 DEF vars, TypeOK
    <3> QED BY <2>0, <3>1, EntryTypes, RequestTypes DEF Next
  <2> QED BY <2>0, <2>1, PhaseKept, CalloutKept, GenerationKept, CopyKept
          DEF IInv
<1> QED BY <1>1, <1>2, PTL DEF Spec

\* The driver's state is well-typed, whatever the registry holds and whatever
\* is imported.
THEOREM TypeCorrect == Spec => []TypeOK
<1>1. IInv => TypeOK
  BY DEF IInv
<1> QED BY <1>1, InvariantHolds, PTL

\* A driver that reports Recovering or Running has all four callouts with the
\* engine.
THEOREM ReportedMeansEnforcingHolds == Spec => []ReportedMeansEnforcing
<1>1. IInv => ReportedMeansEnforcing
  <2> SUFFICES ASSUME IInv, ds.lifecycle \in {"running", "recovering"}
               PROVE  /\ engine = Callouts
                      /\ ds.callouts = Cardinality(engine)
                      /\ registered
    BY DEF ReportedMeansEnforcing
  <2>1. phase \in Loaded
    BY DEF IInv, PhasePart, Loaded
  <2> QED BY <2>1, FourCallouts DEF IInv, CalloutPart
<1> QED BY <1>1, InvariantHolds, PTL

\* No callout of this load is registered over tables that are not there.
THEOREM TablesOutliveCalloutsHolds == Spec => []TablesOutliveCallouts
<1>1. IInv => TablesOutliveCallouts
  BY DEF IInv, CalloutPart, TablesOutliveCallouts, Ending
<1> QED BY <1>1, InvariantHolds, PTL

\* Only a start that failed half-way through its registrations leaves callouts
\* behind.
THEOREM LeftBehindOnlyByPartStartHolds == Spec => []LeftBehindOnlyByPartStart
<1>1. IInv => LeftBehindOnlyByPartStart
  BY DEF IInv, CalloutPart, LeftBehindOnlyByPartStart
<1> QED BY <1>1, InvariantHolds, PTL

\* The generation reported and the one exported agree between imports, unless
\* the last one overlapped another or DriverEntry.
THEOREM GenerationsAgreeHolds == Spec => []GenerationsAgree
<1>1. IInv => GenerationsAgree
  BY DEF IInv, GenerationPart, GenerationsAgree, Exported, Idle
<1> QED BY <1>1, InvariantHolds, PTL

\* A caller that sees a settled state and copies once more has a right copy.
THEOREM SecondCopyIsCompleteHolds == Spec => []SecondCopyIsComplete
<1>1. IInv => SecondCopyIsComplete
  <2> SUFFICES ASSUME IInv, IsCopied
               PROVE  /\ seen \in {"recovering", "running"} =>
                           copy.callouts = Len(CalloutOrder)
                      /\ seen = "failed" => copy.lastError
                      /\ seen \in {"running", "failed"} => copy.lifecycle = seen
    BY DEF SecondCopyIsComplete
  <2>1. copy.lifecycle # None /\ copy.callouts # None /\ copy.lastError # None
    BY DEF IsCopied, Copied
  <2> QED BY <2>1 DEF IInv, CopyPart
<1> QED BY <1>1, InvariantHolds, PTL
=============================================================================
