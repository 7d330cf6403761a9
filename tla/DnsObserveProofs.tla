-------------------------- MODULE DnsObserveProofs --------------------------
(* Proofs about the DNS layer and the telemetry inside it, for any number of *)
(* threads, any latencies, any configurations and any mask above the number  *)
(* of classifying threads.                                                   *)
EXTENDS DnsObserve, FiniteSetTheorems, TLAPS

\* What the DNS layer and the telemetry do to the counters, without the bound
TelemetryStep ==
  \/ \E c \in Classifiers :
       ClassifierBegins(c) \/ RecordDnsObserve(c) \/ ClassifierStep(c)
  \/ \E h \in Handlers : HandlerBegins(h) \/ HandlerStep(h)

-----------------------------------------------------------------------------
(* Type correctness *)

\* The four statements of RecordLatency keep the types of the totals
LEMMA LatencyTypes ==
  ASSUME TypeOK, NEW t \in Threads, RecordLatency(t)
  PROVE  TypeOK'
<1>1. KindOf(t) \in Kinds
  BY DEF KindOf, Kinds
<1>2. CASE AddLatency(t)
  <2>1. lat' \in [Kinds -> Totals]
    BY <1>1, <1>2 DEF AddLatency, TypeOK, Totals
  <2>2. \A k \in Kinds : lat'[k].samples = lat[k].samples
    BY <1>1, <1>2 DEF AddLatency, TypeOK, Totals
  <2> QED
    BY <1>2, <2>1, <2>2
    DEF AddLatency, Goto, TypeOK, Totals, ClassifyLabels, IpcLabels
<1>3. CASE CountSample(t)
  <2>1. lat' \in [Kinds -> Totals]
    BY <1>1, <1>3 DEF CountSample, TypeOK, Totals
  <2>2. \A k \in Kinds : lat'[k].samples >= lat[k].samples
    BY <1>1, <1>3 DEF CountSample, TypeOK, Totals
  <2> QED
    BY <1>3, <2>1, <2>2
    DEF CountSample, Goto, TypeOK, Totals, ClassifyLabels, IpcLabels
<1>4. CASE CompareMax(t)
  <2>1. maxRace' \subseteq Kinds
    BY <1>1, <1>4 DEF CompareMax, TypeOK
  <2>2. \/ Goto(t, "store_max") /\ UNCHANGED <<arg, latency>>
        \/ Return(t)
    BY <1>4 DEF CompareMax
  <2>3. pc[t] = "compare_max" /\ UNCHANGED <<counts, lat, due, taken>>
    BY <1>4 DEF CompareMax
  <2>4. CASE Goto(t, "store_max") /\ UNCHANGED <<arg, latency>>
    BY <2>1, <2>3, <2>4 DEF Goto, TypeOK, ClassifyLabels, IpcLabels
  <2>5. CASE Return(t)
    BY <2>1, <2>3, <2>5
    DEF Goto, Return, With, TypeOK, Actions, ClassifyLabels, IpcLabels
  <2> QED BY <2>2, <2>4, <2>5
<1>5. CASE StoreMax(t)
  <2>1. lat' \in [Kinds -> Totals]
    BY <1>1, <1>5 DEF StoreMax, TypeOK, Totals
  <2>2. \A k \in Kinds : lat'[k].samples = lat[k].samples
    BY <1>1, <1>5 DEF StoreMax, TypeOK, Totals
  <2> QED
    BY <1>5, <2>1, <2>2
    DEF StoreMax, Goto, Return, With, TypeOK, Totals, Actions, ClassifyLabels,
        IpcLabels
<1> QED BY <1>2, <1>3, <1>4, <1>5 DEF RecordLatency

\* So does taking a latency, in the history the properties compare with
LEMMA TakeTypes ==
  ASSUME TypeOK, NEW k \in Kinds, NEW l \in Nat, Take(k, l)
  PROVE  taken' \in [Kinds -> Totals]
BY DEF Take, TypeOK, Totals

\* What a call is to count is a number
LEMMA CallTypes ==
  ASSUME TypeOK, NEW t \in Threads, NEW S, Call(t, S)
  PROVE  due' \in [Counters -> Nat]
BY DEF Call, TypeOK

\* An increment keeps the types of the counters
LEMMA CountTypes ==
  ASSUME TypeOK, NEW k \in Counters, Count(k)
  PROVE  counts' \in [Counters -> Nat]
BY DEF Count, TypeOK

\* Every step on the counters keeps the types, of the divisor included
LEMMA TypeStep ==
  ASSUME TypeOK, [TelemetryStep]_telemetry
  PROVE  TypeOK'
<1>0. Latencies \subseteq Nat /\ Classifiers \cap Handlers = {}
  BY TelemetryAssumption
<1>1. ASSUME NEW c \in Classifiers, ClassifierBegins(c) \/ RecordDnsObserve(c)
      PROVE  TypeOK'
  <2>1. ASSUME NEW a \in Actions, NEW l \in Latencies, RecordClassify(c, a, l)
        PROVE  TypeOK'
    <3>1. counts' \in [Counters -> Nat] /\ due' \in [Counters -> Nat]
      BY <2>1, CountTypes, CallTypes DEF RecordClassify, Counters, Threads
    <3> QED
      BY <1>0, <2>1, <3>1
      DEF RecordClassify, Goto, With, Call, TypeOK, Threads, ClassifyLabels
  <2>2. CASE RecordError(c)
    <3>1. counts' \in [Counters -> Nat] /\ due' \in [Counters -> Nat]
      BY <2>2, CountTypes, CallTypes DEF RecordError, Counters, Threads
    <3> QED BY <2>2, <3>1 DEF RecordError, TypeOK
  <2>3. CASE RecordDnsObserve(c)
    <3>1. counts' \in [Counters -> Nat] /\ due' \in [Counters -> Nat]
      BY <2>3, CountTypes, CallTypes DEF RecordDnsObserve, Counters, Threads
    <3> QED BY <2>3, <3>1 DEF RecordDnsObserve, TypeOK
  <2> QED BY <1>1, <2>1, <2>2, <2>3 DEF ClassifierBegins
<1>2. ASSUME NEW c \in Classifiers, ClassifierStep(c)
      PROVE  TypeOK'
  <2>1. CASE CountAction(c)
    <3>1. counts' \in [Counters -> Nat]
      BY <2>1, CountTypes DEF CountAction, Category, Counters, Actions
    <3> QED
      BY <1>0, <2>1, <3>1 DEF CountAction, Goto, TypeOK, Threads, ClassifyLabels
  <2>2. CASE TestSample(c)
    <3>1. CASE Sampled
      <4>1. taken' \in [Kinds -> Totals]
        BY <2>2, <3>1, TakeTypes DEF TestSample, TypeOK, Threads, Kinds
      <4> QED
        BY <1>0, <2>2, <3>1, <4>1
        DEF TestSample, Goto, TypeOK, Threads, ClassifyLabels
    <3>2. CASE ~Sampled
      BY <1>0, <2>2, <3>2
      DEF TestSample, Goto, Return, With, TypeOK, Threads, ClassifyLabels, Actions
    <3> QED BY <3>1, <3>2
  <2>3. CASE RecordLatency(c)
    BY <2>3, LatencyTypes DEF Threads
  <2> QED BY <1>2, <2>1, <2>2, <2>3 DEF ClassifierStep
<1>3. ASSUME NEW h \in Handlers, HandlerBegins(h)
      PROVE  TypeOK'
  <2>1. PICK o \in Outcomes, l \in Latencies : RecordIpc(h, o, l)
    BY <1>3 DEF HandlerBegins
  <2>2. counts' \in [Counters -> Nat] /\ due' \in [Counters -> Nat]
    BY <2>1, CountTypes, CallTypes DEF RecordIpc, Counters, Threads
  <2>3. taken' \in [Kinds -> Totals]
    BY <1>0, <2>1, TakeTypes DEF RecordIpc, Kinds
  <2>4. pc' \in [Threads -> ClassifyLabels \cup IpcLabels]
        /\ pc'[h] \in {"count_reject", "add_latency"}
        /\ \A t \in Threads \ {h} : pc'[t] = pc[t]
    BY <2>1 DEF RecordIpc, Goto, TypeOK, Threads, IpcLabels
  <2>5. /\ arg' \in [Threads -> Actions \cup Outcomes \cup Kinds]
        /\ \A t \in Threads \ {h} : arg'[t] = arg[t]
        /\ latency' \in [Threads -> Nat]
    BY <1>0, <2>1 DEF RecordIpc, With, TypeOK, Threads
  <2> QED
    BY <1>0, <2>1, <2>2, <2>3, <2>4, <2>5 DEF RecordIpc, TypeOK, Threads, IpcLabels
<1>4. ASSUME NEW h \in Handlers, HandlerStep(h)
      PROVE  TypeOK'
  <2>1. CASE CountReject(h)
    <3>1. counts' \in [Counters -> Nat]
      BY <2>1, CountTypes DEF CountReject, Counters
    <3> QED
      BY <1>0, <2>1, <3>1 DEF CountReject, Goto, TypeOK, Threads, IpcLabels
  <2>2. CASE RecordLatency(h)
    BY <2>2, LatencyTypes DEF Threads
  <2>3. ASSUME NEW k \in Kinds, ReadSamples(h, k)
        PROVE  TypeOK'
    BY <1>0, <2>3 DEF ReadSamples, Goto, With, TypeOK, Threads, IpcLabels
  <2>4. CASE Divide(h)
    BY <1>0, <2>4 DEF Divide, Goto, Return, With, TypeOK, Threads, IpcLabels, Actions
  <2> QED BY <1>4, <2>1, <2>2, <2>3, <2>4 DEF HandlerStep
<1>5. CASE UNCHANGED telemetry
  BY <1>5 DEF telemetry, TypeOK
<1> QED BY <1>1, <1>2, <1>3, <1>4, <1>5 DEF TelemetryStep

-----------------------------------------------------------------------------
(* SamplingStops *)

\* The classifying threads that have found the mask clear and are to count
\* their sample
Pending == {c \in Classifiers : pc[c] \in {"add_latency", "count_sample"}}

\* The samples taken and those on their way are at most one per thread: the
\* mask is clear only while there is no sample, and then the pending ones are
\* all there are.
SamplesPart ==
  lat["connection"].samples + Cardinality(Pending) <= Cardinality(Classifiers)

SInv == TypeOK /\ SamplesPart

\* A set of classifying threads has at most as many members as there are
LEMMA PendingFinite ==
  ASSUME NEW S \in SUBSET Classifiers
  PROVE  /\ IsFiniteSet(S)
         /\ Cardinality(S) \in Nat
         /\ Cardinality(S) <= Cardinality(Classifiers)
BY MaskAssumption, FS_Subset, FS_CardinalityType

\* A remainder that is zero, of a number that does not exceed the mask
LEMMA MaskClear ==
  ASSUME NEW n \in Nat, n <= SampleMask, n % (SampleMask + 1) = 0
  PROVE  n = 0
BY MaskAssumption

\* A step that adds neither a sample nor a thread on its way to one
LEMMA SamplesKept ==
  ASSUME Pending' \subseteq Pending, SInv,
         lat'["connection"].samples = lat["connection"].samples
  PROVE  SamplesPart'
<1>1. IsFiniteSet(Pending)
  BY PendingFinite DEF Pending
<1>2. /\ Cardinality(Pending') <= Cardinality(Pending)
      /\ Cardinality(Pending') \in Nat
      /\ Cardinality(Pending) \in Nat
  BY <1>1, FS_Subset, FS_CardinalityType
<1>3. lat["connection"].samples \in Nat /\ Cardinality(Classifiers) \in Nat
  BY MaskAssumption, FS_CardinalityType DEF SInv, TypeOK, Kinds, Totals
<1> QED BY <1>2, <1>3 DEF SInv, SamplesPart

\* Every step on the counters keeps the bound on the samples: one case per
\* statement of GuardianTelemetryRecordClassify, the interesting ones being
\* <2>3, where the mask is clear, and <2>5, where a pending sample is counted
LEMMA SamplingStep ==
  ASSUME SInv, [TelemetryStep]_telemetry
  PROVE  SInv'
<1>1. TypeOK'
  BY TypeStep DEF SInv
<1>2. Classifiers \cap Handlers = {} /\ "connection" \in Kinds
  BY TelemetryAssumption DEF Kinds
<1>3. /\ lat["connection"].samples \in Nat
      /\ Cardinality(Classifiers) \in Nat
      /\ IsFiniteSet(Pending)
      /\ Cardinality(Pending) \in Nat
  BY PendingFinite, MaskAssumption, FS_CardinalityType
  DEF SInv, TypeOK, Kinds, Totals, Pending
<1>4. ASSUME NEW c \in Classifiers, ClassifierBegins(c) \/ RecordDnsObserve(c)
      PROVE  SamplesPart'
  <2>1. lat' = lat
    BY <1>4 DEF ClassifierBegins, RecordClassify, RecordError, RecordDnsObserve
  <2>2. pc' = pc \/ pc' = [pc EXCEPT ![c] = "count_action"]
    BY <1>4 DEF ClassifierBegins, RecordClassify, RecordError, RecordDnsObserve, Goto
  <2>3. Pending' \subseteq Pending
    BY <2>2 DEF Pending, SInv, TypeOK, Threads
  <2> QED BY <2>1, <2>3, SamplesKept
<1>5. ASSUME NEW c \in Classifiers, ClassifierStep(c)
      PROVE  SamplesPart'
  <2>1. CASE CountAction(c)
    <3>1. Pending' \subseteq Pending /\ lat' = lat
      BY <2>1 DEF CountAction, Goto, Pending, SInv, TypeOK, Threads
    <3> QED BY <3>1, SamplesKept
  <2>2. CASE TestSample(c) /\ ~Sampled
    <3>1. Pending' \subseteq Pending /\ lat' = lat
      BY <2>2 DEF TestSample, Return, Goto, Pending, SInv, TypeOK, Threads
    <3> QED BY <3>1, SamplesKept
  <2>3. CASE TestSample(c) /\ Sampled
    <3>1. lat' = lat
      BY <2>3 DEF TestSample
    <3>2. lat["connection"].samples <= SampleMask
      BY <1>3, MaskAssumption DEF SInv, SamplesPart
    <3>3. lat["connection"].samples = 0
      BY <1>3, <2>3, <3>2, MaskClear DEF Sampled
    <3>4. Cardinality(Pending') <= Cardinality(Classifiers)
          /\ Cardinality(Pending') \in Nat
      BY PendingFinite DEF Pending
    <3> QED BY <1>3, <3>1, <3>3, <3>4 DEF SamplesPart
  <2>4. CASE AddLatency(c)
    <3>1. Pending' \subseteq Pending
      BY <2>4 DEF AddLatency, Goto, Pending, SInv, TypeOK, Threads
    <3>2. lat'["connection"].samples = lat["connection"].samples
      BY <1>2, <2>4 DEF AddLatency, KindOf, SInv, TypeOK, Totals
    <3> QED BY <3>1, <3>2, SamplesKept
  <2>5. CASE CountSample(c)
    <3>1. Pending' = Pending \ {c} /\ c \in Pending
      BY <2>5 DEF CountSample, Goto, Pending, SInv, TypeOK, Threads
    <3>2. lat'["connection"].samples = lat["connection"].samples + 1
      BY <1>2, <2>5 DEF CountSample, KindOf, SInv, TypeOK, Totals
    <3>3. Cardinality(Pending') = Cardinality(Pending) - 1
      BY <1>3, <3>1, FS_RemoveElement
    <3> QED BY <1>3, <3>2, <3>3 DEF SInv, SamplesPart
  <2>6. CASE CompareMax(c)
    <3>1. Pending' \subseteq Pending /\ lat' = lat
      BY <2>6 DEF CompareMax, Return, Goto, Pending, SInv, TypeOK, Threads
    <3> QED BY <3>1, SamplesKept
  <2>7. CASE StoreMax(c)
    <3>1. Pending' \subseteq Pending
      BY <2>7 DEF StoreMax, Return, Goto, Pending, SInv, TypeOK, Threads
    <3>2. lat'["connection"].samples = lat["connection"].samples
      BY <1>2, <2>7 DEF StoreMax, KindOf, SInv, TypeOK, Totals
    <3> QED BY <3>1, <3>2, SamplesKept
  <2> QED BY <1>5, <2>1, <2>2, <2>3, <2>4, <2>5, <2>6, <2>7
          DEF ClassifierStep, RecordLatency
<1>6. ASSUME NEW h \in Handlers, HandlerBegins(h) \/ HandlerStep(h)
      PROVE  SamplesPart'
  <2>1. \E l : pc' = [pc EXCEPT ![h] = l]
    BY <1>6 DEF HandlerBegins, HandlerStep, RecordIpc, CountReject, RecordLatency,
                AddLatency, CountSample, CompareMax, StoreMax, ReadSamples, Divide,
                Return, Goto
  <2>2. Pending' \subseteq Pending
    BY <1>2, <2>1 DEF Pending, SInv, TypeOK, Threads
  <2>3. KindOf(h) = "request"
    BY <1>2 DEF KindOf
  <2>4. lat'["connection"] = lat["connection"]
    <3>1. lat' = lat \/ AddLatency(h) \/ CountSample(h) \/ StoreMax(h)
      BY <1>6 DEF HandlerBegins, HandlerStep, RecordIpc, CountReject, RecordLatency,
                  CompareMax, ReadSamples, Divide
    <3> QED
      BY <1>2, <2>3, <3>1 DEF AddLatency, CountSample, StoreMax, SInv, TypeOK
  <2> QED BY <2>2, <2>4, SamplesKept
<1>7. ASSUME UNCHANGED telemetry
      PROVE  SamplesPart'
  <2>1. Pending' \subseteq Pending /\ lat' = lat
    BY <1>7 DEF telemetry, Pending
  <2> QED BY <2>1, SamplesKept
<1> QED BY <1>1, <1>4, <1>5, <1>6, <1>7 DEF SInv, TelemetryStep

-----------------------------------------------------------------------------
(* The specification *)

\* GuardianTelemetryInitialize zeroes every counter
LEMMA Initially == Init => SInv
<1> SUFFICES ASSUME Init PROVE SInv
  OBVIOUS
<1>1. TypeOK
  BY TelemetryAssumption
  DEF Init, TypeOK, Totals, Threads, Actions, ClassifyLabels, IpcLabels, Kinds
<1>2. Pending = {}
  BY DEF Init, Pending, Threads
<1>3. lat["connection"].samples = 0
  BY DEF Init, Kinds
<1>4. Cardinality(Classifiers) \in Nat /\ Cardinality(Pending) = 0
  BY <1>2, MaskAssumption, FS_CardinalityType, FS_EmptySet
<1> QED BY <1>1, <1>3, <1>4 DEF SInv, SamplesPart

\* Whatever the DNS layer does, it leaves the telemetry alone or records
LEMMA DnsStepRecords ==
  ASSUME [DnsNext]_dnsVars
  PROVE  [TelemetryStep]_telemetry
<1>1. CASE Initialize
  BY <1>1 DEF Initialize, InitializeLock, ZeroConfig, SetDefaults
<1>2. ASSUME NEW h \in Handlers, ConfigureStep(h)
      PROVE  UNCHANGED telemetry
  BY <1>2 DEF ConfigureStep, BeginSetConfig, CopyFlags, CopyExcluded, EndSetConfig,
              BeginGetStats, EndGetStats
<1>3. ASSUME NEW c \in Classifiers, ObserveStep(c)
      PROVE  UNCHANGED telemetry \/ RecordDnsObserve(c)
  BY <1>3 DEF ObserveStep, BeginObserve, TestEnabled, TestExcluded, ReadCount,
              WriteCount, RecordObserved
<1>4. CASE UNCHANGED dnsVars
  BY <1>4 DEF dnsVars
<1> QED BY <1>1, <1>2, <1>3, <1>4 DEF DnsNext, TelemetryStep

\* The telemetry keeps its types beside any DNS activity; in particular the
\* averages of GET_TELEMETRY and GET_PERF_STATS never divide by zero.
THEOREM TelemetryTypeCorrect == DnsSpec => []TypeOK
<1>1. DnsInit => SInv
  BY Initially DEF DnsInit
<1>2. SInv /\ [DnsNext]_dnsVars => SInv'
  BY SamplingStep, DnsStepRecords
<1>3. SInv => TypeOK
  BY DEF SInv
<1> QED BY <1>1, <1>2, <1>3, PTL DEF DnsSpec

\* GuardianTelemetryRecordClassify samples the latency of at most as many
\* connections as there are classifying threads, ever.
THEOREM SamplingStopsHolds == DnsSpec => []SamplingStops
<1>1. DnsInit => SInv
  BY Initially DEF DnsInit
<1>2. SInv /\ [DnsNext]_dnsVars => SInv'
  BY SamplingStep, DnsStepRecords
<1>3. SInv => SamplingStops
  <2> SUFFICES ASSUME SInv PROVE SamplingStops
    OBVIOUS
  <2>1. Cardinality(Pending) \in Nat /\ Cardinality(Classifiers) \in Nat
    BY PendingFinite, MaskAssumption, FS_CardinalityType DEF Pending
  <2>2. lat["connection"].samples \in Nat
    BY DEF SInv, TypeOK, Kinds, Totals
  <2> QED BY <2>1, <2>2 DEF SInv, SamplesPart, SamplingStops
<1> QED BY <1>1, <1>2, <1>3, PTL DEF DnsSpec

-----------------------------------------------------------------------------
(* The DNS layer: types *)

\* Everything DnsTypeOK says beyond TypeOK, one conjunct per variable
DnsPart ==
  /\ setup \in Setups
  /\ dnsLock \in Threads \cup {Nobody}
  /\ config \in Configs /\ accepted \in Configs
  /\ stats \in [Decisions -> Nat] /\ decided \in [Decisions -> Nat]
  /\ dnsPc \in [Threads -> DnsLabels]
  /\ request \in [Handlers -> Configs]
  /\ query \in [Classifiers -> [app : Apps \cup {Nobody}, decision : Decisions,
                                count : Nat]]
  /\ sets \in Nat
  /\ unsettled \in BOOLEAN /\ brokenIn \in BOOLEAN

\* The handlers are where a handler can be, the classifiers likewise
RolePart ==
  /\ \A h \in Handlers : dnsPc[h] \in {"idle", "copy_stats"} \cup SetLabels
  /\ \A c \in Classifiers :
       dnsPc[c] \in {"idle", "enabled", "excluded", "read", "write", "record"}

\* The steps of the initialization and of the handlers keep the types.
LEMMA ConfigureTypes ==
  ASSUME DnsPart, RolePart,
         Initialize \/ \E h \in Handlers : ConfigureStep(h)
  PROVE  DnsPart' /\ RolePart'
<1> USE DEF dnsHistory, shared, locals, DnsGoto, Acquire, Release
<1>a. Zeroed \in Configs /\ NoStats \in [Decisions -> Nat]
  BY DEF Zeroed, Configs, NoStats
<1>b. Classifiers \cap Handlers = {}
  BY TelemetryAssumption
<1>1. CASE InitializeLock
  <2>1. brokenIn' \in BOOLEAN
    BY <1>1 DEF InitializeLock
  <2> QED BY <1>1, <2>1 DEF InitializeLock, DnsPart, RolePart, Setups
<1>2. CASE ZeroConfig
  BY <1>2, <1>a DEF ZeroConfig, DnsPart, RolePart, Setups
<1>3. CASE SetDefaults
  BY <1>3 DEF SetDefaults, DnsPart, RolePart, Setups, Configs
<1>4. ASSUME NEW h \in Handlers, NEW r \in Settings, BeginSetConfig(h, r)
      PROVE  DnsPart' /\ RolePart'
  <2>1. r \in Configs
    BY DnsAssumption
  <2>2. unsettled' \in BOOLEAN
    BY <1>4 DEF BeginSetConfig
  <2>3. DnsPart'
    BY <1>4, <2>1, <2>2 DEF BeginSetConfig, DnsPart, Threads, DnsLabels, SetLabels
  <2>4. RolePart'
    BY <1>4, <1>b DEF BeginSetConfig, DnsPart, RolePart, Threads, SetLabels
  <2> QED BY <2>3, <2>4
<1>5. ASSUME NEW h \in Handlers, CopyFlags(h) \/ CopyExcluded(h)
      PROVE  DnsPart' /\ RolePart'
  <2>1. config' \in Configs
    BY <1>5 DEF CopyFlags, CopyExcluded, DnsPart, Configs
  <2>2. DnsPart'
    BY <1>5, <2>1 DEF CopyFlags, CopyExcluded, DnsPart, Threads, DnsLabels, SetLabels
  <2>3. RolePart'
    BY <1>5, <1>b DEF CopyFlags, CopyExcluded, DnsPart, RolePart, Threads, SetLabels
  <2> QED BY <2>2, <2>3
<1>6. ASSUME NEW h \in Handlers, EndSetConfig(h)
      PROVE  DnsPart' /\ RolePart'
  <2>1. config' \in Configs /\ accepted' \in Configs
    BY <1>6 DEF EndSetConfig, DnsPart, Configs
  <2>2. DnsPart'
    BY <1>6, <1>a, <2>1 DEF EndSetConfig, DnsPart, Threads, DnsLabels
  <2>3. RolePart'
    BY <1>6, <1>b DEF EndSetConfig, DnsPart, RolePart, Threads
  <2> QED BY <2>2, <2>3
<1>7. ASSUME NEW h \in Handlers, BeginGetStats(h) \/ EndGetStats(h)
      PROVE  DnsPart' /\ RolePart'
  <2>1. DnsPart'
    BY <1>7 DEF BeginGetStats, EndGetStats, DnsPart, Threads, DnsLabels
  <2>2. RolePart'
    BY <1>7, <1>b DEF BeginGetStats, EndGetStats, DnsPart, RolePart, Threads
  <2> QED BY <2>1, <2>2
<1> QED BY <1>1, <1>2, <1>3, <1>4, <1>5, <1>6, <1>7 DEF Initialize, ConfigureStep

\* So do the steps of the classifying threads.
LEMMA ObserveTypes ==
  ASSUME DnsPart, RolePart, NEW c \in Classifiers, ObserveStep(c)
  PROVE  DnsPart' /\ RolePart'
<1> USE DEF dnsHistory, shared, locals, DnsGoto, Acquire, Release, Threads
<1>b. Classifiers \cap Handlers = {}
  BY TelemetryAssumption
<1>1. ASSUME NEW a \in Apps, BeginObserve(c, a)
      PROVE  DnsPart' /\ RolePart'
  <2>1. DnsPart'
    BY <1>1 DEF BeginObserve, DnsPart, DnsLabels
  <2>2. RolePart'
    BY <1>1, <1>b DEF BeginObserve, DnsPart, RolePart
  <2> QED BY <2>1, <2>2
<1>2. ASSUME NEW d \in Decisions, Decide(c, d),
             UNCHANGED <<setup, shared, request, accepted, unsettled, sets, brokenIn>>
      PROVE  DnsPart' /\ RolePart'
  <2>1. DnsPart'
    BY <1>2 DEF Decide, DnsPart, DnsLabels
  <2>2. RolePart'
    BY <1>2, <1>b DEF Decide, DnsPart, RolePart
  <2> QED BY <2>1, <2>2
<1>3. CASE TestEnabled(c)
  <2>1. CASE config.enabled
    <3>1. DnsPart'
      BY <1>3, <2>1 DEF TestEnabled, DnsPart, DnsLabels
    <3>2. RolePart'
      BY <1>3, <2>1, <1>b DEF TestEnabled, DnsPart, RolePart
    <3> QED BY <3>1, <3>2
  <2>2. CASE ~config.enabled
    BY <1>2, <1>3, <2>2 DEF TestEnabled, Decisions
  <2> QED BY <2>1, <2>2
<1>4. CASE TestExcluded(c)
  BY <1>2, <1>4 DEF TestExcluded, Decisions
<1>5. CASE ReadCount(c)
  <2>1. DnsPart'
    BY <1>5 DEF ReadCount, DnsPart, DnsLabels
  <2>2. RolePart'
    BY <1>5, <1>b DEF ReadCount, DnsPart, RolePart
  <2> QED BY <2>1, <2>2
<1>6. CASE WriteCount(c)
  <2>1. NoQuery \in [app : Apps \cup {Nobody}, decision : Decisions, count : Nat]
    BY DEF NoQuery, Decisions
  <2>2. stats' \in [Decisions -> Nat]
    BY <1>6 DEF WriteCount, DnsPart
  <2>3. DnsPart'
    BY <1>6, <2>1, <2>2 DEF WriteCount, DnsPart, DnsLabels
  <2>4. RolePart'
    BY <1>6, <1>b DEF WriteCount, DnsPart, RolePart
  <2> QED BY <2>3, <2>4
<1>7. CASE RecordObserved(c)
  <2>1. DnsPart'
    BY <1>7 DEF RecordObserved, DnsPart, DnsLabels
  <2>2. RolePart'
    BY <1>7, <1>b DEF RecordObserved, DnsPart, RolePart
  <2> QED BY <2>1, <2>2
<1> QED BY <1>1, <1>3, <1>4, <1>5, <1>6, <1>7 DEF ObserveStep

-----------------------------------------------------------------------------
(* The DNS layer: the configuration *)

\* Observing only is lost at most while a set is between its copy and its end;
\* a set that overlaps nothing is the only one, and finds what it has copied.
\* As long as nothing was set, the defaults are what is there.
ConfigPart ==
  /\ setup = "done" /\ ~config.observeOnly =>
       \E h \in Handlers : dnsPc[h] \in {"copy_excluded", "observe_only"}
  /\ ~unsettled /\ setup # "done" =>
       /\ Setting = {} /\ accepted = [Zeroed EXCEPT !.observeOnly = TRUE]
       /\ setup = "defaults" => config = Zeroed
  /\ ~unsettled /\ setup = "done" =>
       /\ Setting = {} => config = accepted
       /\ \A g, h \in Setting : g = h
       /\ \A h \in Setting :
            /\ dnsPc[h] \in {"copy_excluded", "observe_only"} =>
                 config.enabled = request[h].enabled
            /\ dnsPc[h] = "observe_only" =>
                 config.excluded = request[h].excluded

\* A configuration is its three fields.
LEMMA ConfigEqual ==
  ASSUME NEW x \in Configs, NEW y \in Configs, x.enabled = y.enabled,
         x.excluded = y.excluded, x.observeOnly = y.observeOnly
  PROVE  x = y
  BY DEF Configs

\* Every step keeps it.
LEMMA ConfigStep ==
  ASSUME DnsPart, RolePart, ConfigPart, [DnsNext]_dnsVars
  PROVE  ConfigPart'
<1> USE DEF dnsHistory, shared, locals, DnsGoto, Acquire, Release
<1>b. Classifiers \cap Handlers = {}
  BY TelemetryAssumption
<1>1. CASE InitializeLock
  BY <1>1 DEF InitializeLock, ConfigPart, Setting
<1>2. CASE ZeroConfig
  BY <1>2 DEF ZeroConfig, ConfigPart, Setting
<1>3. CASE SetDefaults
  <2>1. config'.observeOnly /\ dnsPc' = dnsPc /\ unsettled' = unsettled
    BY <1>3 DEF SetDefaults, DnsPart, Configs
  <2>2. ~unsettled => config' = accepted /\ Setting = {}
    BY <1>3 DEF SetDefaults, ConfigPart
  <2> QED BY <1>3, <2>1, <2>2 DEF SetDefaults, ConfigPart, Setting
<1>4. ASSUME NEW h \in Handlers, NEW r \in Settings, BeginSetConfig(h, r)
      PROVE  ConfigPart'
  <2>1. /\ dnsPc[h] = "idle" /\ dnsPc' = [dnsPc EXCEPT ![h] = "copy_flags"]
        /\ setup' = setup /\ config' = config /\ accepted' = accepted
        /\ unsettled' = (setup # "done" \/ Setting # {})
    BY <1>4 DEF BeginSetConfig
  <2>2. Setting' = Setting \cup {h}
    BY <2>1 DEF Setting, SetLabels, DnsPart, Threads
  <2>3. setup = "done" /\ ~config.observeOnly =>
          \E g \in Handlers : dnsPc'[g] \in {"copy_excluded", "observe_only"}
    BY <2>1 DEF ConfigPart, DnsPart, Threads
  <2>4. ~unsettled' => Setting' = {h} /\ dnsPc'[h] = "copy_flags" /\ setup = "done"
    BY <2>1, <2>2 DEF DnsPart, Threads
  <2> QED BY <2>1, <2>2, <2>3, <2>4 DEF ConfigPart
<1>5. ASSUME NEW h \in Handlers, CopyFlags(h)
      PROVE  ConfigPart'
  <2>1. /\ dnsPc[h] = "copy_flags" /\ dnsPc' = [dnsPc EXCEPT ![h] = "copy_excluded"]
        /\ setup' = setup /\ accepted' = accepted /\ unsettled' = unsettled
        /\ request' = request
        /\ config'.enabled = request[h].enabled
    BY <1>5 DEF CopyFlags, DnsPart, Configs
  <2>2. Setting' = Setting /\ h \in Setting /\ dnsPc'[h] = "copy_excluded"
    BY <2>1 DEF Setting, SetLabels, DnsPart, Threads
  <2> QED BY <2>1, <2>2 DEF ConfigPart, DnsPart, Threads
<1>6. ASSUME NEW h \in Handlers, CopyExcluded(h)
      PROVE  ConfigPart'
  <2>1. /\ dnsPc[h] = "copy_excluded" /\ dnsPc' = [dnsPc EXCEPT ![h] = "observe_only"]
        /\ setup' = setup /\ accepted' = accepted /\ unsettled' = unsettled
        /\ request' = request
        /\ config'.enabled = config.enabled
        /\ config'.excluded = request[h].excluded
    BY <1>6 DEF CopyExcluded, DnsPart, Configs
  <2>2. Setting' = Setting /\ h \in Setting /\ dnsPc'[h] = "observe_only"
    BY <2>1 DEF Setting, SetLabels, DnsPart, Threads
  <2> QED BY <2>1, <2>2 DEF ConfigPart, DnsPart, Threads
<1>7. ASSUME NEW h \in Handlers, EndSetConfig(h)
      PROVE  ConfigPart'
  <2>1. /\ dnsPc[h] = "observe_only" /\ dnsPc' = [dnsPc EXCEPT ![h] = "idle"]
        /\ setup' = setup /\ unsettled' = unsettled
        /\ config'.observeOnly
    BY <1>7 DEF EndSetConfig, DnsPart, Configs
  <2>2. Setting' = Setting \ {h} /\ h \in Setting
    BY <2>1 DEF Setting, SetLabels, DnsPart, Threads
  <2>3. ~unsettled => setup = "done" /\ Setting' = {} /\ config' = accepted'
    <3> SUFFICES ASSUME ~unsettled
                 PROVE  setup = "done" /\ Setting' = {} /\ config' = accepted'
      OBVIOUS
    <3>1. /\ setup = "done" /\ \A g \in Setting : g = h
          /\ config.enabled = request[h].enabled
          /\ config.excluded = request[h].excluded
      BY <2>1, <2>2 DEF ConfigPart
    <3>2. /\ config' = [config EXCEPT !.observeOnly = TRUE]
          /\ accepted' = [request[h] EXCEPT !.observeOnly = TRUE]
          /\ config \in Configs /\ request[h] \in Configs
      BY <1>7 DEF EndSetConfig, DnsPart
    <3>3. config' \in Configs /\ accepted' \in Configs
      BY <3>2 DEF Configs
    <3>4. /\ config'.enabled = accepted'.enabled
          /\ config'.excluded = accepted'.excluded
          /\ config'.observeOnly = accepted'.observeOnly
      BY <3>1, <3>2 DEF Configs
    <3>5. config' = accepted'
      BY <3>3, <3>4, ConfigEqual
    <3> QED BY <2>2, <3>1, <3>5
  <2> QED BY <2>1, <2>3 DEF ConfigPart
<1>8. ASSUME NEW h \in Handlers, BeginGetStats(h) \/ EndGetStats(h)
      PROVE  ConfigPart'
  <2>1. /\ dnsPc[h] \in {"idle", "copy_stats"}
        /\ \E l \in {"idle", "copy_stats"} : dnsPc' = [dnsPc EXCEPT ![h] = l]
        /\ UNCHANGED <<setup, config, request, accepted, unsettled>>
    BY <1>8 DEF BeginGetStats, EndGetStats
  <2>2. /\ Setting' = Setting
        /\ \A g \in Handlers : dnsPc[g] \in SetLabels => dnsPc'[g] = dnsPc[g]
    BY <2>1 DEF Setting, SetLabels, DnsPart, Threads
  <2> QED BY <2>1, <2>2 DEF ConfigPart, Setting, SetLabels
<1>9. ASSUME NEW c \in Classifiers, ObserveStep(c)
      PROVE  ConfigPart'
  <2>1. /\ UNCHANGED <<setup, config, request, accepted, unsettled>>
        /\ \E l : dnsPc' = [dnsPc EXCEPT ![c] = l]
    BY <1>9 DEF ObserveStep, BeginObserve, TestEnabled, TestExcluded, Decide,
                ReadCount, WriteCount, RecordObserved
  <2>2. \A h \in Handlers : dnsPc'[h] = dnsPc[h]
    BY <1>b, <2>1 DEF DnsPart, Threads
  <2> QED BY <2>1, <2>2 DEF ConfigPart, Setting
<1>10. CASE UNCHANGED dns
  BY <1>10 DEF dns, ConfigPart, Setting
<1> QED BY <1>1, <1>2, <1>3, <1>4, <1>5, <1>6, <1>7, <1>8, <1>9, <1>10
        DEF DnsNext, Initialize, ConfigureStep, dnsVars

-----------------------------------------------------------------------------
(* The DNS layer: its theorems *)

\* The inductive invariant of types, samples and configuration
DInv == SInv /\ DnsPart /\ RolePart /\ ConfigPart

\* Everything is zero before the initialization.
LEMMA DnsInitially == DnsInit => DInv
<1> SUFFICES ASSUME DnsInit PROVE DInv
  OBVIOUS
<1>1. SInv
  BY Initially DEF DnsInit
<1>2. Zeroed \in Configs /\ [Zeroed EXCEPT !.observeOnly = TRUE] \in Configs
  BY DEF Zeroed, Configs
<1>3. DnsPart
  BY <1>2 DEF DnsInit, DnsPart, Setups, NoStats, NoQuery, Decisions, DnsLabels
<1>4. RolePart
  BY DEF DnsInit, RolePart, Threads
<1>5. Setting = {}
  BY DEF DnsInit, Setting, SetLabels, Threads
<1>6. ConfigPart
  BY <1>5 DEF DnsInit, ConfigPart
<1> QED BY <1>1, <1>3, <1>4, <1>6 DEF DInv

\* Every step keeps it; those of the telemetry alone leave the DNS layer as it is.
LEMMA DnsStep == DInv /\ [DnsNext]_dnsVars => DInv'
<1> SUFFICES ASSUME DInv, [DnsNext]_dnsVars PROVE DInv'
  OBVIOUS
<1>1. SInv' /\ ConfigPart'
  BY SamplingStep, DnsStepRecords, ConfigStep DEF DInv
<1>2. CASE Initialize \/ \E h \in Handlers : ConfigureStep(h)
  BY <1>1, <1>2, ConfigureTypes DEF DInv
<1>3. CASE \E c \in Classifiers : ObserveStep(c)
  BY <1>1, <1>3, ObserveTypes DEF DInv
<1>4. CASE UNCHANGED dns
  <2>1. DnsPart'
    BY <1>4 DEF DInv, DnsPart, dns, shared, locals, dnsHistory
  <2>2. RolePart'
    BY <1>4 DEF DInv, RolePart, dns
  <2> QED BY <1>1, <2>1, <2>2 DEF DInv
<1> QED BY <1>2, <1>3, <1>4 DEF DnsNext, dnsVars

\* The DNS layer and the telemetry inside it keep their types.
THEOREM DnsTypeCorrect == DnsSpec => []DnsTypeOK
<1>1. DInv => DnsTypeOK
  BY DEF DInv, SInv, DnsPart, DnsTypeOK
<1> QED BY <1>1, DnsInitially, DnsStep, PTL DEF DnsSpec

\* Once GuardianDnsLayerInitialize is through and no GuardianDnsLayerSetConfig is
\* under way, the layer only observes, and it has the configuration set last
\* unless that set overlapped another or the initialization.
THEOREM ConfigSettlesHolds == DnsSpec => []ConfigSettles
<1>1. DInv => ConfigSettles
  BY DEF DInv, ConfigPart, ConfigSettles, Setting, SetLabels
<1> QED BY <1>1, DnsInitially, DnsStep, PTL DEF DnsSpec

-----------------------------------------------------------------------------
(* StatisticsMatchCalls: what each counter, total and maximum still misses *)

\* The members of S are what x still misses of y
Tally(S, x, y) == IsFiniteSet(S) /\ x + Cardinality(S) = y

\* The calls that have yet to count k
Owing(k) == {t \in Threads : \/ pc[t] = "count_action" /\ arg[t] = k
                             \/ pc[t] = "count_reject" /\ k = "rejected"}

CountPart ==
  /\ \A c \in Classifiers : pc[c] = "count_action" => arg[c] \in Actions
  /\ \A k \in Counters : Tally(Owing(k), counts[k], due[k])

\* The calls that are to add their latency, to count it, to compare it
Adding == {"count_reject", "add_latency"}
Sampling == Adding \cup {"count_sample"}
Recording == Sampling \cup {"compare_max", "store_max"}
At(k, L) == {t \in Threads : KindOf(t) = k /\ pc[t] \in L}

\* A latency as a set of that many elements, and the latencies yet to be added
Block(t, l) == {t} \X (1 .. l)
Units(k) == UNION {Block(t, latency[t]) : t \in At(k, Adding)}

LatencyPart ==
  \A k \in Kinds : /\ Tally(Units(k), lat[k].sum, taken[k].sum)
                   /\ Tally(At(k, Sampling), lat[k].samples, taken[k].samples)

\* The longest latency is stored, or on its way; who is about to store one raises
\* the maximum, and is alone unless there was a race.
MaxOf(k) ==
  /\ lat[k].max <= taken[k].max
  /\ \A t \in At(k, Recording) : latency[t] <= taken[k].max
  /\ k \notin maxRace =>
       /\ \/ lat[k].max = taken[k].max
          \/ \E t \in At(k, Recording) : latency[t] = taken[k].max
       /\ \A t \in At(k, {"store_max"}) : latency[t] > lat[k].max
       /\ \A t, u \in At(k, {"store_max"}) : t = u

MaxPart == \A k \in Kinds : MaxOf(k)

\* The observations the telemetry has yet to count
Observes(l, q) == l = "record" \/ (l \in {"read", "write"} /\ q.decision = "observed")
Observing == {c \in Classifiers : Observes(dnsPc[c], query[c])}

ObservedPart == Tally(Observing, counts["dns"], decided["observed"])

\* Without a reset of the lock under its holder, the lock keeps the others out
LockPart ==
  /\ setup = "lock" => ~brokenIn
  /\ ~brokenIn => \A t \in Threads : dnsPc[t] \notin {"idle", "record"} => dnsLock = t

\* A decision taken under the lock is counted, or is being counted by the holder
Counting(d) == \E c \in Classifiers :
                 dnsPc[c] \in {"read", "write"} /\ query[c].decision = d

StatsPart ==
  /\ setup # "done" => /\ stats = NoStats /\ decided = NoStats
                       /\ \A c \in Classifiers : dnsPc[c] = "idle"
  /\ ~brokenIn =>
       /\ \A d \in Decisions : decided[d] = stats[d] + IF Counting(d) THEN 1 ELSE 0
       /\ \A c \in Classifiers :
            dnsPc[c] = "write" => query[c].count = stats[query[c].decision]

\* The inductive invariant of the statistics, beside DInv
StatisticsInv == /\ CountPart /\ LatencyPart /\ MaxPart
                 /\ ObservedPart /\ LockPart /\ StatsPart

\* What is added to the missing was added to the whole, what is taken from the
\* missing was added to what is there, or both have grown alike.
LEMMA TallyMoves ==
  ASSUME NEW S, NEW T, NEW B, NEW x \in Nat, NEW y \in Nat, NEW u \in Nat,
         NEW v \in Nat, Tally(S, x, y), IsFiniteSet(B),
         \/ T = S /\ u - x = v - y
         \/ S \cap B = {} /\ T = S \cup B /\ u = x /\ v = y + Cardinality(B)
         \/ B \subseteq S /\ T = S \ B /\ u = x + Cardinality(B) /\ v = y
  PROVE  Tally(T, u, v)
<1>1. Cardinality(S) \in Nat /\ Cardinality(B) \in Nat /\ IsFiniteSet(S)
  BY FS_CardinalityType DEF Tally
<1>2. CASE T = S /\ u - x = v - y
  BY <1>1, <1>2 DEF Tally
<1>3. CASE S \cap B = {} /\ T = S \cup B /\ u = x /\ v = y + Cardinality(B)
  <2>1. IsFiniteSet(T)
    BY <1>1, <1>3, FS_Union
  <2>2. Cardinality(T) = Cardinality(S) + Cardinality(B)
    <3>1. Cardinality(S \cup B)
            = Cardinality(S) + Cardinality(B) - Cardinality(S \cap B)
      BY <1>1, FS_Union
    <3>2. Cardinality(S \cap B) = 0
      BY <1>3, FS_EmptySet
    <3> QED BY <1>1, <1>3, <3>1, <3>2
  <2> QED BY <1>1, <1>3, <2>1, <2>2 DEF Tally
<1>4. CASE B \subseteq S /\ T = S \ B /\ u = x + Cardinality(B) /\ v = y
  <2>1. IsFiniteSet(T) /\ Cardinality(T) \in Nat
    BY <1>1, <1>4, FS_Difference, FS_CardinalityType
  <2>2. Cardinality(T) = Cardinality(S) - Cardinality(B)
    <3>1. Cardinality(S \ B) = Cardinality(S) - Cardinality(S \cap B)
      BY <1>1, FS_Difference
    <3>2. S \cap B = B
      BY <1>4
    <3> QED BY <1>4, <3>1, <3>2
  <2> QED BY <1>1, <1>4, <2>1, <2>2 DEF Tally
<1> QED BY <1>2, <1>3, <1>4

\* The same for one call
LEMMA TallyOne ==
  ASSUME NEW S, NEW T, NEW t, NEW x \in Nat, NEW y \in Nat, NEW u \in Nat,
         NEW v \in Nat, Tally(S, x, y),
         \/ T = S /\ u - x = v - y
         \/ t \notin S /\ T = S \cup {t} /\ u = x /\ v = y + 1
         \/ t \in S /\ T = S \ {t} /\ u = x + 1 /\ v = y
  PROVE  Tally(T, u, v)
<1>1. IsFiniteSet({t}) /\ Cardinality({t}) = 1
  BY FS_Singleton
<1>2. \/ T = S /\ u - x = v - y
      \/ S \cap {t} = {} /\ T = S \cup {t} /\ u = x /\ v = y + Cardinality({t})
      \/ {t} \subseteq S /\ T = S \ {t} /\ u = x + Cardinality({t}) /\ v = y
  BY <1>1
<1> QED BY <1>1, <1>2, TallyMoves

\* Nothing is missing from an empty tally.
LEMMA TallyEmpty ==
  ASSUME NEW x \in Nat, NEW y \in Nat
  PROVE  Tally({}, x, y) <=> x = y
BY FS_EmptySet DEF Tally

\* A latency is a block of as many units.
LEMMA BlockSize ==
  ASSUME NEW t, NEW l \in Nat
  PROVE  IsFiniteSet(Block(t, l)) /\ Cardinality(Block(t, l)) = l
<1>1. IsFiniteSet(1 .. l) /\ Cardinality(1 .. l) = l
  BY FS_Interval
<1>2. IsFiniteSet({t}) /\ Cardinality({t}) = 1
  BY FS_Singleton
<1>3. Cardinality({t} \X (1 .. l)) = 1 * l /\ IsFiniteSet({t} \X (1 .. l))
  BY <1>1, <1>2, FS_Product, ZenonT(30)
<1> QED BY <1>3 DEF Block

-----------------------------------------------------------------------------
(* The counters *)

\* A step of t that counts k at once, leaves it to be counted, or counts it late
CountsBy(t, k) ==
  \/ Owing(k)' = Owing(k) /\ counts'[k] - counts[k] = due'[k] - due[k]
  \/ /\ t \notin Owing(k) /\ Owing(k)' = Owing(k) \cup {t}
     /\ counts'[k] = counts[k] /\ due'[k] = due[k] + 1
  \/ /\ t \in Owing(k) /\ Owing(k)' = Owing(k) \ {t}
     /\ counts'[k] = counts[k] + 1 /\ due'[k] = due[k]

\* Such a step keeps the tally of k.
LEMMA CountsByKept ==
  ASSUME TypeOK, TypeOK', CountPart, NEW t, NEW k \in Counters, CountsBy(t, k)
  PROVE  Tally(Owing(k), counts[k], due[k])'
<1>1. /\ counts[k] \in Nat /\ due[k] \in Nat
      /\ counts'[k] \in Nat /\ due'[k] \in Nat
  BY DEF TypeOK
<1>2. Tally(Owing(k), counts[k], due[k])
  BY DEF CountPart
<1>3. Tally(Owing(k)', counts'[k], due'[k])
  BY <1>1, <1>2, TallyOne DEF CountsBy
<1> QED BY <1>3 DEF Tally

\* A step of t that is at none of the counts, and has none to do
LEMMA NothingOwed ==
  ASSUME TypeOK, NEW t \in Threads, NEW l, NEW a, NEW n,
         pc' = [pc EXCEPT ![t] = l] /\ (arg' = arg \/ arg' = [arg EXCEPT ![t] = a]),
         pc[t] \notin {"count_action", "count_reject"},
         l \notin {"count_action", "count_reject"}, counts' = counts, due' = due,
         NEW k \in Counters
  PROVE  CountsBy(n, k)
<1>1. counts[k] \in Nat /\ due[k] \in Nat
  BY DEF TypeOK
<1>2. Owing(k)' = Owing(k)
  BY DEF Owing, TypeOK
<1> QED BY <1>1, <1>2 DEF CountsBy

\* Every step on the counters counts so.
LEMMA CountStep ==
  ASSUME TypeOK, CountPart, [TelemetryStep]_telemetry
  PROVE  CountPart'
<1>0. TypeOK'
  BY TypeStep
<1>a. Classifiers \cap Handlers = {}
  BY TelemetryAssumption
<1>b. \A k \in Counters : /\ counts[k] \in Nat /\ due[k] \in Nat
                          /\ counts'[k] \in Nat /\ due'[k] \in Nat
  BY <1>0 DEF TypeOK
<1>1. SUFFICES
        /\ \A c \in Classifiers : pc'[c] = "count_action" => arg'[c] \in Actions
        /\ \E t : \A k \in Counters : CountsBy(t, k)
  BY <1>0, CountsByKept DEF CountPart, Tally
<1>2. ASSUME NEW c \in Classifiers, NEW a \in Actions, NEW l \in Latencies,
             RecordClassify(c, a, l)
      PROVE  /\ \A d \in Classifiers : pc'[d] = "count_action" => arg'[d] \in Actions
             /\ \A k \in Counters : CountsBy(c, k)
  <2>1. /\ pc[c] = "idle" /\ pc' = [pc EXCEPT ![c] = "count_action"]
        /\ arg' = [arg EXCEPT ![c] = a]
        /\ counts' = [counts EXCEPT !["classify"] = @ + 1]
        /\ due' = [k \in Counters |-> IF k \in {"classify", a} THEN due[k] + 1 ELSE due[k]]
    BY <1>2 DEF RecordClassify, Call, With, Count, Goto
  <2>2. \A d \in Classifiers : pc'[d] = "count_action" => arg'[d] \in Actions
    BY <2>1 DEF CountPart, TypeOK, Threads
  <2>3. /\ c \notin Owing(a) /\ Owing(a)' = Owing(a) \cup {c}
        /\ \A k \in Counters \ {a} : Owing(k)' = Owing(k)
    BY <2>1 DEF Owing, TypeOK, Threads
  <2>4. \A k \in Counters : CountsBy(c, k)
    <3>1. a # "classify" /\ a \in Counters
      BY DEF Actions, Counters
    <3>2. counts'[a] = counts[a] /\ due'[a] = due[a] + 1
      BY <2>1, <3>1 DEF TypeOK
    <3>3. \A k \in Counters \ {a} : counts'[k] - counts[k] = due'[k] - due[k]
      BY <1>b, <2>1 DEF TypeOK
    <3> QED BY <2>3, <3>2, <3>3 DEF CountsBy
  <2> QED BY <2>2, <2>4
<1>3. ASSUME NEW c \in Classifiers, RecordError(c) \/ RecordDnsObserve(c)
      PROVE  /\ \A d \in Classifiers : pc'[d] = "count_action" => arg'[d] \in Actions
             /\ \A k \in Counters : CountsBy(c, k)
  <2>1. PICK e \in Counters :
          /\ pc' = pc /\ arg' = arg
          /\ counts' = [counts EXCEPT ![e] = @ + 1]
          /\ due' = [k \in Counters |-> IF k \in {e} THEN due[k] + 1 ELSE due[k]]
    <3>1. "error" \in Counters /\ "dns" \in Counters
      BY DEF Counters
    <3> QED BY <1>3, <3>1 DEF RecordError, RecordDnsObserve, Call, Count
  <2>2. \A k \in Counters : Owing(k)' = Owing(k)
    BY <2>1 DEF Owing
  <2>3. \A k \in Counters : counts'[k] - counts[k] = due'[k] - due[k]
    BY <1>b, <2>1 DEF TypeOK
  <2> QED BY <2>1, <2>2, <2>3 DEF CountsBy, CountPart
<1>4. ASSUME NEW c \in Classifiers, CountAction(c)
      PROVE  /\ \A d \in Classifiers : pc'[d] = "count_action" => arg'[d] \in Actions
             /\ \A k \in Counters : CountsBy(c, k)
  <2>1. PICK e \in Counters :
          /\ e = arg[c] /\ pc[c] = "count_action"
          /\ pc' = [pc EXCEPT ![c] = "test_sample"] /\ arg' = arg /\ due' = due
          /\ counts' = [counts EXCEPT ![e] = @ + 1]
    BY <1>4 DEF CountAction, Category, Goto, Count, CountPart, Actions, Counters
  <2>2. \A d \in Classifiers : pc'[d] = "count_action" => arg'[d] \in Actions
    BY <2>1 DEF CountPart, TypeOK, Threads
  <2>3. /\ c \in Owing(e) /\ Owing(e)' = Owing(e) \ {c}
        /\ \A k \in Counters \ {e} : Owing(k)' = Owing(k)
    <3>1. c \in Owing(e)
      BY <2>1 DEF Owing, Threads
    <3>2. \A k \in Counters : Owing(k)' = Owing(k) \ {c}
      BY <2>1 DEF Owing, TypeOK, Threads
    <3>3. \A k \in Counters \ {e} : c \notin Owing(k)
      BY <2>1 DEF Owing
    <3> QED BY <3>1, <3>2, <3>3
  <2>4. counts'[e] = counts[e] + 1 /\ due'[e] = due[e]
    BY <2>1 DEF TypeOK
  <2>5. \A k \in Counters \ {e} : counts'[k] - counts[k] = due'[k] - due[k]
    BY <1>b, <2>1 DEF TypeOK
  <2> QED BY <2>2, <2>3, <2>4, <2>5 DEF CountsBy
<1>5. ASSUME NEW h \in Handlers, NEW o \in Outcomes, NEW l \in Latencies,
             RecordIpc(h, o, l)
      PROVE  /\ \A d \in Classifiers : pc'[d] = "count_action" => arg'[d] \in Actions
             /\ \A k \in Counters : CountsBy(h, k)
  <2>1. /\ pc[h] = "idle"
        /\ pc' = [pc EXCEPT ![h] = IF o = "rejected" THEN "count_reject" ELSE "add_latency"]
        /\ arg' = [arg EXCEPT ![h] = o]
        /\ counts' = [counts EXCEPT !["dispatched"] = @ + 1]
        /\ due' = [k \in Counters |-> IF k \in {"dispatched"} \cup ({o} \cap {"rejected"})
                                        THEN due[k] + 1 ELSE due[k]]
    BY <1>5 DEF RecordIpc, Call, With, Count, Goto
  <2>2. \A d \in Classifiers : pc'[d] = "count_action" => arg'[d] \in Actions
    BY <1>a, <2>1 DEF CountPart, TypeOK, Threads
  <2>3. \A k \in Counters \ {"rejected"} :
          Owing(k)' = Owing(k) /\ counts'[k] - counts[k] = due'[k] - due[k]
    <3>1. \A k \in Counters \ {"rejected"} : Owing(k)' = Owing(k)
      BY <2>1 DEF Owing, TypeOK, Threads
    <3>2. \A k \in Counters \ {"rejected"} : counts'[k] - counts[k] = due'[k] - due[k]
      BY <1>b, <2>1 DEF TypeOK
    <3> QED BY <3>1, <3>2
  <2>4. CountsBy(h, "rejected")
    <3>1. "rejected" \in Counters
      BY DEF Counters
    <3>2. counts'["rejected"] = counts["rejected"]
      BY <2>1, <3>1 DEF TypeOK
    <3>3. CASE o = "rejected"
      <4>1. h \notin Owing("rejected") /\ Owing("rejected")' = Owing("rejected") \cup {h}
        BY <2>1, <3>3 DEF Owing, TypeOK, Threads
      <4>2. due'["rejected"] = due["rejected"] + 1
        BY <2>1, <3>1, <3>3 DEF TypeOK
      <4> QED BY <3>2, <4>1, <4>2 DEF CountsBy
    <3>4. CASE o # "rejected"
      <4>1. Owing("rejected")' = Owing("rejected")
        BY <2>1, <3>4 DEF Owing, TypeOK, Threads
      <4>2. due'["rejected"] = due["rejected"]
        BY <2>1, <3>1, <3>4 DEF TypeOK
      <4>3. counts'["rejected"] - counts["rejected"] = due'["rejected"] - due["rejected"]
        BY <1>b, <3>1, <3>2, <4>2
      <4> QED BY <4>1, <4>3 DEF CountsBy
    <3> QED BY <3>3, <3>4
  <2> QED BY <2>2, <2>3, <2>4 DEF CountsBy
<1>6. ASSUME NEW h \in Handlers, CountReject(h)
      PROVE  /\ \A d \in Classifiers : pc'[d] = "count_action" => arg'[d] \in Actions
             /\ \A k \in Counters : CountsBy(h, k)
  <2>1. /\ pc[h] = "count_reject" /\ pc' = [pc EXCEPT ![h] = "add_latency"]
        /\ arg' = arg /\ due' = due
        /\ counts' = [counts EXCEPT !["rejected"] = @ + 1]
    BY <1>6 DEF CountReject, Goto, Count
  <2>2. \A d \in Classifiers : pc'[d] = "count_action" => arg'[d] \in Actions
    BY <1>a, <2>1 DEF CountPart, TypeOK, Threads
  <2>3. \A k \in Counters \ {"rejected"} :
          Owing(k)' = Owing(k) /\ counts'[k] - counts[k] = due'[k] - due[k]
    <3>1. \A k \in Counters \ {"rejected"} : Owing(k)' = Owing(k)
      BY <2>1 DEF Owing, TypeOK, Threads
    <3>2. \A k \in Counters \ {"rejected"} : counts'[k] - counts[k] = due'[k] - due[k]
      BY <1>b, <2>1 DEF TypeOK
    <3> QED BY <3>1, <3>2
  <2>4. CountsBy(h, "rejected")
    <3>1. "rejected" \in Counters
      BY DEF Counters
    <3>2. counts'["rejected"] = counts["rejected"] + 1 /\ due' = due
      BY <2>1, <3>1 DEF TypeOK
    <3>3. h \in Owing("rejected") /\ Owing("rejected")' = Owing("rejected") \ {h}
      BY <2>1 DEF Owing, TypeOK, Threads
    <3> QED BY <3>2, <3>3 DEF CountsBy
  <2> QED BY <2>2, <2>3, <2>4 DEF CountsBy
<1>7. ASSUME NEW t \in Threads,
             \/ t \in Classifiers /\ TestSample(t)
             \/ RecordLatency(t)
             \/ t \in Handlers /\ ((\E k \in Kinds : ReadSamples(t, k)) \/ Divide(t))
      PROVE  /\ \A d \in Classifiers : pc'[d] = "count_action" => arg'[d] \in Actions
             /\ \A k \in Counters : CountsBy(t, k)
  <2>1. PICK l, a :
          /\ pc' = [pc EXCEPT ![t] = l] /\ (arg' = arg \/ arg' = [arg EXCEPT ![t] = a])
          /\ pc[t] \notin {"count_action", "count_reject"}
          /\ l \notin {"count_action", "count_reject"} /\ counts' = counts /\ due' = due
    BY <1>7 DEF TestSample, RecordLatency, AddLatency, CountSample, CompareMax, StoreMax,
                ReadSamples, Divide, Return, Goto, With
  <2>2. \A d \in Classifiers : pc'[d] = "count_action" => arg'[d] \in Actions
    BY <2>1 DEF CountPart, TypeOK, Threads
  <2> QED BY <2>1, <2>2, NothingOwed
<1>8. CASE UNCHANGED telemetry
  <2>1. \A k \in Counters : Owing(k)' = Owing(k) /\ counts'[k] - counts[k] = due'[k] - due[k]
    BY <1>8, <1>b DEF telemetry, Owing
  <2> QED BY <1>8, <2>1 DEF CountsBy, CountPart, telemetry
<1> QED BY <1>2, <1>3, <1>4, <1>5, <1>6, <1>7, <1>8
        DEF TelemetryStep, ClassifierBegins, ClassifierStep, HandlerBegins, HandlerStep, Threads

-----------------------------------------------------------------------------
(* The latencies *)

\* A unit belongs to the thread that has it.
LEMMA UnitsOf ==
  ASSUME NEW k
  PROVE  /\ \A u : u \in Units(k) <=>
                     \E t \in At(k, Adding) : u \in Block(t, latency[t])
         /\ \A u : u \in Units(k)' <=>
                     \E t \in At(k, Adding)' : u \in Block(t, latency'[t])
         /\ \A t, l, u : u \in Block(t, l) => u[1] = t
BY DEF Units, Block

\* What the units become when the threads that are to add a latency change
LEMMA UnitsMove ==
  ASSUME NEW k, NEW t, \A s \in At(k, Adding) \ {t} : latency'[s] = latency[s]
  PROVE  /\ At(k, Adding)' = At(k, Adding)
              /\ (t \in At(k, Adding) => latency'[t] = latency[t]) =>
              Units(k)' = Units(k)
         /\ t \notin At(k, Adding) /\ At(k, Adding)' = At(k, Adding) \cup {t} =>
              /\ Units(k) \cap Block(t, latency'[t]) = {}
              /\ Units(k)' = Units(k) \cup Block(t, latency'[t])
         /\ t \in At(k, Adding) /\ At(k, Adding)' = At(k, Adding) \ {t} =>
              /\ Block(t, latency[t]) \subseteq Units(k)
              /\ Units(k)' = Units(k) \ Block(t, latency[t])
<1>1. ASSUME At(k, Adding)' = At(k, Adding),
             t \in At(k, Adding) => latency'[t] = latency[t]
      PROVE  Units(k)' = Units(k)
  <2>1. \A s \in At(k, Adding) : latency'[s] = latency[s]
    BY <1>1
  <2> QED BY <1>1, <2>1, UnitsOf
<1>2. ASSUME t \notin At(k, Adding), At(k, Adding)' = At(k, Adding) \cup {t}
      PROVE  /\ Units(k) \cap Block(t, latency'[t]) = {}
             /\ Units(k)' = Units(k) \cup Block(t, latency'[t])
  <2>1. \A s \in At(k, Adding) : latency'[s] = latency[s]
    BY <1>2
  <2>2. Units(k) \cap Block(t, latency'[t]) = {}
    BY <1>2, UnitsOf
  <2>3. \A u : u \in Units(k)' <=> u \in Units(k) \/ u \in Block(t, latency'[t])
    BY <1>2, <2>1, UnitsOf
  <2> QED BY <2>2, <2>3
<1>3. ASSUME t \in At(k, Adding), At(k, Adding)' = At(k, Adding) \ {t}
      PROVE  /\ Block(t, latency[t]) \subseteq Units(k)
             /\ Units(k)' = Units(k) \ Block(t, latency[t])
  <2>1. Block(t, latency[t]) \subseteq Units(k)
    BY <1>3, UnitsOf
  <2>2. ASSUME NEW u \in Units(k)'
        PROVE  u \in Units(k) /\ u \notin Block(t, latency[t])
    <3>1. PICK s \in At(k, Adding)' : u \in Block(s, latency'[s])
      BY UnitsOf
    <3>2. s \in At(k, Adding) /\ s # t /\ u \in Block(s, latency[s])
      BY <1>3, <3>1
    <3> QED BY <3>2, UnitsOf
  <2>3. ASSUME NEW u \in Units(k), u \notin Block(t, latency[t])
        PROVE  u \in Units(k)'
    <3>1. PICK s \in At(k, Adding) : u \in Block(s, latency[s])
      BY UnitsOf
    <3>2. s \in At(k, Adding)' /\ u \in Block(s, latency'[s])
      BY <1>3, <2>3, <3>1
    <3> QED BY <3>2, UnitsOf
  <2> QED BY <2>1, <2>2, <2>3
<1> QED BY <1>1, <1>2, <1>3

\* A step of t that neither records a latency nor decides to
LEMMA LatencyPasses ==
  ASSUME TypeOK, LatencyPart, MaxPart, NEW t \in Threads, NEW l,
         pc' = [pc EXCEPT ![t] = l],
         \A s \in Threads \ {t} : latency'[s] = latency[s],
         \/ pc[t] \notin Recording /\ l \notin Recording
         \/ pc[t] \in Adding /\ l \in Adding /\ latency' = latency,
         UNCHANGED <<lat, taken, maxRace>>
  PROVE  LatencyPart' /\ MaxPart'
<1>1. ASSUME NEW k \in Kinds
      PROVE  /\ At(k, Adding)' = At(k, Adding) /\ At(k, Sampling)' = At(k, Sampling)
             /\ At(k, Recording)' = At(k, Recording)
             /\ At(k, {"store_max"})' = At(k, {"store_max"})
  <2>1. /\ pc[t] \in Adding <=> l \in Adding
        /\ pc[t] \in Sampling <=> l \in Sampling
        /\ pc[t] \in Recording <=> l \in Recording
        /\ pc[t] \in {"store_max"} <=> l \in {"store_max"}
    BY DEF Adding, Sampling, Recording
  <2>2. At(k, Adding)' = At(k, Adding)
    BY <2>1 DEF At, KindOf, TypeOK
  <2>3. At(k, Sampling)' = At(k, Sampling)
    BY <2>1 DEF At, KindOf, TypeOK
  <2>4. At(k, Recording)' = At(k, Recording)
    BY <2>1 DEF At, KindOf, TypeOK
  <2>5. At(k, {"store_max"})' = At(k, {"store_max"})
    BY <2>1 DEF At, KindOf, TypeOK
  <2> QED BY <2>2, <2>3, <2>4, <2>5
<1>2. ASSUME NEW k \in Kinds, NEW s \in At(k, Recording)
      PROVE  latency'[s] = latency[s]
  BY <1>2 DEF At, Recording, Sampling, Adding
<1>3. ASSUME NEW k \in Kinds
      PROVE  /\ Units(k)' = Units(k)
             /\ At(k, {"store_max"}) \subseteq At(k, Recording)
  <2>1. At(k, Adding) \subseteq At(k, Recording)
    BY DEF At, Recording, Sampling
  <2>2. \A s \in At(k, Adding) : latency'[s] = latency[s]
    BY <1>2, <2>1
  <2>3. Units(k)' = Units(k)
    BY <1>1, <2>2, UnitsMove
  <2> QED BY <2>3 DEF At, Recording
<1>4. LatencyPart'
  BY <1>1, <1>3 DEF LatencyPart, Tally
<1>5. MaxPart'
  BY <1>1, <1>2, <1>3 DEF MaxPart, MaxOf
<1> QED BY <1>4, <1>5

\* The latency fields are numbers.
LEMMA TotalsTypes ==
  ASSUME TypeOK, NEW k \in Kinds
  PROVE  /\ lat[k].sum \in Nat /\ lat[k].samples \in Nat /\ lat[k].max \in Nat
         /\ taken[k].sum \in Nat /\ taken[k].samples \in Nat /\ taken[k].max \in Nat
BY DEF TypeOK, Totals

\* A step of t that decides to record the latency n
LEMMA LatencyTaken ==
  ASSUME TypeOK, LatencyPart, MaxPart, NEW t \in Threads, NEW l \in Adding,
         NEW n \in Nat, pc[t] \notin Recording, pc' = [pc EXCEPT ![t] = l],
         latency'[t] = n, \A s \in Threads \ {t} : latency'[s] = latency[s],
         Take(KindOf(t), n), UNCHANGED <<lat, maxRace>>
  PROVE  LatencyPart' /\ MaxPart'
<1>a. KindOf(t) \in Kinds
  BY DEF KindOf, Kinds
<1>b. /\ pc[t] \notin Adding /\ pc[t] \notin Sampling /\ pc[t] # "store_max"
      /\ l \in Sampling /\ l \in Recording /\ l # "store_max"
  BY DEF Adding, Sampling, Recording
<1>1. ASSUME NEW k \in Kinds, k # KindOf(t)
      PROVE  /\ At(k, Adding)' = At(k, Adding) /\ At(k, Sampling)' = At(k, Sampling)
             /\ At(k, Recording)' = At(k, Recording)
             /\ taken'[k] = taken[k]
             /\ \A s \in At(k, Recording) : latency'[s] = latency[s]
  BY <1>1 DEF At, KindOf, TypeOK, Take
<1>2. ASSUME NEW k \in Kinds, k = KindOf(t)
      PROVE  /\ t \notin At(k, Adding) /\ At(k, Adding)' = At(k, Adding) \cup {t}
             /\ t \notin At(k, Sampling) /\ At(k, Sampling)' = At(k, Sampling) \cup {t}
             /\ t \notin At(k, Recording)
             /\ At(k, Recording)' = At(k, Recording) \cup {t}
             /\ \A s \in At(k, Recording) : latency'[s] = latency[s]
  BY <1>b, <1>2 DEF At, KindOf, TypeOK
<1>3. ASSUME NEW k \in Kinds, k = KindOf(t)
      PROVE  /\ taken'[k].sum = taken[k].sum + n
             /\ taken'[k].samples = taken[k].samples + 1
             /\ taken'[k].max = IF n > taken[k].max THEN n ELSE taken[k].max
  BY <1>3 DEF Take, TypeOK, Totals
<1>4. ASSUME NEW k \in Kinds
      PROVE  /\ At(k, {"store_max"})' = At(k, {"store_max"})
             /\ At(k, {"store_max"}) \subseteq At(k, Recording)
             /\ At(k, Adding) \subseteq At(k, Recording)
  BY <1>b DEF At, KindOf, TypeOK, Recording, Sampling
<1>5. ASSUME NEW k \in Kinds
      PROVE  /\ Tally(Units(k)', lat[k].sum, taken'[k].sum)
             /\ Tally(At(k, Sampling)', lat[k].samples, taken'[k].samples)
  <2>0. /\ Tally(Units(k), lat[k].sum, taken[k].sum)
        /\ Tally(At(k, Sampling), lat[k].samples, taken[k].samples)
    BY DEF LatencyPart
  <2>1. CASE k # KindOf(t)
    <3>1. \A s \in At(k, Adding) : latency'[s] = latency[s]
      BY <1>1, <1>4, <2>1
    <3>2. Units(k)' = Units(k)
      BY <1>1, <2>1, <3>1, UnitsMove
    <3> QED BY <1>1, <2>0, <2>1, <3>2
  <2>2. CASE k = KindOf(t)
    <3>1. \A s \in At(k, Adding) \ {t} : latency'[s] = latency[s]
      BY <1>2, <1>4, <2>2
    <3>2. /\ Units(k) \cap Block(t, n) = {}
          /\ Units(k)' = Units(k) \cup Block(t, n)
      BY <1>2, <2>2, <3>1, UnitsMove
    <3>3. IsFiniteSet(Block(t, n)) /\ Cardinality(Block(t, n)) = n
      BY BlockSize
    <3>4. taken'[k].sum \in Nat /\ taken'[k].samples \in Nat
      BY <1>3, <2>2, TotalsTypes
    <3>5. Tally(Units(k)', lat[k].sum, taken'[k].sum)
      BY <1>3, <2>0, <2>2, <3>2, <3>3, <3>4, TotalsTypes, TallyMoves
    <3>6. Tally(At(k, Sampling)', lat[k].samples, taken'[k].samples)
      BY <1>2, <1>3, <2>0, <2>2, <3>4, TotalsTypes, TallyOne
    <3> QED BY <3>5, <3>6
  <2> QED BY <2>1, <2>2
<1>6. LatencyPart'
  BY <1>5 DEF LatencyPart, Tally
<1>7. ASSUME NEW k \in Kinds, k = KindOf(t)
      PROVE  /\ lat[k].max <= taken'[k].max
             /\ \A u \in At(k, Recording)' : latency'[u] <= taken'[k].max
             /\ k \notin maxRace =>
                  \/ lat[k].max = taken'[k].max
                  \/ \E u \in At(k, Recording)' : latency'[u] = taken'[k].max
  <2>1. /\ lat[k].max \in Nat /\ taken[k].max \in Nat
        /\ \A u \in At(k, Recording) : latency[u] \in Nat
    BY TotalsTypes DEF At, TypeOK
  <2>2. /\ lat[k].max <= taken[k].max
        /\ \A u \in At(k, Recording) : latency[u] <= taken[k].max
        /\ k \notin maxRace =>
             \/ lat[k].max = taken[k].max
             \/ \E u \in At(k, Recording) : latency[u] = taken[k].max
    BY DEF MaxPart, MaxOf
  <2>3. CASE n > taken[k].max
    BY <1>2, <1>3, <1>7, <2>1, <2>2, <2>3
  <2>4. CASE ~(n > taken[k].max)
    BY <1>2, <1>3, <1>7, <2>1, <2>2, <2>4
  <2> QED BY <2>3, <2>4
<1>8. MaxPart'
  <2>1. ASSUME NEW k \in Kinds, k # KindOf(t)
        PROVE  /\ lat[k].max <= taken'[k].max
               /\ \A u \in At(k, Recording)' : latency'[u] <= taken'[k].max
               /\ k \notin maxRace =>
                    \/ lat[k].max = taken'[k].max
                    \/ \E u \in At(k, Recording)' : latency'[u] = taken'[k].max
    BY <1>1, <2>1 DEF MaxPart, MaxOf
  <2>2. ASSUME NEW k \in Kinds, k \notin maxRace
        PROVE  /\ \A u \in At(k, {"store_max"})' : latency'[u] > lat[k].max
               /\ \A u, v \in At(k, {"store_max"})' : u = v
    BY <1>1, <1>2, <1>4, <2>2 DEF MaxPart, MaxOf
  <2> QED BY <1>7, <2>1, <2>2 DEF MaxPart, MaxOf
<1> QED BY <1>6, <1>8

\* The two interlocked additions, of the latency and of the sample
LEMMA LatencyAdded ==
  ASSUME TypeOK, LatencyPart, MaxPart, NEW t \in Threads,
         AddLatency(t) \/ CountSample(t)
  PROVE  LatencyPart' /\ MaxPart'
<1>a. KindOf(t) \in Kinds
  BY DEF KindOf, Kinds
<1>b. /\ latency' = latency /\ taken' = taken /\ maxRace' = maxRace
      /\ \A k \in Kinds : lat'[k].max = lat[k].max
  <2>1. CASE AddLatency(t)
    BY <1>a, <2>1 DEF AddLatency, TypeOK, Totals
  <2>2. CASE CountSample(t)
    BY <1>a, <2>2 DEF CountSample, TypeOK, Totals
  <2> QED BY <2>1, <2>2
<1>c. \A s \in Threads : latency[s] \in Nat
  BY DEF TypeOK
<1>1. ASSUME NEW k \in Kinds
      PROVE  /\ At(k, Recording)' = At(k, Recording)
             /\ At(k, {"store_max"})' = At(k, {"store_max"})
  BY DEF AddLatency, CountSample, Goto, At, KindOf, TypeOK, Recording, Sampling, Adding
<1>2. MaxPart'
  BY <1>b, <1>1 DEF MaxPart, MaxOf
<1>3. ASSUME NEW k \in Kinds
      PROVE  /\ Tally(Units(k)', lat'[k].sum, taken[k].sum)
             /\ Tally(At(k, Sampling)', lat'[k].samples, taken[k].samples)
  <2>0. /\ Tally(Units(k), lat[k].sum, taken[k].sum)
        /\ Tally(At(k, Sampling), lat[k].samples, taken[k].samples)
    BY DEF LatencyPart
  <2>1. CASE k # KindOf(t)
    <3>1. lat'[k] = lat[k]
      BY <1>a, <2>1 DEF AddLatency, CountSample, TypeOK
    <3>2. At(k, Adding)' = At(k, Adding) /\ At(k, Sampling)' = At(k, Sampling)
      BY <2>1 DEF AddLatency, CountSample, Goto, At, KindOf, TypeOK
    <3>3. Units(k)' = Units(k)
      BY <1>b, <3>2, UnitsMove
    <3> QED BY <2>0, <3>1, <3>2, <3>3
  <2>2. CASE k = KindOf(t) /\ AddLatency(t)
    <3>1. /\ lat'[k].sum = lat[k].sum + latency[t]
          /\ lat'[k].samples = lat[k].samples
      BY <2>2 DEF AddLatency, TypeOK, Totals
    <3>2. /\ t \in At(k, Adding) /\ At(k, Adding)' = At(k, Adding) \ {t}
          /\ At(k, Sampling)' = At(k, Sampling)
      BY <2>2 DEF AddLatency, Goto, At, KindOf, TypeOK, Sampling, Adding
    <3>3. /\ Block(t, latency[t]) \subseteq Units(k)
          /\ Units(k)' = Units(k) \ Block(t, latency[t])
      BY <1>b, <3>2, UnitsMove
    <3>4. /\ IsFiniteSet(Block(t, latency[t]))
          /\ Cardinality(Block(t, latency[t])) = latency[t]
      BY <1>c, BlockSize
    <3>5. lat'[k].sum \in Nat
      BY <1>c, <3>1, TotalsTypes
    <3>6. Tally(Units(k)', lat'[k].sum, taken[k].sum)
      <4>1. lat[k].sum \in Nat /\ taken[k].sum \in Nat
        BY TotalsTypes
      <4>2. lat'[k].sum = lat[k].sum + Cardinality(Block(t, latency[t]))
        BY <3>1, <3>4
      <4>3. /\ Block(t, latency[t]) \subseteq Units(k)
            /\ Units(k)' = Units(k) \ Block(t, latency[t])
            /\ lat'[k].sum = lat[k].sum + Cardinality(Block(t, latency[t]))
            /\ taken[k].sum = taken[k].sum
        BY <3>3, <4>2
      <4> QED BY <2>0, <3>4, <3>5, <4>1, <4>3, TallyMoves, SMTT(30)
    <3> QED BY <2>0, <3>1, <3>2, <3>6
  <2>3. CASE k = KindOf(t) /\ CountSample(t)
    <3>1. /\ lat'[k].sum = lat[k].sum
          /\ lat'[k].samples = lat[k].samples + 1
      BY <2>3 DEF CountSample, TypeOK, Totals
    <3>2. /\ At(k, Adding)' = At(k, Adding)
          /\ t \in At(k, Sampling) /\ At(k, Sampling)' = At(k, Sampling) \ {t}
      BY <2>3 DEF CountSample, Goto, At, KindOf, TypeOK, Sampling, Adding
    <3>3. Units(k)' = Units(k)
      BY <1>b, <3>2, UnitsMove
    <3>4. lat'[k].samples \in Nat
      BY <3>1, TotalsTypes
    <3>5. Tally(At(k, Sampling)', lat'[k].samples, taken[k].samples)
      BY <2>0, <3>1, <3>2, <3>4, TotalsTypes, TallyOne
    <3> QED BY <2>0, <3>1, <3>3, <3>5
  <2> QED BY <2>1, <2>2, <2>3
<1>4. LatencyPart'
  BY <1>b, <1>3 DEF LatencyPart, Tally
<1> QED BY <1>2, <1>4

\* The two accesses to the maximum leave the sums as they are.
LEMMA MaximumKeepsSums ==
  ASSUME TypeOK, LatencyPart, NEW t \in Threads, CompareMax(t) \/ StoreMax(t)
  PROVE  LatencyPart'
<1>a. KindOf(t) \in Kinds
  BY DEF KindOf, Kinds
<1>1. /\ taken' = taken
      /\ \A k \in Kinds : lat'[k].sum = lat[k].sum /\ lat'[k].samples = lat[k].samples
  BY <1>a DEF CompareMax, StoreMax, TypeOK, Totals
<1>2. \E l : /\ pc' = [pc EXCEPT ![t] = l] /\ l \in {"idle", "store_max"}
             /\ pc[t] \in {"compare_max", "store_max"}
  BY DEF CompareMax, StoreMax, Return, Goto
<1>3. \A s \in Threads \ {t} : latency'[s] = latency[s]
  BY DEF CompareMax, StoreMax, Return, With, TypeOK
<1>4. ASSUME NEW k \in Kinds
      PROVE  /\ At(k, Sampling)' = At(k, Sampling) /\ At(k, Adding)' = At(k, Adding)
             /\ t \notin At(k, Adding) /\ At(k, Adding) \subseteq Threads
  BY <1>2 DEF At, KindOf, TypeOK, Sampling, Adding
<1>5. ASSUME NEW k \in Kinds
      PROVE  Units(k)' = Units(k)
  <2>1. \A s \in At(k, Adding) \ {t} : latency'[s] = latency[s]
    BY <1>3, <1>4
  <2> QED BY <1>4, <2>1, UnitsMove
<1> QED BY <1>1, <1>4, <1>5 DEF LatencyPart, Tally

\* The comparison: who does not raise the maximum has one at least as long there
LEMMA MaximumCompared ==
  ASSUME TypeOK, MaxPart, NEW t \in Threads, CompareMax(t)
  PROVE  MaxPart'
<1>a. lat' = lat /\ taken' = taken /\ maxRace \subseteq maxRace'
  BY DEF CompareMax
<1>b. \A s \in Threads : latency[s] \in Nat
  BY DEF TypeOK
<1>1. ASSUME NEW k \in Kinds, k # KindOf(t)
      PROVE  /\ At(k, Recording)' = At(k, Recording)
             /\ At(k, {"store_max"})' = At(k, {"store_max"})
             /\ At(k, {"store_max"}) \subseteq At(k, Recording)
             /\ \A s \in At(k, Recording) : latency'[s] = latency[s]
             /\ k \notin maxRace' => k \notin maxRace
  <2>1. \A s \in Threads \ {t} : latency'[s] = latency[s] /\ pc'[s] = pc[s]
    BY DEF CompareMax, Return, Goto, With, TypeOK
  <2> QED BY <1>a, <1>1, <2>1 DEF At, KindOf, Recording
<1>2. ASSUME NEW k \in Kinds, k = KindOf(t), latency[t] > lat[k].max
      PROVE  /\ At(k, Recording)' = At(k, Recording)
             /\ At(k, {"store_max"})' = At(k, {"store_max"}) \cup {t}
             /\ latency' = latency
             /\ k \notin maxRace' => k \notin maxRace /\ At(k, {"store_max"}) = {}
  <2>1. /\ pc[t] = "compare_max" /\ pc' = [pc EXCEPT ![t] = "store_max"]
        /\ latency' = latency
        /\ k \notin maxRace' =>
             /\ k \notin maxRace
             /\ ~\E u \in Threads \ {t} : KindOf(u) = k /\ pc[u] = "store_max"
    BY <1>2 DEF CompareMax, Goto
  <2>2. At(k, Recording)' = At(k, Recording)
    BY <2>1 DEF At, KindOf, TypeOK, Recording
  <2>3. At(k, {"store_max"})' = At(k, {"store_max"}) \cup {t}
    BY <1>2, <2>1 DEF At, KindOf, TypeOK
  <2>4. k \notin maxRace' => At(k, {"store_max"}) = {}
    BY <2>1 DEF At
  <2> QED BY <2>1, <2>2, <2>3, <2>4
<1>3. ASSUME NEW k \in Kinds, k = KindOf(t), ~(latency[t] > lat[k].max)
      PROVE  /\ At(k, Recording)' = At(k, Recording) \ {t}
             /\ At(k, {"store_max"})' = At(k, {"store_max"})
             /\ At(k, {"store_max"}) \subseteq At(k, Recording)
             /\ t \notin At(k, {"store_max"})
             /\ \A s \in At(k, Recording) \ {t} : latency'[s] = latency[s]
             /\ k \notin maxRace' => k \notin maxRace
  <2>1. /\ pc[t] = "compare_max" /\ pc' = [pc EXCEPT ![t] = "idle"]
        /\ latency' = [latency EXCEPT ![t] = 0]
    BY <1>3 DEF CompareMax, Return, Goto, With
  <2> QED BY <1>a, <2>1 DEF At, KindOf, TypeOK, Recording, Sampling, Adding
<1>4. ASSUME NEW k \in Kinds, k # KindOf(t)
      PROVE  MaxOf(k)'
  BY <1>a, <1>1, <1>4 DEF MaxPart, MaxOf
<1>5. ASSUME NEW k \in Kinds, k = KindOf(t), latency[t] > lat[k].max
      PROVE  MaxOf(k)'
  BY <1>a, <1>2, <1>5 DEF MaxPart, MaxOf
<1>6. ASSUME NEW k \in Kinds, k = KindOf(t), ~(latency[t] > lat[k].max)
      PROVE  MaxOf(k)'
  <2>1. /\ lat[k].max \in Nat /\ taken[k].max \in Nat /\ latency[t] \in Nat
        /\ lat[k].max <= taken[k].max
    BY <1>b, TotalsTypes DEF MaxPart, MaxOf
  <2>2. latency[t] = taken[k].max => lat[k].max = taken[k].max
    BY <1>6, <2>1
  <2> QED BY <1>a, <1>3, <1>6, <2>2 DEF MaxPart, MaxOf
<1> QED BY <1>4, <1>5, <1>6 DEF MaxPart

\* The store: without a race it raises the maximum
LEMMA MaximumStored ==
  ASSUME TypeOK, MaxPart, NEW t \in Threads, StoreMax(t)
  PROVE  MaxPart'
<1>a. KindOf(t) \in Kinds
  BY DEF KindOf, Kinds
<1>b. /\ pc[t] = "store_max" /\ pc' = [pc EXCEPT ![t] = "idle"]
      /\ latency' = [latency EXCEPT ![t] = 0]
      /\ taken' = taken /\ maxRace' = maxRace
  BY DEF StoreMax, Return, Goto, With
<1>1. ASSUME NEW k \in Kinds, k # KindOf(t)
      PROVE  MaxOf(k)'
  <2>1. /\ At(k, Recording)' = At(k, Recording)
        /\ At(k, {"store_max"})' = At(k, {"store_max"})
        /\ At(k, {"store_max"}) \subseteq At(k, Recording)
        /\ \A s \in At(k, Recording) : latency'[s] = latency[s]
    BY <1>b, <1>1 DEF At, KindOf, TypeOK, Recording
  <2>2. lat'[k] = lat[k]
    BY <1>a, <1>1 DEF StoreMax, TypeOK
  <2> QED BY <1>b, <2>1, <2>2 DEF MaxPart, MaxOf
<1>2. ASSUME NEW k \in Kinds, k = KindOf(t)
      PROVE  MaxOf(k)'
  <2>1. /\ t \in At(k, Recording) /\ At(k, Recording)' = At(k, Recording) \ {t}
        /\ t \in At(k, {"store_max"})
        /\ At(k, {"store_max"})' = At(k, {"store_max"}) \ {t}
        /\ At(k, {"store_max"}) \subseteq At(k, Recording)
        /\ \A s \in At(k, Recording) \ {t} : latency'[s] = latency[s]
    BY <1>b, <1>2 DEF At, KindOf, TypeOK, Recording, Sampling, Adding
  <2>2. lat'[k].max = latency[t]
    BY <1>2 DEF StoreMax, TypeOK, Totals
  <2>3. /\ lat[k].max \in Nat /\ taken[k].max \in Nat /\ latency[t] \in Nat
        /\ lat[k].max <= taken[k].max /\ latency[t] <= taken[k].max
    BY <2>1, TotalsTypes DEF MaxPart, MaxOf, TypeOK
  <2>4. ASSUME k \notin maxRace
        PROVE  /\ \/ lat'[k].max = taken[k].max
                  \/ \E u \in At(k, Recording)' : latency'[u] = taken[k].max
               /\ At(k, {"store_max"})' = {}
    <3>1. /\ \/ lat[k].max = taken[k].max
             \/ \E u \in At(k, Recording) : latency[u] = taken[k].max
          /\ latency[t] > lat[k].max
          /\ \A u \in At(k, {"store_max"}) : u = t
      BY <2>1, <2>4 DEF MaxPart, MaxOf
    <3>2. PICK u \in At(k, Recording) : latency[u] = taken[k].max
      BY <2>3, <3>1
    <3> QED BY <2>1, <2>2, <3>1, <3>2
  <2> QED BY <1>b, <2>1, <2>2, <2>3, <2>4 DEF MaxPart, MaxOf
<1> QED BY <1>1, <1>2 DEF MaxPart

\* Every step on the counters keeps the sums and the maximum.
LEMMA LatencyStep ==
  ASSUME TypeOK, LatencyPart, MaxPart, [TelemetryStep]_telemetry
  PROVE  LatencyPart' /\ MaxPart'
<1>a. Latencies \subseteq Nat /\ Classifiers \cap Handlers = {}
  BY TelemetryAssumption
<1>1. ASSUME NEW t \in Threads,
             \/ \E a \in Actions, n \in Latencies : RecordClassify(t, a, n)
             \/ RecordError(t) \/ RecordDnsObserve(t) \/ CountAction(t)
             \/ TestSample(t) /\ ~Sampled
             \/ \E k \in Kinds : ReadSamples(t, k)
             \/ Divide(t)
      PROVE  LatencyPart' /\ MaxPart'
  <2>1. \A s \in Threads \ {t} : latency'[s] = latency[s]
    BY <1>1 DEF RecordClassify, RecordError, RecordDnsObserve, CountAction, TestSample,
                ReadSamples, Divide, Return, With, TypeOK
  <2>2. UNCHANGED <<lat, taken, maxRace>>
    BY <1>1 DEF RecordClassify, RecordError, RecordDnsObserve, CountAction, TestSample,
                ReadSamples, Divide
  <2>3. /\ pc[t] \in {"idle", "count_action", "test_sample", "divide"}
        /\ \/ pc' = pc
           \/ \E l \in {"idle", "count_action", "test_sample", "divide"} :
                pc' = [pc EXCEPT ![t] = l]
    BY <1>1 DEF RecordClassify, RecordError, RecordDnsObserve, CountAction, TestSample,
                ReadSamples, Divide, Return, Goto, Call
  <2>4. PICK l \in {"idle", "count_action", "test_sample", "divide"} :
          pc' = [pc EXCEPT ![t] = l]
    BY <2>3 DEF TypeOK
  <2>5. pc[t] \notin Recording /\ l \notin Recording
    BY <2>3 DEF Recording, Sampling, Adding
  <2> QED BY <2>1, <2>2, <2>4, <2>5, LatencyPasses
<1>2. ASSUME NEW t \in Handlers, CountReject(t)
      PROVE  LatencyPart' /\ MaxPart'
  <2>1. /\ pc[t] \in Adding /\ "add_latency" \in Adding
        /\ pc' = [pc EXCEPT ![t] = "add_latency"]
        /\ latency' = latency /\ UNCHANGED <<lat, taken, maxRace>>
    BY <1>2 DEF CountReject, Goto, Adding
  <2> QED BY <2>1, LatencyPasses DEF Threads
<1>3. ASSUME NEW t \in Classifiers, TestSample(t), Sampled
      PROVE  LatencyPart' /\ MaxPart'
  <2>1. /\ pc[t] \notin Recording /\ "add_latency" \in Adding
        /\ pc' = [pc EXCEPT ![t] = "add_latency"]
        /\ latency' = latency /\ UNCHANGED <<lat, maxRace>>
        /\ Take("connection", latency[t])
    BY <1>3 DEF TestSample, Goto, Recording, Sampling, Adding
  <2>2. KindOf(t) = "connection" /\ latency[t] \in Nat /\ t \in Threads
    BY DEF KindOf, TypeOK, Threads
  <2>3. PICK n \in Nat : n = latency[t]
    BY <2>2
  <2>4. Take(KindOf(t), n) /\ latency'[t] = n
    BY <2>1, <2>2, <2>3
  <2> QED BY <2>1, <2>2, <2>4, LatencyTaken
<1>4. ASSUME NEW t \in Handlers, NEW o \in Outcomes, NEW n \in Latencies,
             RecordIpc(t, o, n)
      PROVE  LatencyPart' /\ MaxPart'
  <2>1. PICK l \in Adding : pc' = [pc EXCEPT ![t] = l]
    BY <1>4 DEF RecordIpc, Goto, Adding
  <2>2. /\ KindOf(t) = "request" /\ n \in Nat /\ t \in Threads
        /\ pc[t] \notin Recording /\ Take("request", n) /\ UNCHANGED <<lat, maxRace>>
    BY <1>a, <1>4
    DEF KindOf, Threads, RecordIpc, Call, Recording, Sampling, Adding
  <2>3. latency'[t] = n /\ \A s \in Threads \ {t} : latency'[s] = latency[s]
    BY <1>4, <2>2 DEF RecordIpc, With, TypeOK
  <2>4. Take(KindOf(t), n)
    BY <2>2
  <2> QED BY <2>1, <2>2, <2>3, <2>4, LatencyTaken
<1>5. ASSUME NEW t \in Threads, RecordLatency(t)
      PROVE  LatencyPart' /\ MaxPart'
  BY <1>5, LatencyAdded, MaximumKeepsSums, MaximumCompared, MaximumStored
  DEF RecordLatency
<1>6. CASE UNCHANGED telemetry
  <2>1. \A k, L : At(k, L)' = At(k, L)
    BY <1>6 DEF telemetry, At, KindOf
  <2>2. \A k : Units(k)' = Units(k)
    BY <1>6, <2>1, UnitsMove DEF telemetry
  <2>3. LatencyPart'
    BY <1>6, <2>1, <2>2 DEF telemetry, LatencyPart, Tally
  <2>4. MaxPart'
    BY <1>6, <2>1 DEF telemetry, MaxPart, MaxOf
  <2> QED BY <2>3, <2>4
<1> QED BY <1>1, <1>2, <1>3, <1>4, <1>5, <1>6
        DEF TelemetryStep, ClassifierBegins, ClassifierStep, HandlerBegins, HandlerStep,
            Threads

-----------------------------------------------------------------------------
(* The statistics of the DNS layer *)

\* Only GuardianTelemetryRecordDnsObserve counts an observation.
LEMMA OthersCountNoDns ==
  ASSUME TypeOK, CountPart,
         \/ \E c \in Classifiers : ClassifierBegins(c) \/ ClassifierStep(c)
         \/ \E h \in Handlers : HandlerBegins(h) \/ HandlerStep(h)
  PROVE  counts'["dns"] = counts["dns"]
<1>0. "dns" \in Counters
  BY DEF Counters
<1>1. ASSUME NEW c \in Classifiers, CountAction(c)
      PROVE  counts'["dns"] = counts["dns"]
  <2>1. Category(arg[c]) # "dns"
    BY DEF Category
  <2> QED BY <1>0, <1>1, <2>1 DEF CountAction, Count, TypeOK
<1> QED
  BY <1>0, <1>1
  DEF ClassifierBegins, ClassifierStep, HandlerBegins, HandlerStep, RecordClassify,
      RecordError, TestSample, RecordLatency, AddLatency, CountSample, CompareMax,
      StoreMax, RecordIpc, CountReject, ReadSamples, Divide, Count, TypeOK

\* The initialization and the handlers take no decision.
LEMMA ConfigureKeeps ==
  ASSUME DnsPart, Initialize \/ \E h \in Handlers : ConfigureStep(h)
  PROVE  /\ UNCHANGED <<telemetry, query, decided>>
         /\ \A c \in Classifiers : dnsPc'[c] = dnsPc[c]
<1>1. Classifiers \cap Handlers = {}
  BY TelemetryAssumption
<1>2. CASE Initialize
  BY <1>2 DEF Initialize, InitializeLock, ZeroConfig, SetDefaults, locals, dnsHistory
<1>3. ASSUME NEW h \in Handlers, ConfigureStep(h)
      PROVE  /\ UNCHANGED <<telemetry, query, decided>>
             /\ \E l : dnsPc' = [dnsPc EXCEPT ![h] = l]
  BY <1>3 DEF ConfigureStep, BeginSetConfig, CopyFlags, CopyExcluded, EndSetConfig,
              BeginGetStats, EndGetStats, Acquire, Release, DnsGoto, locals, dnsHistory
<1>4. ASSUME NEW h \in Handlers, ConfigureStep(h)
      PROVE  \A c \in Classifiers : dnsPc'[c] = dnsPc[c]
  BY <1>1, <1>3, <1>4 DEF DnsPart, Threads
<1> QED BY <1>2, <1>3, <1>4

\* Every step keeps the tally of the observations.
LEMMA ObservedStep ==
  ASSUME TypeOK, CountPart, DnsPart, ObservedPart, [DnsNext]_dnsVars
  PROVE  ObservedPart'
<1>0. TypeOK'
  BY TypeStep, DnsStepRecords
<1>a. "dns" \in Counters /\ "observed" \in Decisions
  BY DEF Counters, Decisions
<1>b. /\ counts["dns"] \in Nat /\ counts'["dns"] \in Nat
      /\ decided["observed"] \in Nat
      /\ Tally(Observing, counts["dns"], decided["observed"])
  BY <1>0, <1>a DEF TypeOK, DnsPart, ObservedPart
<1>1. ASSUME NEW c, decided'["observed"] \in Nat,
             \/ /\ Observing' = Observing /\ counts'["dns"] = counts["dns"]
                /\ decided'["observed"] = decided["observed"]
             \/ /\ c \notin Observing /\ Observing' = Observing \cup {c}
                /\ counts'["dns"] = counts["dns"]
                /\ decided'["observed"] = decided["observed"] + 1
             \/ /\ c \in Observing /\ Observing' = Observing \ {c}
                /\ counts'["dns"] = counts["dns"] + 1
                /\ decided'["observed"] = decided["observed"]
      PROVE  ObservedPart'
  <2>1. Tally(Observing', counts'["dns"], decided'["observed"])
    BY <1>b, <1>1, TallyOne
  <2> QED BY <2>1 DEF ObservedPart, Tally
<1>2. CASE Initialize \/ \E h \in Handlers : ConfigureStep(h)
  <2>1. /\ UNCHANGED <<telemetry, query, decided>>
        /\ \A c \in Classifiers : dnsPc'[c] = dnsPc[c]
    BY <1>2, ConfigureKeeps
  <2>2. Observing' = Observing
    BY <2>1 DEF Observing
  <2> QED BY <1>b, <1>1, <2>1, <2>2 DEF telemetry
<1>3. CASE UNCHANGED dns /\ counts'["dns"] = counts["dns"]
  <2>1. Observing' = Observing /\ decided' = decided
    BY <1>3 DEF Observing, dns, locals, dnsHistory
  <2> QED BY <1>b, <1>1, <1>3, <2>1
<1>4. ASSUME NEW c \in Classifiers, NEW l, dnsPc' = [dnsPc EXCEPT ![c] = l],
             NEW q, query' = [query EXCEPT ![c] = q]
      PROVE  /\ (Observes(l, q) <=> Observes(dnsPc[c], query[c])) =>
                  Observing' = Observing
             /\ Observes(l, q) /\ ~Observes(dnsPc[c], query[c]) =>
                  c \notin Observing /\ Observing' = Observing \cup {c}
             /\ ~Observes(l, q) /\ Observes(dnsPc[c], query[c]) =>
                  c \in Observing /\ Observing' = Observing \ {c}
  <2>1. \A u \in Classifiers \ {c} : query'[u] = query[u] /\ dnsPc'[u] = dnsPc[u]
    BY <1>4 DEF DnsPart, Threads
  <2>2. dnsPc'[c] = l /\ query'[c] = q
    BY <1>4 DEF DnsPart, Threads
  <2>3. /\ \A u : u \in Observing <=> u \in Classifiers /\ Observes(dnsPc[u], query[u])
        /\ \A u : u \in Observing' <=> u \in Classifiers /\ Observes(dnsPc'[u], query'[u])
    BY DEF Observing, Observes
  <2> QED BY <2>1, <2>2, <2>3
<1> USE DEF DnsGoto
<1>5. ASSUME NEW c \in Classifiers, NEW a \in Apps, BeginObserve(c, a)
      PROVE  ObservedPart'
  <2>1. /\ dnsPc[c] = "idle" /\ dnsPc' = [dnsPc EXCEPT ![c] = "enabled"]
        /\ query' = [query EXCEPT ![c] = [query[c] EXCEPT !.app = a]]
        /\ decided' = decided /\ counts' = counts
    BY <1>5 DEF BeginObserve, Acquire, telemetry, dnsHistory
  <2>2. Observing' = Observing
    BY <1>4, <2>1 DEF Observes
  <2> QED BY <1>b, <1>1, <2>1, <2>2
<1>6. ASSUME NEW c \in Classifiers, TestEnabled(c)
      PROVE  ObservedPart'
  <2>1. dnsPc[c] = "enabled" /\ counts' = counts
    BY <1>6 DEF TestEnabled, telemetry
  <2>2. CASE config.enabled
    <3>1. /\ dnsPc' = [dnsPc EXCEPT ![c] = "excluded"] /\ decided' = decided
          /\ query' = [query EXCEPT ![c] = query[c]]
      BY <1>6, <2>2 DEF TestEnabled, DnsPart
    <3>2. Observing' = Observing
      BY <1>4, <2>1, <3>1 DEF Observes
    <3> QED BY <1>b, <1>1, <2>1, <3>1, <3>2
  <2>3. CASE ~config.enabled
    <3>1. /\ dnsPc' = [dnsPc EXCEPT ![c] = "read"]
          /\ query' = [query EXCEPT
                         ![c] = [query[c] EXCEPT !.decision = "skippedDisabled"]]
          /\ decided'["observed"] = decided["observed"]
      BY <1>a, <1>6, <2>3 DEF TestEnabled, Decide, DnsPart
    <3>2. ~Observes("read", [query[c] EXCEPT !.decision = "skippedDisabled"])
          /\ ~Observes(dnsPc[c], query[c])
      BY <2>1 DEF Observes, DnsPart
    <3>3. Observing' = Observing
      BY <1>4, <3>1, <3>2
    <3> QED BY <1>b, <1>1, <2>1, <3>1, <3>3
  <2> QED BY <2>2, <2>3
<1>7. ASSUME NEW c \in Classifiers, TestExcluded(c)
      PROVE  ObservedPart'
  <2>1. PICK d \in {"skippedExcluded", "observed"} :
          /\ dnsPc[c] = "excluded" /\ counts' = counts
          /\ dnsPc' = [dnsPc EXCEPT ![c] = "read"]
          /\ query' = [query EXCEPT ![c] = [query[c] EXCEPT !.decision = d]]
          /\ decided' = [decided EXCEPT ![d] = @ + 1]
    BY <1>7 DEF TestExcluded, Decide, telemetry
  <2>2. [query[c] EXCEPT !.decision = d].decision = d
    BY DEF DnsPart
  <2>3. CASE d = "observed"
    <3>1. decided'["observed"] = decided["observed"] + 1
      BY <1>a, <2>1, <2>3 DEF DnsPart
    <3>2. c \notin Observing /\ Observing' = Observing \cup {c}
      BY <1>4, <2>1, <2>2, <2>3 DEF Observes
    <3>3. decided'["observed"] \in Nat
      BY <1>b, <3>1
    <3> QED BY <1>1, <2>1, <3>1, <3>2, <3>3
  <2>4. CASE d # "observed"
    <3>1. decided'["observed"] = decided["observed"]
      BY <1>a, <2>1, <2>4 DEF DnsPart
    <3>2. Observing' = Observing
      <4>1. /\ ~Observes("read", [query[c] EXCEPT !.decision = d])
            /\ ~Observes(dnsPc[c], query[c])
        BY <2>1, <2>2, <2>4 DEF Observes
      <4> QED BY <1>4, <2>1, <4>1
    <3> QED BY <1>b, <1>1, <2>1, <3>1, <3>2
  <2> QED BY <2>3, <2>4
<1>8. ASSUME NEW c \in Classifiers, ReadCount(c)
      PROVE  ObservedPart'
  <2>1. /\ dnsPc[c] = "read" /\ dnsPc' = [dnsPc EXCEPT ![c] = "write"]
        /\ query' = [query EXCEPT ![c] =
                       [query[c] EXCEPT !.count = stats[query[c].decision]]]
        /\ decided' = decided /\ counts' = counts
    BY <1>8 DEF ReadCount, telemetry, dnsHistory
  <2>2. Observes("write", [query[c] EXCEPT !.count = stats[query[c].decision]])
          <=> Observes(dnsPc[c], query[c])
    BY <2>1 DEF Observes, DnsPart
  <2>3. Observing' = Observing
    BY <1>4, <2>1, <2>2
  <2> QED BY <1>b, <1>1, <2>1, <2>3
<1>9. ASSUME NEW c \in Classifiers, WriteCount(c)
      PROVE  ObservedPart'
  <2>1. PICK l : /\ dnsPc[c] = "write" /\ dnsPc' = [dnsPc EXCEPT ![c] = l]
                 /\ l = IF query[c].decision = "observed" THEN "record" ELSE "idle"
                 /\ query' = [query EXCEPT ![c] = NoQuery]
                 /\ decided' = decided /\ counts' = counts
    BY <1>9 DEF WriteCount, Release, telemetry, dnsHistory
  <2>2. Observes(l, NoQuery) <=> Observes(dnsPc[c], query[c])
    BY <2>1 DEF Observes
  <2>3. Observing' = Observing
    BY <1>4, <2>1, <2>2
  <2> QED BY <1>b, <1>1, <2>1, <2>3
<1>10. ASSUME NEW c \in Classifiers, RecordObserved(c)
       PROVE  ObservedPart'
  <2>1. /\ dnsPc[c] = "record" /\ dnsPc' = [dnsPc EXCEPT ![c] = "idle"]
        /\ query' = [query EXCEPT ![c] = query[c]] /\ decided' = decided
        /\ counts'["dns"] = counts["dns"] + 1
    BY <1>a, <1>10
    DEF RecordObserved, RecordDnsObserve, Count, locals, dnsHistory, TypeOK,
        DnsPart
  <2>2. ~Observes("idle", query[c]) /\ Observes(dnsPc[c], query[c])
    BY <2>1 DEF Observes
  <2>3. c \in Observing /\ Observing' = Observing \ {c}
    BY <1>4, <2>1, <2>2
  <2> QED BY <1>b, <1>1, <2>1, <2>3
<1>11. CASE UNCHANGED dnsVars
  BY <1>3, <1>11 DEF dnsVars, telemetry
<1> QED BY <1>2, <1>3, <1>5, <1>6, <1>7, <1>8, <1>9, <1>10, <1>11, OthersCountNoDns
        DEF DnsNext, ObserveStep

\* Every step keeps the lock's promise, or has reset it under its holder.
LEMMA LockStep ==
  ASSUME DnsPart, RolePart, LockPart, [DnsNext]_dnsVars
  PROVE  LockPart'
<1> USE DEF dnsHistory, shared, locals, DnsGoto
<1>a. Nobody \notin Threads
  BY DnsAssumption
<1>1. CASE InitializeLock
  BY <1>a, <1>1 DEF InitializeLock, LockPart
<1>2. CASE ZeroConfig \/ SetDefaults
  BY <1>2 DEF ZeroConfig, SetDefaults, LockPart
<1>3. ASSUME NEW t \in Threads, NEW l, dnsPc' = [dnsPc EXCEPT ![t] = l],
             UNCHANGED <<setup, brokenIn>>,
             \/ dnsLock = Nobody /\ dnsLock' = t
             \/ dnsPc[t] \notin {"idle", "record"} /\ dnsLock' = dnsLock
             \/ dnsPc[t] \notin {"idle", "record"} /\ l \in {"idle", "record"}
             \/ l \in {"idle", "record"} /\ dnsLock' = dnsLock
      PROVE  LockPart'
  <2>1. \A u \in Threads : dnsPc'[u] = IF u = t THEN l ELSE dnsPc[u]
    BY <1>3 DEF DnsPart
  <2> QED BY <1>a, <1>3, <2>1 DEF LockPart
<1>4. ASSUME NEW h \in Handlers, ConfigureStep(h)
      PROVE  LockPart'
  <2>1. /\ UNCHANGED <<setup, brokenIn>> /\ h \in Threads
        /\ \E l : /\ dnsPc' = [dnsPc EXCEPT ![h] = l]
                  /\ \/ dnsLock = Nobody /\ dnsLock' = h
                     \/ dnsPc[h] \notin {"idle", "record"} /\ dnsLock' = dnsLock
                     \/ dnsPc[h] \notin {"idle", "record"} /\ l \in {"idle", "record"}
    BY <1>4 DEF ConfigureStep, BeginSetConfig, CopyFlags, CopyExcluded, EndSetConfig,
                BeginGetStats, EndGetStats, Acquire, Release, Threads
  <2> QED BY <1>3, <2>1
<1>5. ASSUME NEW c \in Classifiers, ObserveStep(c)
      PROVE  LockPart'
  <2>1. /\ UNCHANGED <<setup, brokenIn>> /\ c \in Threads
        /\ \E l : /\ dnsPc' = [dnsPc EXCEPT ![c] = l]
                  /\ \/ dnsLock = Nobody /\ dnsLock' = c
                     \/ dnsPc[c] \notin {"idle", "record"} /\ dnsLock' = dnsLock
                     \/ dnsPc[c] \notin {"idle", "record"} /\ l \in {"idle", "record"}
                     \/ l \in {"idle", "record"} /\ dnsLock' = dnsLock
    BY <1>5 DEF ObserveStep, BeginObserve, TestEnabled, TestExcluded, Decide, ReadCount,
                WriteCount, RecordObserved, Acquire, Release, Threads
  <2> QED BY <1>3, <2>1
<1>6. CASE UNCHANGED dns
  BY <1>6 DEF dns, LockPart
<1> QED BY <1>1, <1>2, <1>4, <1>5, <1>6 DEF DnsNext, Initialize, dnsVars

\* Every step keeps the statistics and the decisions together.
LEMMA StatsStep ==
  ASSUME DnsPart, RolePart, LockPart, StatsPart, [DnsNext]_dnsVars
  PROVE  StatsPart'
<1> USE DEF dnsHistory, shared, locals, DnsGoto
<1>1. CASE Initialize \/ \E h \in Handlers : ConfigureStep(h)
  <2>1. /\ UNCHANGED <<query, decided>> /\ \A c \in Classifiers : dnsPc'[c] = dnsPc[c]
    BY <1>1, ConfigureKeeps
  <2>2. /\ stats' = stats /\ (setup' # "done" => setup # "done")
        /\ ~brokenIn' => ~brokenIn
    <3>1. CASE Initialize
      BY <3>1 DEF Initialize, InitializeLock, ZeroConfig, SetDefaults, LockPart, StatsPart
    <3>2. ASSUME NEW h \in Handlers, ConfigureStep(h)
          PROVE  UNCHANGED <<stats, setup, brokenIn>>
      BY <3>2 DEF ConfigureStep, BeginSetConfig, CopyFlags, CopyExcluded, EndSetConfig,
                  BeginGetStats, EndGetStats
    <3> QED BY <1>1, <3>1, <3>2
  <2>3. \A d \in Decisions : Counting(d)' = Counting(d)
    BY <2>1 DEF Counting
  <2> QED BY <2>1, <2>2, <2>3 DEF StatsPart
<1>2. CASE UNCHANGED dns
  BY <1>2 DEF dns, StatsPart, Counting
<1>3. ASSUME NEW c \in Classifiers, ObserveStep(c)
      PROVE  StatsPart'
  <2>1. setup = "done" /\ UNCHANGED <<setup, brokenIn>>
    BY <1>3 DEF ObserveStep, BeginObserve, TestEnabled, TestExcluded, ReadCount,
                WriteCount, RecordObserved, StatsPart
  <2> SUFFICES ASSUME ~brokenIn
               PROVE  /\ \A d \in Decisions :
                           decided'[d] = stats'[d] + IF Counting(d)' THEN 1 ELSE 0
                      /\ \A u \in Classifiers :
                           dnsPc'[u] = "write" => query'[u].count = stats'[query'[u].decision]
    BY <2>1 DEF StatsPart
  <2>2. /\ \A d \in Decisions : decided[d] = stats[d] + IF Counting(d) THEN 1 ELSE 0
        /\ \A u \in Classifiers :
             dnsPc[u] = "write" => query[u].count = stats[query[u].decision]
        /\ \A d \in Decisions : stats[d] \in Nat /\ decided[d] \in Nat
    BY DEF StatsPart, DnsPart
  <2>3. \A u \in Classifiers : dnsPc[u] \notin {"idle", "record"} => dnsLock = u
    BY DEF LockPart, Threads
  \* Where nobody is counting, before or after
  <2>4. ASSUME NEW l, l \notin {"read", "write"}, dnsPc' = [dnsPc EXCEPT ![c] = l],
               \A u \in Classifiers : dnsPc[u] \notin {"read", "write"},
               UNCHANGED <<stats, decided>>
        PROVE  /\ \A d \in Decisions :
                    decided'[d] = stats'[d] + IF Counting(d)' THEN 1 ELSE 0
               /\ \A u \in Classifiers :
                    dnsPc'[u] = "write" => query'[u].count = stats'[query'[u].decision]
    <3>1. \A u \in Classifiers : dnsPc'[u] \notin {"read", "write"}
      BY <2>4 DEF DnsPart, Threads
    <3>2. \A d \in Decisions : ~Counting(d) /\ ~Counting(d)'
      BY <2>4, <3>1 DEF Counting
    <3> QED BY <2>2, <2>4, <3>1, <3>2
  <2>5. ASSUME NEW a \in Apps, BeginObserve(c, a)
        PROVE  /\ dnsPc' = [dnsPc EXCEPT ![c] = "enabled"]
               /\ \A u \in Classifiers : dnsPc[u] \notin {"read", "write"}
               /\ UNCHANGED <<stats, decided>>
    <3>1. dnsLock = Nobody /\ Nobody \notin Classifiers
      BY <2>5, DnsAssumption DEF BeginObserve, Acquire, Threads
    <3> QED BY <2>3, <2>5, <3>1 DEF BeginObserve, Acquire
  <2>6. ASSUME dnsPc[c] \in {"enabled", "excluded"}
        PROVE  \A u \in Classifiers : dnsPc[u] \notin {"read", "write"}
    BY <2>3, <2>6
  <2>7. ASSUME NEW d \in Decisions, Decide(c, d), stats' = stats,
               dnsPc[c] \in {"enabled", "excluded"}
        PROVE  /\ \A e \in Decisions :
                    decided'[e] = stats'[e] + IF Counting(e)' THEN 1 ELSE 0
               /\ \A u \in Classifiers :
                    dnsPc'[u] = "write" => query'[u].count = stats'[query'[u].decision]
    <3>1. /\ dnsPc'[c] = "read" /\ query'[c].decision = d
          /\ \A u \in Classifiers \ {c} : dnsPc'[u] = dnsPc[u]
          /\ \A e \in Decisions : decided'[e] = IF e = d THEN decided[e] + 1 ELSE decided[e]
      BY <2>7 DEF Decide, DnsPart, Threads
    <3>2. \A u \in Classifiers \ {c} : dnsPc'[u] \notin {"read", "write"}
      BY <2>6, <2>7, <3>1
    <3>3. \A e \in Decisions : ~Counting(e) /\ (Counting(e)' <=> e = d)
      BY <2>6, <2>7, <3>1, <3>2 DEF Counting
    <3> QED BY <2>2, <2>7, <3>1, <3>2, <3>3
  <2>8. CASE TestEnabled(c)
    <3>1. CASE config.enabled
      <4>1. /\ dnsPc' = [dnsPc EXCEPT ![c] = "excluded"] /\ dnsPc[c] = "enabled"
            /\ UNCHANGED <<stats, decided>>
        BY <2>8, <3>1 DEF TestEnabled
      <4> QED BY <2>4, <2>6, <4>1
    <3>2. CASE ~config.enabled
      BY <2>7, <2>8, <3>2 DEF TestEnabled, Decisions
    <3> QED BY <3>1, <3>2
  <2>9. CASE TestExcluded(c)
    BY <2>7, <2>9 DEF TestExcluded, Decisions
  <2>10. CASE ReadCount(c)
    <3>1. /\ dnsPc[c] = "read" /\ dnsPc'[c] = "write"
          /\ \A u \in Classifiers \ {c} : dnsPc'[u] = dnsPc[u] /\ query'[u] = query[u]
          /\ query'[c].decision = query[c].decision
          /\ query'[c].count = stats[query[c].decision]
          /\ UNCHANGED <<stats, decided>>
      BY <2>10 DEF ReadCount, DnsPart, Threads
    <3>2. \A d \in Decisions : Counting(d)' <=> Counting(d)
      BY <3>1 DEF Counting
    <3> QED BY <2>2, <3>1, <3>2
  <2>11. CASE WriteCount(c)
    <3>1. PICK e \in Decisions : e = query[c].decision
      BY DEF DnsPart
    <3>2. /\ dnsPc[c] = "write" /\ dnsPc'[c] \in {"idle", "record"}
          /\ \A u \in Classifiers \ {c} : dnsPc'[u] = dnsPc[u]
          /\ stats' = [stats EXCEPT ![e] = query[c].count + 1] /\ decided' = decided
      BY <2>11, <3>1 DEF WriteCount, Release, DnsPart, Threads
    <3>3. \A u \in Classifiers \ {c} : dnsPc[u] \notin {"read", "write"}
      BY <2>3, <3>2
    <3>4. \A d \in Decisions : ~Counting(d)' /\ (Counting(d) <=> d = e)
      BY <3>1, <3>2, <3>3 DEF Counting
    <3>5. \A d \in Decisions : stats'[d] = IF d = e THEN stats[e] + 1 ELSE stats[d]
      BY <2>2, <3>1, <3>2 DEF DnsPart
    <3> QED BY <2>2, <3>2, <3>3, <3>4, <3>5
  <2>12. CASE RecordObserved(c)
    <3>1. /\ dnsPc[c] = "record" /\ dnsPc'[c] = "idle"
          /\ \A u \in Classifiers \ {c} : dnsPc'[u] = dnsPc[u]
          /\ UNCHANGED <<stats, decided, query>>
      BY <2>12 DEF RecordObserved, DnsPart, Threads
    <3>2. \A d \in Decisions : Counting(d)' <=> Counting(d)
      BY <3>1 DEF Counting
    <3> QED BY <2>2, <3>1, <3>2
  <2> QED BY <1>3, <2>4, <2>5, <2>8, <2>9, <2>10, <2>11, <2>12 DEF ObserveStep
<1> QED BY <1>1, <1>2, <1>3 DEF DnsNext, dnsVars

-----------------------------------------------------------------------------
(* The theorem of the statistics *)

\* Nothing is counted and nothing missing at first.
LEMMA StatisticsInitially == DnsInit => StatisticsInv
<1> SUFFICES ASSUME DnsInit PROVE StatisticsInv
  OBVIOUS
<1>a. Init /\ \A t \in Threads : pc[t] = "idle" /\ dnsPc[t] = "idle"
  BY DEF DnsInit, Init
<1>1. CountPart
  <2>1. \A k \in Counters : Owing(k) = {} /\ counts[k] = 0 /\ due[k] = 0
    BY <1>a DEF Owing, Init
  <2> QED BY <1>a, <2>1, TallyEmpty DEF CountPart, Threads
<1>2. \A k \in Kinds : \A L : "idle" \notin L => At(k, L) = {}
  BY <1>a DEF At
<1>3. \A k \in Kinds : /\ lat[k].sum = 0 /\ lat[k].samples = 0 /\ lat[k].max = 0
                       /\ taken[k] = lat[k]
  BY <1>a DEF Init
<1>4. LatencyPart
  <2>1. ASSUME NEW k \in Kinds
        PROVE  Units(k) = {} /\ At(k, Sampling) = {}
    BY <1>2 DEF Units, Sampling, Adding
  <2> QED BY <1>3, <2>1, TallyEmpty DEF LatencyPart
<1>5. MaxPart
  <2>1. ASSUME NEW k \in Kinds
        PROVE  At(k, Recording) = {} /\ At(k, {"store_max"}) = {}
    BY <1>2 DEF Recording, Sampling, Adding
  <2> QED BY <1>3, <2>1 DEF MaxPart, MaxOf
<1>6. ObservedPart
  <2>1. Observing = {}
    BY <1>a DEF Observing, Observes, Threads
  <2>2. counts["dns"] = 0 /\ decided["observed"] = 0
    BY <1>a DEF Init, DnsInit, NoStats, Counters, Decisions
  <2> QED BY <2>1, <2>2, TallyEmpty DEF ObservedPart
<1>7. LockPart
  BY <1>a DEF LockPart, DnsInit
<1>8. StatsPart
  <2>1. \A d \in Decisions : ~Counting(d)
    BY <1>a DEF Counting, Threads
  <2>2. /\ stats = NoStats /\ decided = NoStats
        /\ \A d \in Decisions : NoStats[d] = 0
    BY DEF DnsInit, NoStats
  <2> QED BY <1>a, <2>1, <2>2 DEF StatsPart, Threads
<1> QED BY <1>1, <1>4, <1>5, <1>6, <1>7, <1>8 DEF StatisticsInv

\* Between calls nothing is missing.
LEMMA StatisticsQuiet == DInv /\ StatisticsInv => StatisticsMatchCalls
<1> SUFFICES ASSUME DInv, StatisticsInv PROVE StatisticsMatchCalls
  OBVIOUS
<1>0. TypeOK /\ DnsPart
  BY DEF DInv, SInv
<1>1. CountersMatchCalls
  <2> SUFFICES ASSUME Quiet
               PROVE  /\ counts = due
                      /\ \A k \in Kinds :
                           /\ lat[k].sum = taken[k].sum
                           /\ lat[k].samples = taken[k].samples
                           /\ k \in maxRace \/ lat[k].max = taken[k].max
    BY DEF CountersMatchCalls
  <2>1. counts = due
    <3>1. ASSUME NEW k \in Counters PROVE counts[k] = due[k]
      <4>1. Owing(k) = {}
        BY DEF Quiet, Owing
      <4>2. counts[k] \in Nat /\ due[k] \in Nat
        BY <1>0 DEF TypeOK
      <4>3. Tally({}, counts[k], due[k])
        BY <4>1 DEF StatisticsInv, CountPart
      <4> QED BY <4>2, <4>3, TallyEmpty
    <3> QED BY <1>0, <3>1 DEF TypeOK
  <2>2. ASSUME NEW k \in Kinds
        PROVE  /\ lat[k].sum = taken[k].sum
               /\ lat[k].samples = taken[k].samples
               /\ k \in maxRace \/ lat[k].max = taken[k].max
    <3>1. At(k, Adding) = {} /\ At(k, Sampling) = {} /\ At(k, Recording) = {}
      BY DEF Quiet, At, Adding, Sampling, Recording
    <3>2. Units(k) = {}
      BY <3>1 DEF Units
    <3>3. /\ Tally({}, lat[k].sum, taken[k].sum)
          /\ Tally({}, lat[k].samples, taken[k].samples)
      BY <3>1, <3>2 DEF StatisticsInv, LatencyPart
    <3>4. k \in maxRace \/ lat[k].max = taken[k].max
      BY <3>1 DEF StatisticsInv, MaxPart, MaxOf
    <3> QED BY <1>0, <3>3, <3>4, TotalsTypes, TallyEmpty
  <2> QED BY <2>1, <2>2
<1>2. ASSUME DnsQuiet
      PROVE  counts["dns"] = decided["observed"]
  <2>1. Observing = {}
    BY <1>2 DEF DnsQuiet, Observing, Observes, Threads
  <2>2. counts["dns"] \in Nat /\ decided["observed"] \in Nat
    BY <1>0 DEF TypeOK, DnsPart, Counters, Decisions
  <2>3. Tally({}, counts["dns"], decided["observed"])
    BY <2>1 DEF StatisticsInv, ObservedPart
  <2> QED BY <2>2, <2>3, TallyEmpty
<1>3. ASSUME DnsQuiet, ~brokenIn
      PROVE  stats = decided
  <2>1. \A d \in Decisions : ~Counting(d)
    BY <1>3 DEF DnsQuiet, Counting, Threads
  <2>2. \A d \in Decisions : stats[d] \in Nat /\ decided[d] = stats[d] + 0
    BY <1>0, <1>3, <2>1 DEF StatisticsInv, StatsPart, DnsPart
  <2> QED BY <1>0, <2>2 DEF DnsPart
<1> QED BY <1>1, <1>2, <1>3 DEF StatisticsMatchCalls

\* Between calls every counter of telemetry.c is what the calls had to count,
\* every total is that of the latencies taken and the maximum the longest of them
\* unless two calls raced for it; every decision of GuardianDnsLayerShouldObserve
\* is counted once unless the lock was reset under its holder, and every
\* observation by the telemetry in any case.
THEOREM StatisticsMatchCallsHolds == DnsSpec => []StatisticsMatchCalls
<1>1. DnsInit => DInv /\ StatisticsInv
  BY DnsInitially, StatisticsInitially
<1>2. DInv /\ StatisticsInv /\ [DnsNext]_dnsVars => DInv' /\ StatisticsInv'
  <2> SUFFICES ASSUME DInv, StatisticsInv, [DnsNext]_dnsVars
               PROVE  DInv' /\ StatisticsInv'
    OBVIOUS
  <2>1. DInv' /\ [TelemetryStep]_telemetry
    BY DnsStep, DnsStepRecords
  <2>2. TypeOK /\ DnsPart /\ RolePart
    BY DEF DInv, SInv
  <2>3. CountPart' /\ LatencyPart' /\ MaxPart'
    BY <2>1, <2>2, CountStep, LatencyStep DEF StatisticsInv
  <2>4. ObservedPart' /\ LockPart' /\ StatsPart'
    BY <2>2, ObservedStep, LockStep, StatsStep DEF StatisticsInv
  <2> QED BY <2>1, <2>3, <2>4 DEF StatisticsInv
<1> QED BY <1>1, <1>2, StatisticsQuiet, PTL DEF DnsSpec
=============================================================================
