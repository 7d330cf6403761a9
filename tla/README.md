# A TLA+ model of WireSentinel-Kernel

WireSentinel-Kernel is a Windows kernel driver ("Guardian") that enforces, at WFP
classify time, what a usermode service ("Core") decides: a kill switch, a policy per
application and a route per application. This directory holds a formal model of the
driver: TLA+ modules translated from `driver/`, TLC configurations that check them on
small instances, and proofs, for every instance, of all the safety properties those runs
check, the refinement of the route table included. `PROJECT.json` lists the runs, the map from definitions to source lines, the
hazards, the findings and the theorems.

## 1. Inventory

| Component | Source | State | Operations | Model |
|---|---|---|---|---|
| Route table | `driver/route/` | `g_RouteList`, `g_RouteLock`, `g_RouteCount`, pool blocks | set, clear, sync, lookup, initialize, shutdown | `RouteTable`, `RouteMap` |
| Policy table | `driver/policy/` | `g_PolicyList`, its lock and count | set, sync, lookup (remove: no caller) | `PolicyList`, `PolicyTable` |
| Kill switch | `driver/killswitch/` | mode, VPN interface, lock | initialize from the registry, set, get mode, evaluate | `KillSwitchModes`, `KillSwitch` |
| Classification | `driver/classify/`, `driver/callouts/` | none of its own: locals and `FWPS_CLASSIFY_OUT0` | classify a connection, answer the engine, record it | `Classify` |
| Driver life cycle | `driver/guardian/`, `driver/state/`, `driver/recovery/`, registration in `driver/callouts/` | `g_GuardianDriverState`, generation, registered callouts | entry, device, registration, unload, import state, copy of the driver state (export and reconcile only read) | `Lifecycle` |
| Caller verification | `driver/ipc/security.c` | `g_GuardianAllowedServicePid` | verify a caller | `IoctlDispatch` |
| Hybrid coordinator | `driver/filters/` | mode, coordinator flag, NDIS filter count | set mode, poll, combined count | `HybridMode` |
| IOCTL dispatch | `driver/ipc/` | none | verify the caller, validate buffers, call one component, record, complete | `IoctlDispatch`, and the request actions of each module |
| Telemetry | `driver/telemetry/` | counters, latency sums, samples and maxima | record connections, requests, errors and observations; sample; read | `Telemetry` |
| DNS observation | `driver/callouts/dns_observe.c` | configuration, statistics, lock | initialize, configure, read, decide (the decision has no caller yet) | `DnsObserve` |
| Usermode controller | `usermode/` | a handle | one IOCTL per call | requests are inputs |
| Shared protocol | `shared/` | none | request codes, layouts | codes in `IoctlDispatch` |
| Build, scripts | project files | none | none | not modelled |

**How they interact.** The IOCTL queue is parallel: any number of requests run at the
same time, in one another's way and in the way of classify threads, which the filter
engine calls on its own threads at dispatch level. Components share no lock: each table
has its own spin lock, and `g_GuardianDriverState`, the mode of the hybrid coordinator,
the recovery generation and the allowed process id have none. A connection is classified
by reading kill switch, policy table and route table one after the other. The device
accepts requests from the middle of `DriverEntry` on.

**What is hard about it.**

- A sync empties its table under the lock, then runs the table's *initialize* function,
  which overwrites list head, lock word and count without the lock.
- A set prepares its entry before it knows whether it needs it: three exits, each of
  which must give the block back or hand it over.
- The three reads of a classification are not one: tables change between them.
- Mode, interface and report of the kill switch are separate words.
- `DriverEntry` can fail at each of its steps, with callouts already registered, while
  requests come in.
- The first caller is remembered by process id; processes exit and ids are reused.
- A mode change is eight or more unlocked accesses to shared words.
- The validation of a request and the switch that serves it are two lists of codes,
  which have to agree on what each code needs.
- Statistics mix interlocked additions with a maximum that is compared and stored in two
  accesses, and averages whose divisor is read twice.
- The DNS layer is initialized, its lock included, while requests may already use it.
- The driver state is copied for a client while its fields are stored one by one.

**What makes each component correct** is stated at the end of its module, under
"Properties". The route table has in addition an abstract specification of its promise,
`RouteMap`.

## 2. Modules

| Module | Role |
|---|---|
| `RouteMap` | abstract specification: a bounded map with indivisible operations |
| `RouteTable` | the table at lock granularity; implements `RouteMap` |
| `RouteTableProofs` | its inductive invariant, six theorems, and the refinement of `RouteMap` |
| `KillSwitchModes` | pure operators: what modes, requests and verdicts mean; used by three modules |
| `KillSwitch` | the switch, access by access |
| `KillSwitchProofs` | the lock keeps mode and interface together, three theorems |
| `PolicyList` | pure operators on the ordered list; used by two modules |
| `PolicyTable` | the table at lock granularity, with a reference for what a sync installs (`Installs`) |
| `PolicyTableProofs` | what sets and syncs leave, four theorems |
| `Classify` | composes kill switch, policies and routes with the threads that read them |
| `ClassifyProofs` | what a decision is worth while tables change, four theorems |
| `Lifecycle` | load, failure, unload, crash, and the requests in between |
| `LifecycleProofs` | callouts, tables, generations and copies over any number of loads, six theorems |
| `IoctlDispatch` | a request from the check of its caller over the validation of its buffers to its completion |
| `IoctlDispatchProofs` | sessions, buffers and records, five theorems |
| `Telemetry` | every counter and latency, access by access, with their readers |
| `DnsObserve` | the DNS layer, composed with the telemetry it reports to |
| `DnsObserveProofs` | types, samples, statistics and configuration, five theorems |
| `HybridMode` | mode changes without a lock |
| `HybridModeProofs` | what overlapping and lone changes leave, three theorems |
| `MC*` | instances for TLC |

Definitions named `Bad...` are altered forms of the definition that follows them. They
are used by no specification; substituting one for its original must make TLC report a
violation, which shows that the property in question depends on that piece of code.

### Correspondence with the code

*RouteTable.* A thread is a program counter (`pc`) in `GuardianRouteSet`, `Clear`,
`Lookup` or `Sync`. Labels are the points at which another thread can intervene: before
and after the lock is taken, between the find and its use, before the lock is released,
between release and free, and between the three assignments of
`GuardianRouteInitialize`. `entry` is the block a call owns. A single set is a sync of
one route that skips the emptying, which is how the code is written: `GuardianRouteSync`
calls `GuardianRouteSet` in a loop. Entries are linked or not (`listed`); the order of
this list has no meaning to its readers, since an application has one entry.

The unlocked re-initialization is part of the model. `overlap` becomes true when another
thread takes the lock while some thread is between the release after the emptying and
the end of the initialization. From then on the real list may be corrupted in ways a set
cannot express, so the model goes on but no property claims anything: each says
`overlap \/ ...`, and `RouteMap` has the step `Void`. What is shown is that this window is
the *only* hole: without it, lock, list, counter and pool agree.

In `RouteMap` a lookup is two steps, `Ask` for an application and `Answer` with the route
that application has at that moment; in the table they are the call and the copy under the
lock, and the application asked for is the one the call carries (`AskedFor`). The map says
when a set may succeed. It does not say when one may fail: an allocation can fail at any
time, so refusing is a step that changes nothing.

*KillSwitch.* Every read and write of a shared word is a step. `window`, `installed` and
`recent` are history: which pairs were in place during an evaluation, which modes since
the last quiet moment. `GuardianKillSwitchInitialize` is `Init`: the registry query
either delivers its value or leaves the default. As the code stands it always leaves the
default, since `killswitch.c:45-51` passes four bytes for a `KeyValuePartialInformation`,
which has a header of twelve. The model is wider than the code here on purpose: what is
shown of the start-up also holds with a query that works.

*PolicyTable.* As in the route table, a thread is a program counter, the lock is a word,
and labels are the points at which another thread can intervene; the emptying is one
critical section, and `GuardianAppPolicyInitialize` is three stores outside any. The list
is a sequence, since its order decides lookups, and `g_PolicyCount` is a variable of its
own: after a raced re-initialization the two differ, and the limit is on the counter.
`overlap` has the meaning it has in `RouteTable`, and excuses the same: from then on the
list may be corrupted in ways a sequence cannot express. A lookup only holds the lock here;
what it finds is in `PolicyList` and `Classify`. An allocation may fail; the blocks
themselves are followed in the route table, whose code has the same exits.
`batch`, `status` and `alone` are history for comparing a sync
with its reference: `Installs(list, b, k)` says, without running the loop, that `list` is
what the first `k` policies of `b` leave in an empty table: the applications in order of
first mention, each with its last policy.

*Classify.* Each of the three table reads is a step, each change of a table is a step.
That these are indivisible is what `KillSwitch` (`SnapshotIsInstalled`), `PolicyTable` and
`RouteTable` (`ImplementsRouteMap`) establish. `instants` records what the tables would
have said if read together, at the arrival and after every change.

*Lifecycle.* `DriverEntry` is one step per call that can fail or store that others can
see; before the device exists nobody can see anything, so the initialization is one step.
`GuardianRecoveryManagerBegin` is four steps because requests may already run: it reads the
generation, stores the next one, reports it through `GuardianStateManagerSetRecoveryGeneration`
and reports it again. Outside
the driver: the filter engine refuses a callout key that is still registered; the
framework calls the unload callback only of a driver whose entry succeeded; a crash
restarts the engine as well. A request is one step here; overlapping ones are the
subject of `KillSwitch` and `HybridMode`. An import is two steps, the generation and the
report, of two importing threads. GET_DRIVER_STATE takes the life cycle state, the number
of callouts and the error one at a time, in any order, since `RtlCopyMemory` promises
none; `seen` is what the caller's copy before said. After a failed entry the framework
closes the device, lets the requests in it end and removes the image; the unload callback,
too, runs only when no request is under way.

*IoctlDispatch.* The check and the store of the remembered process id are two steps;
processes start and exit in between, and ids come back. A process lives until its
requests are completed. A request has one of the fifteen codes or another one, and an
input and an output buffer that are missing, too short for the code, long enough or over
the limit. A batch may also end behind its header: the validation asks for the header and
limits the count it announces, the switch reads as many entries. `unmet` collects the codes
that were served without all the switch uses. `IsValid` is `GuardianValidateIoctlBuffer`, `HasOutput` the comparison its
caller makes, and `Uses` what the switch then does with the buffers; RECONCILE's input,
which the switch passes on and nothing reads, is not part of it. `GuardianPerfRecordIpc` is one
step here. `racing`, `orphaned` and `reused` are history: they name the interleavings the
code does not protect against, and nothing else excuses a property.

*Telemetry.* Every access to `g_Telemetry` that others can see is a step: each interlocked
increment or addition, the test of the sampling mask, the comparison and the store of a
maximum, and the two reads of the number of samples in `GuardianTelemetryGet` and
`GuardianPerfStatsGet`. Counters do not wrap: 2^64 calls are out of reach. `due` and
`taken` are history: what the calls begun so far have to count, and the latencies they
decided to record; `maxRace` names the maxima that two calls raised at once.

*DnsObserve.* Extends `Telemetry`; a thread is in one call at a time. The spin lock is a
word that `GuardianDnsLayerInitialize` overwrites, like configuration and statistics,
without taking it, after the device was opened. `RtlCopyMemory` of a configuration is two
steps, and the increment of a statistic a load and a store, since a reset lock keeps
nobody out. The callouts that would call `GuardianDnsLayerShouldObserve` are registered
after the initialization, so classifying threads start then; the driver does not make the
call yet (`docs/callouts.md:11`, "observe-only (Phase 8-I)"), so what the runs say about
decisions is about that function, not about today's traffic. `unsettled` and `brokenIn`
are history: the last set overlapped another or the initialization; the lock was
initialized while it was held.

*HybridMode.* `GuardianHybridSetMode`, `GuardianHybridPollNdisState` and
`GuardianHybridGetCombinedFilterCount`, one access per step. A failing query of the NDIS
driver leaves the last count. The mode is compared twice and may be read twice: the
compiler decides, and the model allows both.

## 3. Runs

Each run is `tlc -config <cfg> <module>`.

| Run | What it shows |
|---|---|
| `route_table` | lock word, list, counter, pool and the entry a thread has found agree in every interleaving of two changing threads, and their changes implement the map |
| `route_table_progress` | with a classifying thread, a lookup returns the route the map holds for the application it was called for, and a waiting thread is never left with a lock nobody holds |
| `kill_switch` | an evaluation never joins the mode of one request with the interface of another; a quiet report is one of the last requests' |
| `policy_table` | one policy per application, counter and limit, the list order as priority, until the lock is taken during a re-initialization; an undisturbed sync leaves its batch or a prefix |
| `classify` | the kill switch holds against everything; a change of one table is seen as one; every connection is recorded as it is answered |
| `lifecycle` | Running and Recovering mean four registered callouts over live tables; callouts are left behind only by a start that failed half-way; the generations kept and reported agree unless an import overlapped; a copy of the state that follows a settled one is complete |
| `ioctl_dispatch` | callers of one session only, apart from id reuse and a tie of first callers, both named in the property; a caller of that session is refused only once the remembered process is gone; what the switch uses was validated, but for the entries of a batch; every request recorded once whatever path it took |
| `observation` | every counter, sum and DNS statistic is what the calls had to count, apart from a tie of maxima and a lock reset under its holder; averages never divide by zero; the DNS configuration is the one set last and always observe-only |
| `hybrid_mode` | overlapping mode changes end in a requested mode, and a lone one repairs what an overlap left |

### Disagreements between the code and what is said about it

Three runs expect a violation. Each checks one sentence of the documentation, quoted in
the property's comment and under "findings".

| Run | Said | Done |
|---|---|---|
| `classify_vpn` | AllowVpnOnly permits the VPN interface | the interface is never read from the connection; everything is blocked |
| `lifecycle_persist` | the kill switch is persisted | nothing writes the registry, and a reload comes up without the mode set |
| `telemetry_sampling` | each classify records sampled latency | the condition tests the number of samples, which only a sample changes: after the first it never holds again, and the reported average is that of the first connections |

Others can be read off the models without a run:

- `docs/recovery.md:8` "Core service restart | ... policies re-imported via IOCTL": once the
  remembered process has exited, every other one is refused, and nothing replaces it
  (`CompareSession`; hence `orphaned` in `RefusedOnlyOnceOrphaned`, which fails without it).
- `docs/architecture.md:25` "Per-app policy table": a lookup takes the first ProcessPath
  policy for any connection with an application id and does not compare the path
  (`app_policy.c:183`, `Matching` in `PolicyList`).
- `docs/security.md:22` claims bounds validation: of the two batches the header is
  validated and not that the entries it announces are there (`IsValid` and `Uses` in
  `IoctlDispatch`; `ServedHasBuffers` fails without its exception).
- A policy or route set while a sync re-initializes its table may be lost, and the counter
  left below the list (`overlap`); the properties of both tables fail without it.
- A DNS configuration that is accepted before or during `GuardianDnsLayerInitialize` is
  lost or mixed with the defaults (`unsettled` in `ConfigSettles`), and increments are
  lost when the lock is initialized under its holder (`brokenIn` in
  `StatisticsMatchCalls`); both properties fail without their exception.
- A single copy of the driver state may say Recovering with no callouts, or Failed without
  an error; `SecondCopyIsComplete` is what a client can rely on.
- `docs/callouts.md:37` "BLOCK + ABSORB": `GuardianClassifyReset` drops the write right
  first, so the absorb flag is never set (`Reset` and `Answer` in `Classify`); and a route
  of kind Vpn, Tailnet, Tor, Proxy, Anonymous or Chain replaces a Block policy (`Routed`).
- `docs/ipc.md:47` "rejects unknown versions": a sync does so after it emptied the table
  (`Drain` before `SetFails` in `PolicyTable`).
- `docs/recovery.md:7` "`RecoveryGeneration++`": the generation is lost with the image, so
  a load ends with 1 unless a state is imported (`Load`, `BeginRead` in `Lifecycle`).
- `docs/recovery.md:9`, `RECONCILE` "removes unknown filter IDs": `GuardianRecoveryReconcile`
  ignores them and changes nothing.
- `usermode/tests/src/lib.rs:28` expects Running or Recovering of any driver it can
  connect to; requests are served while the state is Starting (`CreateDevice`).
- The three tables are read one after the other, so that changes of two of them during a
  classification can permit what they block at every single instant; hence
  `OneTableChangeIsAtomic` speaks of one table.

### Bounds, and why they are enough

- *Threads.* Two that change a table: every property is about one thread's view being
  disturbed by another. In `route_table_progress` one of the two is a reader.
- *Route table.* Three applications, table of two, pool of three: a full table, a
  replacement in a full table, an exhausted pool and a set that still owns a block while
  the other two are linked all occur. `UInt32Max = 7` is far above what the counter can
  reach legally, and near enough that a wrapped counter is seen. Batches are empty or of
  two different applications; an allocation may fail at any of them. The run
  with a reader has a table of one and two applications.
- *Policy table.* Two changing threads and a reader. A table of two; a batch that repeats an
  application, one that overflows the table, one with an unknown version half-way.
- *Kill switch.* One request of each kind the client can send; stored values up to one
  past the last mode. Interfaces none and one.
- *Classify.* One classifier, since classifiers share no state; connections with and
  without application id and fixed values.
- *Lifecycle.* Any number of loads: a load meets what earlier ones left behind.
  Generations wrap at 4, imported ones include the last before the wrap. Stored mode 4 is
  unknown to the driver, and so is the imported mode 9. Two threads for requests of more
  than one step: two imports, or an import and a copy.
- *IoctlDispatch.* Two handlers, three process ids, two sessions: a remembered process, one
  beside it and one of the other session; ids are reused without bound. Three requests, so
  that a third meets what two racing ones left. All codes and sizes.
- *Telemetry and DnsObserve.* Two threads of each kind. Three calls that record, decide or
  configure (reads are not counted): a set that holds the lock over its initialization and
  two observations, or three samples by two threads. Latencies of one and two, so that a
  maximum can be raised twice and overtaken. `SampleMask = 3` stands for 0xFF: above the
  number of threads, as in any machine with fewer than 256 processors. One configuration
  that observes one of two applications, one that is off.
- *HybridMode.* Three threads (two requests and `DriverEntry`), mode numbers up to one
  past the last.

Symmetry is declared for threads, applications, processes, sessions and pool blocks, which the models treat
alike, and only in runs without liveness.

### Fairness

`RouteTable` assumes weak fairness of each thread's step inside the driver: a thread at
dispatch level keeps running. It does not assume that somebody calls the driver, nor that
a spinning thread ever wins the lock: `KeAcquireSpinLock` gives no such promise under
contention. Therefore `LockProgress` says that *some* thread gets the lock, not that each
does. No other run needs fairness.

## 4. Proofs

Every invariant and every action property of the passing runs, and the refinement, is also
a theorem of its specification, checked by TLAPS for every value of the constants that
satisfies the module's assumptions. All proofs have the same shape: none of the properties
is inductive, so each module has an inductive invariant `IInv`, a conjunction of named
parts, that holds initially, that every action keeps (one lemma per group of actions), and
that implies the properties. TLC checked each inductive invariant on the module's own
instance before it was proved. The bounds on calls and requests (`MaxCalls`,
`MaxRequests`) are never used.

### The route table

`RouteTableProofs`, for every number of threads, applications, kinds, versions, pool blocks
and every choice of batches and limits:

| Theorem | Statement |
|---|---|
| `TypeCorrect` | `Spec => []TypeOK`, the counter's width included |
| `MutualExclusionHolds` | one thread in a critical section, and the lock word says so |
| `CountMatchesListHolds` | the counter is the length of the list and keeps to the limit |
| `OneRoutePerAppHolds` | no two linked entries of one application |
| `PoolAccountingHolds` | every used block is linked or owned by exactly one call |
| `FoundIsCurrentHolds` | the entry found is still the application's only one when used |
| `RouteTableImplementsRouteMap` | `Spec => ImplementsRouteMap`: every step is one of the map or a stutter |

**Assumptions.** Changing and classifying threads are different (`ThreadsAssumption`);
the pool is finite (`NodesAssumption`); `None` is neither a block, a route nor an application
(`NoneAssumption`); the limits are natural numbers and `GUARDIAN_MAX_ROUTES` is below the
counter's maximum (`BoundsAssumption`; 4096 against 2^32 - 1); batches are sequences of
routes (`BatchesAssumption`).

**Argument.** `IInv == TypeInv /\ (overlap \/ Safe)`.

- `TypeInv` adds to `TypeOK` what each call carries at each label (`CallShape`): a set
  between allocation and release owns a block, anyone else owns none, nothing is found
  before the find. It holds after an overlap too, which is why `TypeOK` needs no escape.
- `InitAlone` is the heart of it: while one thread re-initializes and there was no
  overlap, nobody holds the lock, nobody else re-initializes, and the table is empty, so
  that overwriting list, lock and counter changes nothing. It needs the emptying
  (`drain_release`) to have left an empty table.
- `EntryIsFilled` says that a block allocated for a route holds it; without it an insert
  could link an entry of another application and break `OneRoutePerApp`.
- `FoundPart` makes insert and replace safe (nothing was linked since the find) and rests
  on mutual exclusion; `PoolPart` makes the free safe.

`SafeStep` goes through the actions one by one; facts used by several are lemmas
(`CurrentRoute`: what a find returns; `FoundIsLinked`; `ListIsFinite`, for cardinality).

The refinement needs two facts more (`CallerPart`): only classifying threads look routes
up, and a set past its allocation carries a known version, which the map demands of what
it is given. The map bounds its number of routes, the table its counter: `AssignedBound`
shows that there are no more applications with a route than linked entries. Steps that
leave the list alone leave the map alone (`MapKept`), an insert, replace, clear or drain
changes it as the map's own operation does (`MapStep`), and taking the lock in the
re-initialization window is `Void`.

### The kill switch

`KillSwitchProofs`: `TypeCorrect`, `SnapshotIsInstalledHolds`, `ReportIsRecentHolds`.

**Assumptions.** Setting and evaluating threads are different, interface 0 is one of the
interfaces, requests have known modes and interfaces, stored values are numbers, and `None`
is no request.

**Argument.** `LockPart`: the lock word is set exactly while one thread is between acquire
and release. `PairPart`: the two words are the pair last put in place, except between the
two writes of a setter. Hence an evaluation, which holds the lock over both reads, reads
both words of one pair (`ReadPart`). The report is read without the lock; `ReportPart`
says only that whatever is about to be published has been in place since the overlapping
requests began.

### The policy table

`PolicyTableProofs`: `TypeCorrect`, `TableWellFormedHolds`, `SyncInstallsBatchHolds`, and the
action property `PriorityKeptHolds`.

**Assumptions.** Changing and classifying threads are different, batches are sequences of
policies, limits are natural numbers.

**Argument.** `IInv == TypeInv /\ (overlap \/ Safe)`, as for the route table. `LockPart`: the
lock word is set exactly while one thread is in a critical section, and while one
re-initializes nobody holds the lock and nobody else re-initializes. `ListPart`: one policy
per application, a counter that is the length of the list, and an empty list during a
re-initialization, which therefore changes nothing. `FoundPart`: what the find said is
still so when the thread acts on it. `SyncPart` follows a sync that is alone: what it has still to set is the rest
of its batch, and the table is what the part done so far installs. The induction over the
batch is that over the steps: `OneMoreInstalled` leads from `Installs(list, b, k)` to
`Installs(Updated(list, b[k + 1]), b, k + 1)`. It rests on `UpdatedIs`, which says place by
place what a set does to the list, as do one policy per application
(`UpdatedWellFormed`) and the kept order (`UpdatedKeepsOrder`).

### Classification

`ClassifyProofs`: `TypeCorrect`, `KillSwitchIsObeyed`, `OneTableChangeIsAtomicHolds`,
`RecordedAsAnsweredHolds`.

**Assumptions.** Modes are known ones; `"none"` is no kind of route.

**Argument.** `SeenPart`: the kill switch in place is one the connection has seen, and past
its read it has seen one that left it alone. `InstantPart` states, for each place of the
classification and each table that has not changed, what the thread knows of the tables as
they are; if one table alone changes, the decision is that of the instant before its read
or after its last change (`UnblockedAtPolicy`). `ChangeKeeps` shows that a change cannot
invalidate what it does not also list as changed. That the action is still "permit" before
the kill switch is read, and at the error exit, had to be added to `CallPart`.
`FirstMatchFound` (a lookup returns the match with the least index) uses the well-foundedness
of the natural numbers.

### The life cycle

`LifecycleProofs`: `TypeCorrect`, `ReportedMeansEnforcingHolds`, `TablesOutliveCalloutsHolds`,
`LeftBehindOnlyByPartStartHolds`, `GenerationsAgreeHolds`, `SecondCopyIsCompleteHolds`.

**Assumptions.** Importing threads are finitely many, the generation has a positive
modulus, requested modes are known; `None` is neither a life cycle state nor an imported
state.

**Argument.** The phase of the entry determines almost everything: what is reported
(`PhasePart`) and which callouts are there (`CalloutPart`; during the registration, at
least the first `calloutCount` of them, since the engine may hold some of an earlier start).
Two facts had to be found: no callout is counted before the registration begins, and no
import is under way while the driver is absent. `GenerationPart` follows the store and the
report of an import that overlaps nothing. `CopyPart` says that what a client has copied is
a lower bound of how far the driver has come, which no later phase takes back.

### Request dispatch

`IoctlDispatchProofs`: `TypeCorrect`, `OneSessionHolds`, `RefusedOnlyOnceOrphanedHolds`,
`ServedHasBuffersHolds`, `RecordedOnceHolds`.

**Assumptions.** `None` is neither a process id nor a session; the handlers are finitely
many.

**Argument.** `CallerPart`: a process outlives its request, so that the session looked up
for it stays right. `PinPart`: without a tie at most one handler is about to remember its
caller, nobody was admitted or denied before, and the remembered id has the remembered
session until its process exits. `CountPart` accounts for the requests recorded and not yet
completed. `ValidIsUsable` compares what the
validation and the switch want of each code that is no batch.

### The hybrid coordinator

`HybridModeProofs`: `TypeCorrect`, `OverlapEndsAsRequestedHolds`, `LoneRequestAgreesHolds`.

**Assumptions.** `DriverEntry`'s thread is no IOCTL thread; requested modes and filter
counts are numbers; `None` is no mode.

**Argument.** `GroupPart`: for each word, either it has a value some call of the group
asked for or some call has still to store it; the last call of an overlap therefore leaves
one. `LonePart`: a call that is alone finds what it stored itself.

### Telemetry and DNS observation

`DnsObserveProofs`:

| Theorem | Statement |
|---|---|
| `TelemetryTypeCorrect`, `DnsTypeCorrect` | types; in them, that a reader at its division sees a positive number of samples |
| `SamplingStopsHolds` | at most one connection per classifying thread is ever sampled: what `telemetry_sampling` shows, for any number of threads and connections |
| `ConfigSettlesHolds` | the configuration is observe-only, and the one set last unless that set was disturbed |
| `StatisticsMatchCallsHolds` | between calls every counter, sum, maximum and statistic is what the calls had to count |

**Assumptions.** Classifying and requesting threads are different and latencies are
natural numbers (`TelemetryAssumption`); the classifying threads are finitely many and
not more than the mask (`MaskAssumption`; 255 in the code); configurations are well-formed
and `Nobody` is neither thread nor application (`DnsAssumption`). With more threads than
the mask the samples could pass it and the mask become clear again, so that `SamplingStops`
needs the bound.

**Argument.**

- *Samples.* A thread that found the mask clear has still to count. `SamplesPart` bounds
  the samples *and* the threads on their way to one (`Pending`) by the number of threads.
  Counting moves one from the second to the first. A thread becomes pending only when the
  mask is clear; as the number of samples does not exceed the mask, it is zero then
  (`MaskClear`), and the pending threads alone are no more than all. `DnsStepRecords` shows
  that a step of the DNS layer leaves the telemetry alone or records an observation.
- *Statistics.* `Tally(S, x, y)` says that the finite set `S` is what the counter `x` still
  misses of `y`; a call enters `S` when it begins and leaves it when it counts
  (`TallyMoves`). `CountPart`, `LatencyPart` and `ObservedPart` are tallies of the calls
  that owe a count, a sample or an observation. A sum of latencies is one as well: a
  latency of `l` is a block of `l` units (`Block`), and the sum misses the units of the
  threads that have not added theirs. Between calls the sets are empty. No bound on the
  number of threads is needed, since the sets are finite in every reachable state.
- *Maximum.* `MaxPart`: the longest latency is stored or on its way, and without a race
  whoever is about to store is alone and raises the maximum.
- *DNS statistics.* `LockPart`: unless the lock was reset under its holder, whoever is in a
  critical section has taken the lock last. So at most one thread counts a decision, and
  the statistics miss exactly that one (`StatsPart`).
- *Configuration.* `ConfigPart`: observe-only is lost at most between the copy and the end
  of some set; a set that overlaps nothing is the only one and finds what it copied.

### Only model-checked

Liveness (`LockProgress`), which needs fairness and ENABLED. The three runs
that expect a violation have nothing to prove.

## 5. What is not modelled

- Order of accesses weaker than program order, and tearing of aligned words.
- The link fields of the lists after an overlap (section 2).
- The retrieval of buffers by the framework, which may fail or not, and what a sync makes of
  a batch that ends before its entries do; in the tables batches are well-formed.
- `GuardianAppPolicyRemove` and `GuardianHybridSetNdisFilterCount`, which nothing calls.
- The flow callouts and the notification functions, which permit and keep no state.
- Capabilities and proxy port of the DNS configuration, which no code reads, and the
  statistics fields that no code writes (`DeferredWorkCount`, `ObservedV6` and others).
- The usermode client, the message header, build files and scripts.

## 6. Plan

Done, in this order: the route table, its abstract specification and its proofs; kill
switch; policy table; classification; life cycle; request dispatch with caller
verification; hybrid mode; telemetry; DNS observation; the validation of buffers and the
copy of the driver state. Every component that keeps state has its module; what is left of
the driver is listed in section 5.

The proofs cover every safety property of the runs (section 4). What could follow:

1. Lemmas that tie the modules together: that the indivisible reads and changes of
   `Classify` are those of `KillSwitch`, `PolicyTable` and `RouteTable` is argued in
   section 2 and not proved.
2. An abstract specification of the policy table, like `RouteMap`.
