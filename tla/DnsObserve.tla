----------------------------- MODULE DnsObserve -----------------------------
(* DNS observation (callouts/dns_observe.c) beside the telemetry it reports  *)
(* to.  Configuration and statistics are guarded by a spin lock, which       *)
(* GuardianDnsLayerInitialize sets up, together with both, while requests    *)
(* are already being served.  GuardianDnsLayerShouldObserve is written for   *)
(* the connect callouts, which do not call it yet; it is modelled as one     *)
(* that they register after the initialization would call it.                *)
EXTENDS Telemetry

CONSTANTS
  Apps,      \* process ids of connections
  Settings,  \* the configurations that are set
  Nobody     \* holds the lock when no thread does

Configs == [enabled : BOOLEAN, excluded : SUBSET Apps, observeOnly : BOOLEAN]

ASSUME DnsAssumption == /\ Nobody \notin Threads \cup Apps
                        /\ Settings \subseteq Configs

VARIABLES
  setup,      \* the next step of GuardianDnsLayerInitialize
  dnsLock,    \* g_DnsLock: who took it last, or Nobody
  config,     \* g_DnsConfig
  stats,      \* g_DnsStats
  dnsPc,
  request,    \* the configuration a handler sets
  query,      \* a classifier's: the process, the decision, its count as read
  accepted,   \* history: the configuration set last
  unsettled,  \* history: that set overlapped another one or the initialization
  decided,    \* history: how often each decision was taken
  sets,       \* history: how often a configuration was set
  brokenIn    \* history: the lock was reset while a thread held it

dnsHistory == <<accepted, unsettled, decided, sets, brokenIn>>
shared == <<dnsLock, config, stats>>
locals == <<request, query>>
dns == <<setup, shared, dnsPc, locals, dnsHistory>>
dnsVars == <<telemetry, dns>>

Decisions == {"observed", "skippedDisabled", "skippedExcluded"}
Zeroed == [enabled |-> FALSE, excluded |-> {}, observeOnly |-> FALSE]
NoQuery == [app |-> Nobody, decision |-> "observed", count |-> 0]
NoStats == [d \in Decisions |-> 0]
Setups == {"lock", "config", "defaults", "done"}
SetLabels == {"copy_flags", "copy_excluded", "observe_only"}
DnsLabels == {"idle", "copy_stats", "enabled", "excluded", "read", "write", "record"}
               \cup SetLabels

DnsInit ==
  /\ Init
  /\ setup = "lock"
  /\ dnsLock = Nobody
  /\ config = Zeroed
  /\ stats = NoStats
  /\ dnsPc = [t \in Threads |-> "idle"]
  /\ request = [h \in Handlers |-> Zeroed]
  /\ query = [c \in Classifiers |-> NoQuery]
  /\ accepted = [Zeroed EXCEPT !.observeOnly = TRUE]
  /\ unsettled = FALSE
  /\ decided = NoStats
  /\ sets = 0
  /\ brokenIn = FALSE

\* The calls that the telemetry does not count, or not yet
OtherCalls == sets + decided["skippedDisabled"] + decided["skippedExcluded"]
                + Cardinality({c \in Classifiers : dnsPc[c] # "idle"})
HasCallsLeft == CallsMade + OtherCalls < MaxCalls

DnsGoto(t, l) == dnsPc' = [dnsPc EXCEPT ![t] = l]

-----------------------------------------------------------------------------
(* GuardianDnsLayerInitialize: DriverEntry's thread, without the lock *)

InitializeLock ==
  /\ setup = "lock"
  /\ setup' = "config"
  /\ dnsLock' = Nobody
  /\ brokenIn' = (dnsLock # Nobody)
  /\ UNCHANGED <<telemetry, config, stats, dnsPc, locals, accepted, unsettled,
                 decided, sets>>

\* The statistics are zeroed as well: nothing has been counted before
ZeroConfig ==
  /\ setup = "config"
  /\ setup' = "defaults"
  /\ config' = Zeroed
  /\ stats' = NoStats
  /\ UNCHANGED <<telemetry, dnsLock, dnsPc, locals, dnsHistory>>

SetDefaults ==
  /\ setup = "defaults"
  /\ setup' = "done"
  /\ config' = [config EXCEPT !.observeOnly = TRUE]
  /\ UNCHANGED <<telemetry, dnsLock, stats, dnsPc, locals, dnsHistory>>

-----------------------------------------------------------------------------
(* The spin lock *)

Acquire(t, next) ==
  /\ dnsPc[t] = "idle"
  /\ pc[t] = "idle"
  /\ dnsLock = Nobody
  /\ dnsLock' = t
  /\ DnsGoto(t, next)

Release(t, next) ==
  /\ dnsLock' = Nobody
  /\ DnsGoto(t, next)

-----------------------------------------------------------------------------
(* GuardianDnsLayerSetConfig; one of an unknown version is refused at once *)

Setting == {h \in Handlers : dnsPc[h] \in SetLabels}

BeginSetConfig(h, r) ==
  /\ HasCallsLeft
  /\ Acquire(h, "copy_flags")
  /\ sets' = sets + 1
  /\ request' = [request EXCEPT ![h] = r]
  /\ unsettled' = (setup # "done" \/ Setting # {})
  /\ UNCHANGED <<telemetry, setup, config, stats, query, accepted, decided,
                 brokenIn>>

\* RtlCopyMemory: not at once, where the lock does not keep others out
CopyFlags(h) ==
  /\ dnsPc[h] = "copy_flags"
  /\ config' = [config EXCEPT !.enabled = request[h].enabled,
                              !.observeOnly = request[h].observeOnly]
  /\ DnsGoto(h, "copy_excluded")
  /\ UNCHANGED <<telemetry, setup, dnsLock, stats, locals, dnsHistory>>

CopyExcluded(h) ==
  /\ dnsPc[h] = "copy_excluded"
  /\ config' = [config EXCEPT !.excluded = request[h].excluded]
  /\ DnsGoto(h, "observe_only")
  /\ UNCHANGED <<telemetry, setup, dnsLock, stats, locals, dnsHistory>>

BadEndSetConfig(h) ==
  /\ dnsPc[h] = "observe_only"
  /\ Release(h, "idle")
  /\ accepted' = [request[h] EXCEPT !.observeOnly = TRUE]
  /\ UNCHANGED <<telemetry, setup, config, stats, locals, unsettled, decided,
                 sets, brokenIn>>

\* ObserveOnly is forced, whatever was asked for
EndSetConfig(h) ==
  /\ dnsPc[h] = "observe_only"
  /\ config' = [config EXCEPT !.observeOnly = TRUE]
  /\ Release(h, "idle")
  /\ accepted' = [request[h] EXCEPT !.observeOnly = TRUE]
  /\ request' = [request EXCEPT ![h] = Zeroed]
  /\ UNCHANGED <<telemetry, setup, stats, query, unsettled, decided, sets,
                 brokenIn>>

-----------------------------------------------------------------------------
(* GuardianDnsLayerGetStats *)

BeginGetStats(h) ==
  /\ Acquire(h, "copy_stats")
  /\ UNCHANGED <<telemetry, setup, config, stats, locals, dnsHistory>>

EndGetStats(h) ==
  /\ dnsPc[h] = "copy_stats"
  /\ Release(h, "idle")
  /\ UNCHANGED <<telemetry, setup, config, stats, locals, dnsHistory>>

-----------------------------------------------------------------------------
(* GuardianDnsLayerShouldObserve, of a connection to port 53 *)

BeginObserve(c, a) ==
  /\ setup = "done"
  /\ HasCallsLeft
  /\ Acquire(c, "enabled")
  /\ query' = [query EXCEPT ![c].app = a]
  /\ UNCHANGED <<telemetry, setup, config, stats, request, dnsHistory>>

\* The counter of the decision is to be incremented
Decide(c, d) ==
  /\ DnsGoto(c, "read")
  /\ query' = [query EXCEPT ![c].decision = d]
  /\ decided' = [decided EXCEPT ![d] = @ + 1]

TestEnabled(c) ==
  /\ dnsPc[c] = "enabled"
  /\ IF config.enabled
       THEN DnsGoto(c, "excluded") /\ UNCHANGED <<query, decided>>
       ELSE Decide(c, "skippedDisabled")
  /\ UNCHANGED <<telemetry, setup, shared, request, accepted, unsettled, sets,
                 brokenIn>>

TestExcluded(c) ==
  /\ dnsPc[c] = "excluded"
  /\ Decide(c, IF query[c].app \in config.excluded
                 THEN "skippedExcluded" ELSE "observed")
  /\ UNCHANGED <<telemetry, setup, shared, request, accepted, unsettled, sets,
                 brokenIn>>

\* The counters of g_DnsStats are incremented by a load and a store
ReadCount(c) ==
  /\ dnsPc[c] = "read"
  /\ query' = [query EXCEPT ![c].count = stats[query[c].decision]]
  /\ DnsGoto(c, "write")
  /\ UNCHANGED <<telemetry, setup, shared, request, dnsHistory>>

\* The store, and the release after it
WriteCount(c) ==
  /\ dnsPc[c] = "write"
  /\ stats' = [stats EXCEPT ![query[c].decision] = query[c].count + 1]
  /\ Release(c, IF query[c].decision = "observed" THEN "record" ELSE "idle")
  /\ query' = [query EXCEPT ![c] = NoQuery]
  /\ UNCHANGED <<telemetry, setup, config, request, dnsHistory>>

\* What is observed is also counted by the telemetry, outside the lock
RecordObserved(c) ==
  /\ dnsPc[c] = "record"
  /\ RecordDnsObserve(c)
  /\ DnsGoto(c, "idle")
  /\ UNCHANGED <<setup, shared, locals, dnsHistory>>

-----------------------------------------------------------------------------
Initialize == InitializeLock \/ ZeroConfig \/ SetDefaults

ConfigureStep(h) ==
  \/ \E r \in Settings : BeginSetConfig(h, r)
  \/ CopyFlags(h) \/ CopyExcluded(h) \/ EndSetConfig(h)
  \/ BeginGetStats(h) \/ EndGetStats(h)

ObserveStep(c) ==
  \/ \E a \in Apps : BeginObserve(c, a)
  \/ TestEnabled(c) \/ TestExcluded(c) \/ ReadCount(c) \/ WriteCount(c)
  \/ RecordObserved(c)

\* A thread is in one call at a time; the callouts are registered after the
\* initialization
DnsNext ==
  \/ Initialize
  \/ \E h \in Handlers : ConfigureStep(h)
  \/ \E c \in Classifiers : ObserveStep(c)
  \/ \E h \in Handlers : /\ dnsPc[h] = "idle"
                         /\ (HasCallsLeft /\ HandlerBegins(h)) \/ HandlerStep(h)
                         /\ UNCHANGED dns
  \/ \E c \in Classifiers : /\ dnsPc[c] = "idle"
                            /\ setup = "done"
                            /\ (HasCallsLeft /\ ClassifierBegins(c)) \/ ClassifierStep(c)
                            /\ UNCHANGED dns

DnsSpec == DnsInit /\ [][DnsNext]_dnsVars

-----------------------------------------------------------------------------
(* Properties *)

\* Every variable has its type, those of the telemetry included.
DnsTypeOK ==
  /\ TypeOK
  /\ setup \in Setups
  /\ dnsLock \in Threads \cup {Nobody}
  /\ {config, accepted} \subseteq Configs
  /\ {stats, decided} \subseteq [Decisions -> Nat]
  /\ dnsPc \in [Threads -> DnsLabels]
  /\ request \in [Handlers -> Configs]
  /\ query \in [Classifiers -> [app : Apps \cup {Nobody}, decision : Decisions,
                                count : Nat]]
  /\ sets \in Nat
  /\ {unsettled, brokenIn} \subseteq BOOLEAN

DnsQuiet == Quiet /\ \A t \in Threads : dnsPc[t] = "idle"

\* Between calls all statistics are right: the telemetry's (CountersMatchCalls),
\* and those of the DNS layer, whose decisions are each counted once and whose
\* observations the telemetry counts too, unless the lock was reset under its
\* holder: then increments may be lost.
StatisticsMatchCalls ==
  /\ CountersMatchCalls
  /\ DnsQuiet => counts["dns"] = decided["observed"]
  /\ DnsQuiet /\ setup = "done" /\ ~brokenIn => stats = decided

\* Once the initialization is through and no configuration is being set, the
\* layer is observe-only, whatever was asked for and whatever overlapped; and it
\* has the configuration set last, unless that set overlapped another or came
\* before the initialization was through, which discards it or parts of it.
ConfigSettles ==
  setup = "done" /\ Setting = {} =>
    /\ config.observeOnly
    /\ unsettled \/ config = accepted
=============================================================================
