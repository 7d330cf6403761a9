------------------------------ MODULE Telemetry ------------------------------
(* The counters of telemetry/telemetry.c, access by access.  The classifying *)
(* threads record connections, the IOCTL threads record requests and read    *)
(* the totals, all without a lock: increments and additions are interlocked, *)
(* the rest are plain loads and stores.  g_Telemetry is zeroed before either *)
(* kind of thread can run (DriverEntry), and the shutdown does nothing.      *)
EXTENDS Integers, FiniteSets

CONSTANTS
  Classifiers,  \* threads that classify connections
  Handlers,     \* IOCTL threads
  Latencies,
  SampleMask,   \* GUARDIAN_LATENCY_SAMPLE_MASK: 0xFF
  MaxCalls      \* bound on the number of recorded calls

ASSUME TelemetryAssumption ==
  /\ Classifiers \cap Handlers = {}
  /\ Latencies \subseteq Nat
  /\ MaxCalls \in Nat

\* There are fewer classifying threads than the mask has values
ASSUME MaskAssumption ==
  /\ SampleMask \in Nat
  /\ IsFiniteSet(Classifiers)
  /\ Cardinality(Classifiers) <= SampleMask

VARIABLES
  counts,   \* the ...Count fields of g_Telemetry
  lat,      \* the latency fields, of connections and of requests
  pc,
  arg,      \* what the call is about: an action, an outcome, a kind to read
  latency,  \* the latency the call records
  due,      \* history: what the calls begun so far have to count
  taken,    \* history: the latencies the calls decided to record
  maxRace   \* history: the kinds whose maximum was updated by two calls at once

telemetry == <<counts, lat, pc, arg, latency, due, taken, maxRace>>

Threads == Classifiers \cup Handlers
Actions == {"block", "route", "observe", "permit"}
Outcomes == {"served", "rejected"}
Counters == Actions \cup {"classify", "error", "dns", "dispatched", "rejected"}
Kinds == {"connection", "request"}
Totals == [sum : Nat, samples : Nat, max : Nat]

\* Which of the latency fields a thread's record goes to
KindOf(t) == IF t \in Classifiers THEN "connection" ELSE "request"

ClassifyLabels == {"idle", "count_action", "test_sample", "add_latency",
                   "count_sample", "compare_max", "store_max"}
IpcLabels == {"idle", "count_reject", "add_latency", "count_sample",
              "compare_max", "store_max", "divide"}

\* GuardianTelemetryInitialize
Init ==
  /\ counts = [k \in Counters |-> 0]
  /\ lat = [k \in Kinds |-> [sum |-> 0, samples |-> 0, max |-> 0]]
  /\ pc = [t \in Threads |-> "idle"]
  /\ arg = [t \in Threads |-> "permit"]
  /\ latency = [t \in Threads |-> 0]
  /\ due = [k \in Counters |-> 0]
  /\ taken = [k \in Kinds |-> [sum |-> 0, samples |-> 0, max |-> 0]]
  /\ maxRace = {}

Goto(t, l) == pc' = [pc EXCEPT ![t] = l]
Count(k) == counts' = [counts EXCEPT ![k] = @ + 1]
CallsMade == due["classify"] + due["error"] + due["dns"] + due["dispatched"]

\* A call of t begins, which is to count what is in S
Call(t, S) ==
  /\ pc[t] = "idle"
  /\ due' = [k \in Counters |-> IF k \in S THEN due[k] + 1 ELSE due[k]]

\* It has these parameters
With(t, a, l) ==
  /\ arg' = [arg EXCEPT ![t] = a]
  /\ latency' = [latency EXCEPT ![t] = l]

\* It returns, and they are gone
Return(t) == Goto(t, "idle") /\ With(t, "permit", 0)

(* Definitions named Bad... are altered forms of the definition that follows *)
(* them, used only to show that a property notices such a change.            *)

\* The history of a call that decided to record its latency
Take(k, l) ==
  taken' = [taken EXCEPT ![k].sum = @ + l, ![k].samples = @ + 1,
                         ![k].max = IF l > @ THEN l ELSE @]

-----------------------------------------------------------------------------
(* GuardianTelemetryRecordClassify *)

RecordClassify(c, action, l) ==
  /\ Call(c, {"classify", action}) /\ With(c, action, l)
  /\ Count("classify")
  /\ Goto(c, "count_action")
  /\ UNCHANGED <<lat, taken, maxRace>>

\* The counter of an action; the switch has a default
BadCategory(action) == IF action \in {"block", "route"} THEN action ELSE "permit"

Category(action) ==
  IF action \in {"block", "route", "observe"} THEN action ELSE "permit"

CountAction(c) ==
  /\ pc[c] = "count_action"
  /\ Count(Category(arg[c]))
  /\ Goto(c, "test_sample")
  /\ UNCHANGED <<lat, arg, latency, due, taken, maxRace>>

\* The mask is all ones: the test is a remainder
Sampled == lat["connection"].samples % (SampleMask + 1) = 0

TestSample(c) ==
  /\ pc[c] = "test_sample"
  /\ IF Sampled
       THEN /\ Goto(c, "add_latency")
            /\ Take("connection", latency[c])
            /\ UNCHANGED <<arg, latency>>
       ELSE Return(c) /\ UNCHANGED taken
  /\ UNCHANGED <<counts, lat, due, maxRace>>

\* GuardianTelemetryRecordError and GuardianTelemetryRecordDnsObserve
RecordError(c) ==
  /\ Call(c, {"error"})
  /\ Count("error")
  /\ UNCHANGED <<lat, pc, arg, latency, taken, maxRace>>

RecordDnsObserve(c) ==
  /\ Call(c, {"dns"})
  /\ Count("dns")
  /\ UNCHANGED <<lat, pc, arg, latency, taken, maxRace>>

-----------------------------------------------------------------------------
(* GuardianPerfRecordIpc *)

RecordIpc(h, outcome, l) ==
  /\ Call(h, {"dispatched"} \cup ({outcome} \cap {"rejected"}))
  /\ With(h, outcome, l)
  /\ Count("dispatched")
  /\ Take("request", l)
  /\ Goto(h, IF outcome = "rejected" THEN "count_reject" ELSE "add_latency")
  /\ UNCHANGED <<lat, maxRace>>

CountReject(h) ==
  /\ pc[h] = "count_reject"
  /\ Count("rejected")
  /\ Goto(h, "add_latency")
  /\ UNCHANGED <<lat, arg, latency, due, taken, maxRace>>

-----------------------------------------------------------------------------
(* Both record a latency in the same way *)

AddLatency(t) ==
  /\ pc[t] = "add_latency"
  /\ lat' = [lat EXCEPT ![KindOf(t)].sum = @ + latency[t]]
  /\ Goto(t, "count_sample")
  /\ UNCHANGED <<counts, arg, latency, due, taken, maxRace>>

CountSample(t) ==
  /\ pc[t] = "count_sample"
  /\ lat' = [lat EXCEPT ![KindOf(t)].samples = @ + 1]
  /\ Goto(t, "compare_max")
  /\ UNCHANGED <<counts, arg, latency, due, taken, maxRace>>

\* The maximum is compared and stored in two accesses
CompareMax(t) ==
  LET k == KindOf(t)
      raised == latency[t] > lat[k].max IN
  /\ pc[t] = "compare_max"
  /\ IF raised
       THEN Goto(t, "store_max") /\ UNCHANGED <<arg, latency>>
       ELSE Return(t)
  /\ maxRace' = IF raised /\ \E u \in Threads \ {t} :
                               KindOf(u) = k /\ pc[u] = "store_max"
                  THEN maxRace \cup {k} ELSE maxRace
  /\ UNCHANGED <<counts, lat, due, taken>>

StoreMax(t) ==
  /\ pc[t] = "store_max"
  /\ lat' = [lat EXCEPT ![KindOf(t)].max = latency[t]]
  /\ Return(t)
  /\ UNCHANGED <<counts, due, taken, maxRace>>

-----------------------------------------------------------------------------
(* GuardianTelemetryGet and GuardianPerfStatsGet: the average *)

BadReadSamples(h, k) ==
  /\ pc[h] = "idle"
  /\ Goto(h, "divide") /\ With(h, k, 0)
  /\ UNCHANGED <<counts, lat, due, taken, maxRace>>

\* Without samples there is none
ReadSamples(h, k) ==
  /\ pc[h] = "idle"
  /\ lat[k].samples > 0
  /\ Goto(h, "divide") /\ With(h, k, 0)
  /\ UNCHANGED <<counts, lat, due, taken, maxRace>>

\* The sum is divided by the samples as they are now
Divide(h) ==
  /\ pc[h] = "divide"
  /\ Return(h)
  /\ UNCHANGED <<counts, lat, due, taken, maxRace>>

-----------------------------------------------------------------------------
RecordLatency(t) == AddLatency(t) \/ CountSample(t) \/ CompareMax(t) \/ StoreMax(t)

\* Calls begin while the bound allows
ClassifierBegins(c) ==
  \/ \E a \in Actions, l \in Latencies : RecordClassify(c, a, l)
  \/ RecordError(c)

ClassifierStep(c) == CountAction(c) \/ TestSample(c) \/ RecordLatency(c)

HandlerBegins(h) == \E o \in Outcomes, l \in Latencies : RecordIpc(h, o, l)

HandlerStep(h) ==
  \/ CountReject(h) \/ RecordLatency(h)
  \/ \E k \in Kinds : ReadSamples(h, k)
  \/ Divide(h)

Next ==
  \/ /\ CallsMade < MaxCalls
     /\ \/ \E c \in Classifiers : ClassifierBegins(c) \/ RecordDnsObserve(c)
        \/ \E h \in Handlers : HandlerBegins(h)
  \/ \E c \in Classifiers : ClassifierStep(c)
  \/ \E h \in Handlers : HandlerStep(h)

Spec == Init /\ [][Next]_telemetry

-----------------------------------------------------------------------------
(* Properties *)

\* Every variable has its type; in particular the samples, tested and read
\* again for the division, are not zero then, whatever was recorded in between.
TypeOK ==
  /\ counts \in [Counters -> Nat]
  /\ lat \in [Kinds -> Totals]
  /\ pc \in [Threads -> ClassifyLabels \cup IpcLabels]
  /\ \A c \in Classifiers : pc[c] \in ClassifyLabels
  /\ \A h \in Handlers : pc[h] \in IpcLabels
  /\ arg \in [Threads -> Actions \cup Outcomes \cup Kinds]
  /\ latency \in [Threads -> Nat]
  /\ due \in [Counters -> Nat]
  /\ taken \in [Kinds -> Totals]
  /\ maxRace \subseteq Kinds
  /\ \A h \in Handlers :
       pc[h] = "divide" => arg[h] \in Kinds /\ lat[arg[h]].samples > 0

Quiet == \A t \in Threads : pc[t] \in {"idle", "divide"}

\* Between calls every counter is what the calls had to count, every total is
\* that of the latencies recorded, and a maximum is the longest of them unless
\* two calls raised it at once: then the shorter may have overwritten it.
CountersMatchCalls ==
  Quiet =>
    /\ counts = due
    /\ \A k \in Kinds :
         /\ lat[k].sum = taken[k].sum
         /\ lat[k].samples = taken[k].samples
         /\ k \in maxRace \/ lat[k].max = taken[k].max

\* "Each classify records action type and sampled latency" (docs/callouts.md),
\* with a mask of 0xFF: between calls there is a sample for at least one in
\* 0x100 of the connections recorded.
SamplesFollowConnections ==
  Quiet => counts["classify"] <= (SampleMask + 1) * lat["connection"].samples

\* What telemetry.c does instead, as it tests the samples and not the
\* connections: no more samples are ever taken than there are threads that may
\* find none at the same time, however many connections follow.
SamplingStops ==
  lat["connection"].samples <= Cardinality(Classifiers)
=============================================================================
