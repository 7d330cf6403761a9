------------------------------ MODULE Classify ------------------------------
(* A connection's way through GuardianAuthConnectClassifyV4/V6 (callouts/    *)
(* manager.c) and GuardianClassifyConnection (classify/classify.c): kill     *)
(* switch, policy table and route table are read one after the other, each   *)
(* under its own lock, while IOCTL threads change them.  Each read and each  *)
(* change is one step here; KillSwitch, PolicyTable and RouteTable model     *)
(* what happens inside.  A sync is seen as what it does to a reader: the     *)
(* table is emptied, then set piece by piece.                                *)
EXTENDS KillSwitchModes, PolicyList, FiniteSets

CONSTANTS
  Classifiers,   \* threads classifying connections
  Connections,   \* records with fields values, appId, app and luid
  Apps,
  RouteKinds,    \* GUARDIAN_ROUTE_KIND, by name
  Requests,      \* kill switch requests, records with fields mode and luid
  BootModes,     \* the modes the kill switch may start in
  None

ASSUME BootModesAssumption == BootModes \subseteq Modes
ASSUME RequestModes == \A r \in Requests : r.mode \in Modes
ASSUME KindsAssumption == "none" \notin RouteKinds

VARIABLES
  ks,         \* the kill switch: mode and VPN interface
  policies,   \* the policy list
  routes,     \* the route kind of each application, or "none"
  pc,
  conn,       \* the connection each thread classifies
  policy,     \* the policy it found: <<>> or <<p>>
  action,     \* the action so far
  out,        \* FWPS_CLASSIFY_OUT0: action type, write right, absorb flag
  calls,      \* the telemetry calls made for the connection
  instants,   \* history: what the tables, read at one instant, said so far
  ksSeen,     \* history: the modes and interfaces in place so far
  changed     \* history: which of the three tables changed so far

tables == <<ks, policies, routes>>
thread == <<pc, conn, policy, action, out, calls>>
history == <<instants, ksSeen, changed>>
vars == <<tables, thread, history>>

Reading == {"kill_switch", "policy", "route"}
Actions == {"permit", "block", "route", "observe"}
NoOut == [type |-> "none", write |-> FALSE, absorb |-> FALSE]

Init ==
  /\ ks \in {<<m, 0>> : m \in BootModes}
  /\ policies = <<>>
  /\ routes = [a \in Apps |-> "none"]
  /\ pc = [c \in Classifiers |-> "idle"]
  /\ conn = [c \in Classifiers |-> None]
  /\ policy = [c \in Classifiers |-> <<>>]
  /\ action = [c \in Classifiers |-> "permit"]
  /\ out = [c \in Classifiers |-> NoOut]
  /\ calls = [c \in Classifiers |-> <<>>]
  /\ instants = [c \in Classifiers |-> {}]
  /\ ksSeen = [c \in Classifiers |-> {}]
  /\ changed = [c \in Classifiers |-> {}]

-----------------------------------------------------------------------------
(* What the tables say *)

\* interfaceLuid in GuardianClassifyConnection is never assigned from the
\* connection: the kill switch is always asked about interface 0
InterfaceLuid(k) == 0

(* Definitions named Bad... are altered forms of the definition that follows *)
(* them, used only to show that a property notices such a change.            *)

BadPolicyAction(p) == p.action

PolicyAction(p) ==
  IF p.action \in {"block", "route", "observe"} THEN p.action ELSE "permit"

\* The route's say on the policy's action; kinds the switch does not name
\* (Direct, and any newer kind) leave it alone
Routed(kind, act) ==
  CASE kind = "blocked" -> "block"
    [] kind \in {"vpn", "tailnet"} -> "route"
    [] kind \in {"tor", "proxy", "anonymous", "chain"} -> "permit"
    [] OTHER -> act

KsVerdict(k, pair) == Verdict(pair, InterfaceLuid(k))

\* History only: the decision if all three tables were read at this instant
Instant(k, pair, list, kinds) ==
  LET found == FirstMatch(list, k.appId) IN
  IF KsVerdict(k, pair) # "none" THEN KsVerdict(k, pair)
  ELSE IF ~k.values \/ found = <<>> THEN "permit"
  ELSE Routed(kinds[found[1].app], PolicyAction(found[1]))

-----------------------------------------------------------------------------
(* IOCTL threads *)

\* Record a change of one table with every connection still being read for
Watch(which) ==
  LET Open(c) == pc[c] \in Reading IN
  /\ instants' = [c \in Classifiers |->
       IF Open(c) THEN instants[c] \cup {Instant(conn[c], ks', policies', routes')}
                  ELSE instants[c]]
  /\ ksSeen' = [c \in Classifiers |->
       IF Open(c) THEN ksSeen[c] \cup {ks'} ELSE ksSeen[c]]
  /\ changed' = [c \in Classifiers |->
       IF Open(c) THEN changed[c] \cup {which} ELSE changed[c]]
  /\ UNCHANGED thread

SetKillSwitch(r) ==
  /\ ks' = Effect(r)
  /\ UNCHANGED <<policies, routes>>
  /\ Watch("kill_switch")

\* g_PolicyCount is the length of the list here: PolicyTable shows that it is
\* while no thread shares a re-initialization, and none does in this module
SetPolicy(p) ==
  /\ Accepts(policies, Len(policies), p)
  /\ policies' = Updated(policies, p)
  /\ UNCHANGED <<ks, routes>>
  /\ Watch("policy")

EmptyPolicies ==
  /\ policies' = <<>>
  /\ UNCHANGED <<ks, routes>>
  /\ Watch("policy")

SetRoute(a, kind) ==
  /\ routes' = [routes EXCEPT ![a] = kind]
  /\ UNCHANGED <<ks, policies>>
  /\ Watch("route")

ClearRoute(a) ==
  /\ routes' = [routes EXCEPT ![a] = "none"]
  /\ UNCHANGED <<ks, policies>>
  /\ Watch("route")

EmptyRoutes ==
  /\ routes' = [a \in Apps |-> "none"]
  /\ UNCHANGED <<ks, policies>>
  /\ Watch("route")

-----------------------------------------------------------------------------
(* Classify threads *)

Goto(c, l) == pc' = [pc EXCEPT ![c] = l]

\* GuardianClassifyReset: whatever rights the engine granted, the write right
\* is given up here
Reset(c) == out' = [out EXCEPT ![c] = NoOut]

Arrive(c, k) ==
  /\ pc[c] \in {"idle", "done"}
  /\ Goto(c, "kill_switch")
  /\ conn' = [conn EXCEPT ![c] = k]
  /\ policy' = [policy EXCEPT ![c] = <<>>]
  /\ action' = [action EXCEPT ![c] = "permit"]
  /\ Reset(c)
  /\ calls' = [calls EXCEPT ![c] = <<>>]
  /\ instants' = [instants EXCEPT ![c] = {Instant(k, ks, policies, routes)}]
  /\ ksSeen' = [ksSeen EXCEPT ![c] = {ks}]
  /\ changed' = [changed EXCEPT ![c] = {}]
  /\ UNCHANGED tables

BadEvaluateKillSwitch(c) ==
  LET v == KsVerdict(conn[c], ks) IN
  /\ pc[c] = "kill_switch"
  /\ IF v = "none"
       THEN Goto(c, "policy") /\ action' = action
       ELSE Goto(c, "policy") /\ action' = [action EXCEPT ![c] = v]
  /\ UNCHANGED <<tables, conn, policy, out, calls, history>>

EvaluateKillSwitch(c) ==
  LET v == KsVerdict(conn[c], ks) IN
  /\ pc[c] = "kill_switch"
  /\ IF v = "none"
       THEN Goto(c, "policy") /\ action' = action
       ELSE Goto(c, "record") /\ action' = [action EXCEPT ![c] = v]
  /\ UNCHANGED <<tables, conn, policy, out, calls, history>>

\* GuardianAppPolicyLookup fails without fixed values: the error is counted
\* and the connection permitted.  Without a policy no route is looked up.
LookupPolicy(c) ==
  LET found == FirstMatch(policies, conn[c].appId) IN
  /\ pc[c] = "policy"
  /\ IF ~conn[c].values
       THEN /\ Goto(c, "error")
            /\ UNCHANGED <<policy, action>>
       ELSE /\ policy' = [policy EXCEPT ![c] = found]
            /\ IF found = <<>>
                 THEN Goto(c, "record") /\ action' = action
                 ELSE /\ Goto(c, "route")
                      /\ action' = [action EXCEPT ![c] = PolicyAction(found[1])]
  /\ UNCHANGED <<tables, conn, out, calls, history>>

BadLookupRoute(c) ==
  /\ pc[c] = "route"
  /\ Goto(c, "record")
  /\ UNCHANGED <<tables, conn, policy, action, out, calls, history>>

LookupRoute(c) ==
  /\ pc[c] = "route"
  /\ action' = [action EXCEPT ![c] = Routed(routes[policy[c][1].app], @)]
  /\ Goto(c, "record")
  /\ UNCHANGED <<tables, conn, policy, out, calls, history>>

\* GuardianClassifyPermit and GuardianClassifyBlock
Answer(c, type) ==
  out' = [out EXCEPT ![c] = [type |-> type, write |-> @.write,
                             absorb |-> @.absorb \/ @.write]]

\* Return to the filter engine; the history of the reads ends with them
Finish(c) ==
  /\ Goto(c, "done")
  /\ instants' = [instants EXCEPT ![c] = {}]
  /\ ksSeen' = [ksSeen EXCEPT ![c] = {}]
  /\ changed' = [changed EXCEPT ![c] = {}]

\* GuardianTelemetryRecordClassify, then the answer
BadRecord(c) ==
  /\ pc[c] = "record"
  /\ calls' = [calls EXCEPT ![c] = IF policy[c] = <<>> /\ action[c] = "block"
                                     THEN @ ELSE Append(@, action[c])]
  /\ Answer(c, IF action[c] = "block" THEN "block" ELSE "permit")
  /\ Finish(c)
  /\ UNCHANGED <<tables, conn, policy, action>>

Record(c) ==
  /\ pc[c] = "record"
  /\ calls' = [calls EXCEPT ![c] = Append(@, action[c])]
  /\ Answer(c, IF action[c] = "block" THEN "block" ELSE "permit")
  /\ Finish(c)
  /\ UNCHANGED <<tables, conn, policy, action>>

\* GuardianTelemetryRecordError, then PERMIT
RecordError(c) ==
  /\ pc[c] = "error"
  /\ calls' = [calls EXCEPT ![c] = Append(@, "error")]
  /\ Answer(c, "permit")
  /\ Finish(c)
  /\ UNCHANGED <<tables, conn, policy, action>>

-----------------------------------------------------------------------------
Change ==
  \/ \E r \in Requests : SetKillSwitch(r)
  \/ \E p \in Policies : SetPolicy(p)
  \/ EmptyPolicies
  \/ \E a \in Apps : ClearRoute(a) \/ \E kind \in RouteKinds : SetRoute(a, kind)
  \/ EmptyRoutes

Step(c) ==
  \/ \E k \in Connections : Arrive(c, k)
  \/ EvaluateKillSwitch(c) \/ LookupPolicy(c) \/ LookupRoute(c)
  \/ Record(c) \/ RecordError(c)

Next == Change \/ \E c \in Classifiers : Step(c)

Spec == Init /\ [][Next]_vars

-----------------------------------------------------------------------------
(* Properties *)

\* Every variable has its type; in particular the action is one of
\* GUARDIAN_CLASSIFY_ACTION, whatever action a policy carries.
TypeOK ==
  /\ ks[1] \in Modes
  /\ policies \in Seq(Policies)
  /\ routes \in [Apps -> RouteKinds \cup {"none"}]
  /\ pc \in [Classifiers -> Reading \cup {"idle", "record", "error", "done"}]
  /\ conn \in [Classifiers -> Connections \cup {None}]
  /\ \A c \in Classifiers : policy[c] \in {<<>>} \cup {<<p>> : p \in Policies}
  /\ action \in [Classifiers -> Actions]
  /\ out \in [Classifiers -> [type : {"none", "permit", "block"},
                              write : BOOLEAN, absorb : BOOLEAN]]
  /\ instants \in [Classifiers -> SUBSET Actions]
  /\ \A c \in Classifiers : \A pair \in ksSeen[c] : pair[1] \in Modes
  /\ changed \in [Classifiers -> SUBSET Reading]

Decided(c) == pc[c] \in {"record", "error"}

\* While the kill switch blocks from a connection's arrival to its decision,
\* the connection is blocked, whatever happens to policies and routes.
KillSwitchHolds ==
  \A c \in Classifiers :
    /\ Decided(c)
    /\ \A pair \in ksSeen[c] : KsVerdict(conn[c], pair) = "block"
    => pc[c] # "error" /\ action[c] = "block"

\* If at most one of the three tables changed, however often, while a
\* connection was being read for, the decision is one that all the tables,
\* read together at some instant of that time, would have given.
OneTableChangeIsAtomic ==
  \A c \in Classifiers :
    Decided(c) /\ Cardinality(changed[c]) <= 1 => action[c] \in instants[c]

\* Every connection is recorded exactly once, under the action the filter
\* engine is told: BLOCK for "block", PERMIT for everything else, errors too.
RecordedAsAnswered ==
  \A c \in Classifiers :
    pc[c] = "done" =>
      /\ Len(calls[c]) = 1
      /\ out[c].type = "block" <=> calls[c][1] = "block"
      /\ out[c].type # "none"

\* "V -->|yes| P[PERMIT]" (docs/callouts.md): in AllowVpnOnly mode a connection
\* on the VPN interface is permitted.
VpnIsPermitted ==
  \A c \in Classifiers :
    /\ Decided(c) /\ conn[c].luid # 0
    /\ ksSeen[c] = {<<AllowVpnOnly, conn[c].luid>>}
    => action[c] # "block"
=============================================================================
