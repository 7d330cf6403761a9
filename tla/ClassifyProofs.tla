--------------------------- MODULE ClassifyProofs ---------------------------
(* Proofs about Classify, for any number of connections classified at once,  *)
(* and any policies, routes and kill switch requests.                        *)
EXTENDS Classify, FiniteSetTheorems, WellFoundedInduction, TLAPS

-----------------------------------------------------------------------------
(* The inductive invariant *)

Found == {<<>>} \cup {<<p>> : p \in Policies}

\* The types TypeOK leaves out, and what a thread has in hand at each read
CallPart ==
  /\ policy \in [Classifiers -> Found]
  /\ calls \in [Classifiers -> Seq(Actions \cup {"error"})]
  /\ ksSeen = [c \in Classifiers |-> ksSeen[c]]
  /\ \A c \in Classifiers :
       /\ pc[c] \in Reading \cup {"record", "error"} =>
            calls[c] = <<>> /\ conn[c] \in Connections
       /\ pc[c] \in {"kill_switch", "policy", "error"} => action[c] = "permit"
       /\ pc[c] = "error" => ~conn[c].values
       /\ pc[c] = "route" =>
            /\ policy[c] # <<>> /\ conn[c].values
            /\ action[c] = PolicyAction(policy[c][1])

\* What policies and routes say to a connection the kill switch leaves alone
Unblocked(k, list, kinds) ==
  LET found == FirstMatch(list, k.appId) IN
  IF ~k.values \/ found = <<>> THEN "permit"
  ELSE Routed(kinds[found[1].app], PolicyAction(found[1]))

\* The kill switch in place is one the connection has seen; and past the kill
\* switch it has seen one that leaves it alone, or is decided by one it has seen
SeenPart ==
  \A c \in Classifiers :
    /\ pc[c] \in Reading => ks \in ksSeen[c]
    /\ pc[c] \in {"policy", "route", "error"} =>
         \E pair \in ksSeen[c] : KsVerdict(conn[c], pair) = "none"
    /\ pc[c] = "record" =>
         \E pair \in ksSeen[c] : KsVerdict(conn[c], pair) \in {"none", action[c]}

\* What has been read is still so, for the tables that did not change; and
\* what follows from it is the decision of an instant, if one table alone did
InstantPart ==
  \A c \in Classifiers :
    /\ pc[c] \in Reading => Instant(conn[c], ks, policies, routes) \in instants[c]
    /\ pc[c] \in {"policy", "route"} /\ "kill_switch" \notin changed[c] =>
         KsVerdict(conn[c], ks) = "none"
    /\ pc[c] = "route" /\ "policy" \notin changed[c] =>
         policy[c] = FirstMatch(policies, conn[c].appId)
    /\ pc[c] \in {"policy", "route"} /\ changed[c] \subseteq {"kill_switch"} =>
         Unblocked(conn[c], policies, routes) \in instants[c]
    /\ pc[c] = "route" /\ changed[c] \subseteq {"policy"} =>
         Routed(routes[policy[c][1].app], PolicyAction(policy[c][1]))
           \in instants[c]
    /\ \A which \in Reading :
         Decided(c) /\ changed[c] \subseteq {which} => action[c] \in instants[c]

TInv == TypeOK /\ CallPart
IInv == TInv /\ SeenPart /\ InstantPart /\ RecordedAsAnswered

-----------------------------------------------------------------------------
(* Operators *)

\* A set of numbers has a least one.
LEMMA LeastNumber ==
  ASSUME NEW S \in SUBSET Nat, S # {}
  PROVE  \E n \in S : \A m \in S : n <= m
<1>1. PICK n \in S : \A m \in S : ~(<<m, n>> \in OpToRel(<, Nat))
  BY NatLessThanWellFounded, WFMin
<1>2. \A m \in S : ~(m < n)
  BY <1>1 DEF OpToRel
<1> QED BY <1>2

\* A lookup finds at most one policy, and one of the list.
LEMMA FirstMatchFound ==
  ASSUME NEW list \in Seq(Policies), NEW hasAppId
  PROVE  FirstMatch(list, hasAppId) \in Found
<1> DEFINE m == Matching(list, hasAppId)
           n == CHOOSE i \in m : \A j \in m : i <= j
<1>1. CASE m = {}
  BY <1>1 DEF FirstMatch, Found
<1>2. CASE m # {}
  <2>1. m \in SUBSET (1..Len(list))
    BY DEF Matching
  <2>2. \E i \in m : \A j \in m : i <= j
    <3>1. m \in SUBSET Nat
      BY <2>1
    <3> HIDE DEF m
    <3> QED BY <1>2, <3>1, LeastNumber
  <2>3. n \in m
    <3> HIDE DEF m
    <3> QED BY <2>2
  <2>4. list[n] \in Policies
    BY <2>1, <2>3
  <2> QED BY <1>2, <2>4 DEF FirstMatch, Found
<1> QED BY <1>1, <1>2

\* Setting a policy keeps the list a list of policies.
LEMMA UpdatedIsList ==
  ASSUME NEW list \in Seq(Policies), NEW p \in Policies
  PROVE  Updated(list, p) \in Seq(Policies)
  BY DEF Updated, Replaced

\* The kill switch never permits: it blocks, or leaves the decision open,
\* because the interface it is asked about is always 0.
LEMMA VerdictIsBlock ==
  ASSUME NEW k, NEW pair
  PROVE  KsVerdict(k, pair) \in {"block", "none"}
  BY DEF KsVerdict, Verdict, InterfaceLuid, BlockAll, AllowVpnOnly

\* A policy's action is one of the four, and a route keeps it so.
LEMMA RoutedIsAction ==
  /\ \A p : PolicyAction(p) \in Actions
  /\ \A kind : \A act \in Actions : Routed(kind, act) \in Actions
<1>1. \A p : PolicyAction(p) \in Actions
  BY DEF PolicyAction, Actions
<1>2. ASSUME NEW kind, NEW act \in Actions
      PROVE  Routed(kind, act) \in Actions
  <2>1. CASE kind = "blocked"
    BY <2>1 DEF Routed, Actions
  <2>2. CASE kind \in {"vpn", "tailnet"}
    BY <2>2 DEF Routed, Actions
  <2>3. CASE kind \in {"tor", "proxy", "anonymous", "chain"}
    BY <2>3 DEF Routed, Actions
  <2>4. CASE kind \notin {"blocked", "vpn", "tailnet", "tor", "proxy",
                          "anonymous", "chain"}
    BY <2>4 DEF Routed, Actions
  <2> QED BY <2>1, <2>2, <2>3, <2>4
<1> QED BY <1>1, <1>2

\* The decision of an instant is the kill switch's, or else the others'.
LEMMA InstantIs ==
  ASSUME NEW k, NEW pair, NEW list, NEW kinds
  PROVE  /\ KsVerdict(k, pair) = "none" =>
              Instant(k, pair, list, kinds) = Unblocked(k, list, kinds)
         /\ KsVerdict(k, pair) # "none" =>
              Instant(k, pair, list, kinds) = KsVerdict(k, pair)
         /\ Unblocked(k, list, kinds) \in Actions
         /\ Instant(k, pair, list, kinds) \in Actions
<1>1. KsVerdict(k, pair) = "none" =>
        Instant(k, pair, list, kinds) = Unblocked(k, list, kinds)
  BY DEF Instant, Unblocked
<1>2. KsVerdict(k, pair) # "none" =>
        Instant(k, pair, list, kinds) = KsVerdict(k, pair)
  BY DEF Instant
<1>3. Unblocked(k, list, kinds) \in Actions
  <2>1. "permit" \in Actions
    BY DEF Actions
  <2> QED BY <2>1, RoutedIsAction DEF Unblocked
<1>4. KsVerdict(k, pair) # "none" => KsVerdict(k, pair) \in Actions
  BY VerdictIsBlock DEF Actions
<1> QED BY <1>1, <1>2, <1>3, <1>4

-----------------------------------------------------------------------------
(* A change of a table *)

\* What an IOCTL thread leaves to the readers: one table changed, and every
\* connection still being read for took note.
ChangeOf(which) ==
  /\ Watch(which)
  /\ ks'[1] \in Modes
  /\ policies' \in Seq(Policies)
  /\ routes' \in [Apps -> RouteKinds \cup {"none"}]
  /\ which # "kill_switch" => ks' = ks
  /\ which # "policy" => policies' = policies
  /\ which # "route" => routes' = routes

\* Every operation changes one table at most.
LEMMA ChangeIsOfOne ==
  ASSUME TypeOK, Change
  PROVE  \E which \in Reading : ChangeOf(which)
<1>1. ASSUME NEW r \in Requests, SetKillSwitch(r)
      PROVE  ChangeOf("kill_switch")
  <2>1. Effect(r)[1] \in Modes
    BY RequestModes DEF Effect, Modes, Off, Restore
  <2> QED BY <1>1, <2>1 DEF SetKillSwitch, ChangeOf, TypeOK
<1>2. ASSUME NEW p \in Policies, SetPolicy(p)
      PROVE  ChangeOf("policy")
  BY <1>2, UpdatedIsList DEF SetPolicy, ChangeOf, TypeOK
<1>3. CASE EmptyPolicies
  <2>1. ChangeOf("policy")
    BY <1>3 DEF EmptyPolicies, ChangeOf, TypeOK
  <2> QED BY <2>1 DEF Reading
<1>4. ASSUME NEW a \in Apps, ClearRoute(a) \/ \E kind \in RouteKinds : SetRoute(a, kind)
      PROVE  ChangeOf("route")
  BY <1>4 DEF ClearRoute, SetRoute, ChangeOf, TypeOK
<1>5. CASE EmptyRoutes
  <2>1. ChangeOf("route")
    BY <1>5 DEF EmptyRoutes, ChangeOf, TypeOK
  <2> QED BY <2>1 DEF Reading
<1> QED BY <1>1, <1>2, <1>3, <1>4, <1>5 DEF Change, Reading

\* A change keeps the invariant: what it invalidates it also puts among the
\* changed tables, and the instant it makes is remembered.
LEMMA ChangeKeeps ==
  ASSUME IInv, NEW which \in Reading, ChangeOf(which)
  PROVE  IInv'
<1>0. TypeOK /\ CallPart /\ SeenPart /\ InstantPart /\ RecordedAsAnswered
  BY DEF IInv, TInv
<1>1. UNCHANGED thread /\ Watch(which)
  BY DEF ChangeOf, Watch
<1>2. /\ pc' = pc /\ conn' = conn /\ policy' = policy /\ action' = action
      /\ out' = out /\ calls' = calls
  BY <1>1 DEF thread
<1>3. ASSUME NEW c \in Classifiers
      PROVE  /\ pc[c] \in Reading =>
                  /\ instants'[c] = instants[c]
                       \cup {Instant(conn[c], ks', policies', routes')}
                  /\ ksSeen'[c] = ksSeen[c] \cup {ks'}
                  /\ changed'[c] = changed[c] \cup {which}
             /\ pc[c] \notin Reading =>
                  /\ instants'[c] = instants[c] /\ ksSeen'[c] = ksSeen[c]
                  /\ changed'[c] = changed[c]
  BY <1>1 DEF Watch
<1>4. TypeOK'
  <2>1. instants' \in [Classifiers -> SUBSET Actions]
    BY <1>0, <1>1, InstantIs DEF Watch, TypeOK
  <2>2. changed' \in [Classifiers -> SUBSET Reading]
    BY <1>0, <1>1 DEF Watch, TypeOK
  <2>3. ASSUME NEW c \in Classifiers, NEW pair \in ksSeen'[c]
        PROVE  pair[1] \in Modes
    <3>1. pair \in ksSeen[c] \/ pair = ks'
      BY <1>3, <2>3
    <3>2. ks'[1] \in Modes
      BY DEF ChangeOf
    <3> QED BY <1>0, <3>1, <3>2 DEF TypeOK
  <2> QED BY <1>0, <1>2, <2>1, <2>2, <2>3 DEF ChangeOf, TypeOK
<1>5. CallPart'
  <2>1. ksSeen' = [c \in Classifiers |-> ksSeen'[c]]
    BY <1>1 DEF Watch
  <2> QED BY <1>0, <1>2, <2>1 DEF CallPart
<1>6. SeenPart'
  <2> SUFFICES ASSUME NEW c \in Classifiers
               PROVE  /\ pc[c] \in Reading => ks' \in ksSeen'[c]
                      /\ ksSeen[c] \subseteq ksSeen'[c]
    BY <1>0, <1>2 DEF SeenPart, KsVerdict, InterfaceLuid
  <2> QED BY <1>3
<1>7. InstantPart'
  <2> SUFFICES ASSUME NEW c \in Classifiers
               PROVE  /\ pc[c] \in Reading =>
                           Instant(conn[c], ks', policies', routes') \in instants'[c]
                      /\ pc[c] \in {"policy", "route"} /\ "kill_switch" \notin changed'[c] =>
                           KsVerdict(conn[c], ks') = "none"
                      /\ pc[c] = "route" /\ "policy" \notin changed'[c] =>
                           policy[c] = FirstMatch(policies', conn[c].appId)
                      /\ pc[c] \in {"policy", "route"} /\ changed'[c] \subseteq {"kill_switch"} =>
                           Unblocked(conn[c], policies', routes') \in instants'[c]
                      /\ pc[c] = "route" /\ changed'[c] \subseteq {"policy"} =>
                           Routed(routes'[policy[c][1].app], PolicyAction(policy[c][1]))
                             \in instants'[c]
                      /\ \A w \in Reading :
                           Decided(c) /\ changed'[c] \subseteq {w} => action[c] \in instants'[c]
    BY <1>2, Zenon DEF InstantPart, Decided
  <2>1. CASE pc[c] \in Reading
    <3>1. "kill_switch" \notin changed'[c] => ks' = ks /\ "kill_switch" \notin changed[c]
      BY <1>3, <2>1 DEF ChangeOf
    <3>2. "policy" \notin changed'[c] =>
            policies' = policies /\ "policy" \notin changed[c]
      BY <1>3, <2>1 DEF ChangeOf
    <3>3. changed'[c] \subseteq {"kill_switch"} =>
            /\ policies' = policies /\ routes' = routes
            /\ changed[c] \subseteq {"kill_switch"}
      BY <1>3, <2>1 DEF ChangeOf
    <3>4. changed'[c] \subseteq {"policy"} =>
            routes' = routes /\ changed[c] \subseteq {"policy"}
      BY <1>3, <2>1 DEF ChangeOf
    <3>5. ~Decided(c)
      BY <2>1 DEF Decided, Reading
    <3>6. Instant(conn[c], ks', policies', routes') \in instants'[c]
          /\ instants[c] \subseteq instants'[c]
      BY <1>3, <2>1
    <3> QED BY <1>0, <3>1, <3>2, <3>3, <3>4, <3>5, <3>6, Zenon DEF InstantPart
  <2>2. CASE pc[c] \notin Reading
    <3>1. pc[c] \notin {"policy", "route"}
      BY <2>2 DEF Reading
    <3> QED BY <1>0, <1>3, <2>2, <3>1 DEF InstantPart
  <2> QED BY <2>1, <2>2
<1>8. RecordedAsAnswered'
  BY <1>0, <1>2 DEF RecordedAsAnswered
<1> QED BY <1>4, <1>5, <1>6, <1>7, <1>8 DEF IInv, TInv

-----------------------------------------------------------------------------
(* A step of a classification *)

\* A connection arrives, and sees the tables as they are.
LEMMA ArriveKeeps ==
  ASSUME IInv, NEW c \in Classifiers, NEW k \in Connections, Arrive(c, k)
  PROVE  IInv'
<1> USE DEF Goto, Reset, tables
<1>0. TypeOK /\ CallPart /\ SeenPart /\ InstantPart /\ RecordedAsAnswered
  BY DEF IInv, TInv
<1>1. TypeOK'
  <2>1. out' \in [Classifiers -> [type : {"none", "permit", "block"},
                                  write : BOOLEAN, absorb : BOOLEAN]]
    BY <1>0 DEF Arrive, NoOut, TypeOK
  <2>2. instants' \in [Classifiers -> SUBSET Actions]
    BY <1>0, InstantIs DEF Arrive, TypeOK
  <2>3. ASSUME NEW d \in Classifiers, NEW pair \in ksSeen'[d]
        PROVE  pair[1] \in Modes
    <3>1. pair \in ksSeen[d] \/ pair = ks
      BY <1>0, <2>3 DEF Arrive, CallPart
    <3> QED BY <1>0, <3>1 DEF TypeOK
  <2>4. policy' \in [Classifiers -> Found]
    BY <1>0 DEF Arrive, CallPart, Found
  <2>5. action' \in [Classifiers -> Actions]
    BY <1>0 DEF Arrive, TypeOK, Actions
  <2>6. pc' \in [Classifiers -> Reading \cup {"idle", "record", "error", "done"}]
    BY <1>0 DEF Arrive, TypeOK, Reading
  <2>7. conn' \in [Classifiers -> Connections \cup {None}]
    BY <1>0 DEF Arrive, TypeOK
  <2>8. changed' \in [Classifiers -> SUBSET Reading]
    BY <1>0 DEF Arrive, TypeOK
  <2> QED BY <1>0, <2>1, <2>2, <2>3, <2>4, <2>5, <2>6, <2>7, <2>8
          DEF Arrive, TypeOK, Found
<1>2. CallPart'
  <2>1. policy' \in [Classifiers -> Found]
    BY <1>0 DEF Arrive, CallPart, Found
  <2>2. calls' \in [Classifiers -> Seq(Actions \cup {"error"})]
    BY <1>0 DEF Arrive, CallPart
  <2>3. ksSeen' = [d \in Classifiers |-> ksSeen'[d]]
    BY <1>0 DEF Arrive, CallPart
  <2> QED BY <1>0, <2>1, <2>2, <2>3 DEF Arrive, CallPart, TypeOK, Reading
<1>3. SeenPart'
  BY <1>0 DEF Arrive, SeenPart, CallPart, TypeOK, Reading
<1>4. InstantPart'
  BY <1>0, ZenonT(30) DEF Arrive, InstantPart, Decided, TypeOK, CallPart, Reading
<1>5. RecordedAsAnswered'
  BY <1>0 DEF Arrive, RecordedAsAnswered, TypeOK, CallPart
<1> QED BY <1>1, <1>2, <1>3, <1>4, <1>5 DEF IInv, TInv

\* A kill switch that decides decides as the instant it is read; one that does
\* not is seen to leave the connection alone.
LEMMA KillSwitchKeeps ==
  ASSUME IInv, NEW c \in Classifiers, EvaluateKillSwitch(c)
  PROVE  IInv'
<1> USE DEF Goto, tables, history
<1> DEFINE v == KsVerdict(conn[c], ks)
<1>0. TypeOK /\ CallPart /\ SeenPart /\ InstantPart /\ RecordedAsAnswered
  BY DEF IInv, TInv
<1>a. /\ pc[c] = "kill_switch" /\ v \in {"block", "none"}
      /\ pc' = [pc EXCEPT ![c] = IF v = "none" THEN "policy" ELSE "record"]
      /\ action' = [action EXCEPT ![c] = IF v = "none" THEN @ ELSE v]
      /\ UNCHANGED <<tables, conn, policy, out, calls, history>>
  BY <1>0, VerdictIsBlock DEF EvaluateKillSwitch, TypeOK
<1>b. /\ Instant(conn[c], ks, policies, routes) \in instants[c]
      /\ v = "none" => Instant(conn[c], ks, policies, routes)
                         = Unblocked(conn[c], policies, routes)
      /\ v # "none" => Instant(conn[c], ks, policies, routes) = v
  BY <1>0, <1>a, InstantIs DEF InstantPart, Reading
<1> HIDE DEF v
<1>1. TypeOK'
  BY <1>0, <1>a DEF TypeOK, Actions, Reading
<1>2. CallPart'
  BY <1>0, <1>a DEF CallPart, TypeOK, Reading
<1>3. SeenPart'
  BY <1>0, <1>a DEF SeenPart, TypeOK, Reading, v
<1>4. InstantPart'
  BY <1>0, <1>a, <1>b DEF InstantPart, Decided, TypeOK, Reading, v
<1>5. RecordedAsAnswered'
  BY <1>0, <1>a DEF RecordedAsAnswered, TypeOK
<1> QED BY <1>1, <1>2, <1>3, <1>4, <1>5 DEF IInv, TInv

\* While one table at most has changed, what policies and routes say when the
\* policy is read is what some instant said.
LEMMA UnblockedAtPolicy ==
  ASSUME IInv, NEW c \in Classifiers, pc[c] = "policy",
         NEW which \in Reading, changed[c] \subseteq {which}
  PROVE  Unblocked(conn[c], policies, routes) \in instants[c]
<1>1. InstantPart
  BY DEF IInv
<1>2. CASE which = "kill_switch"
  BY <1>1, <1>2 DEF InstantPart
<1>3. CASE which # "kill_switch"
  <2>1. KsVerdict(conn[c], ks) = "none"
    BY <1>1, <1>3 DEF InstantPart
  <2>2. Instant(conn[c], ks, policies, routes) \in instants[c]
    BY <1>1 DEF InstantPart, Reading
  <2> QED BY <2>1, <2>2, InstantIs
<1> QED BY <1>2, <1>3

\* The policy found is the one of the list as it is read.
LEMMA PolicyKeeps ==
  ASSUME IInv, NEW c \in Classifiers, LookupPolicy(c)
  PROVE  IInv'
<1> USE DEF Goto, tables, history
<1> DEFINE found == FirstMatch(policies, conn[c].appId)
<1>0. TypeOK /\ CallPart /\ SeenPart /\ InstantPart /\ RecordedAsAnswered
  BY DEF IInv, TInv
<1>a. /\ pc[c] = "policy" /\ action[c] = "permit" /\ found \in Found
      /\ conn[c] \in Connections /\ calls[c] = <<>>
      /\ UNCHANGED <<tables, conn, out, calls, history>>
  BY <1>0, FirstMatchFound DEF LookupPolicy, CallPart, TypeOK, Reading
<1>b. \A which \in Reading : changed[c] \subseteq {which} =>
        Unblocked(conn[c], policies, routes) \in instants[c]
  BY <1>a, UnblockedAtPolicy
<1>1. CASE ~conn[c].values \/ found = <<>>
  <2>1. /\ \/ pc' = [pc EXCEPT ![c] = "error"] /\ ~conn[c].values
           \/ pc' = [pc EXCEPT ![c] = "record"]
        /\ action' = action
        /\ \A d \in Classifiers \ {c} : policy'[d] = policy[d]
        /\ policy' \in [Classifiers -> Found]
    BY <1>0, <1>1, <1>a DEF LookupPolicy, CallPart
  <2>2. Unblocked(conn[c], policies, routes) = "permit"
    BY <1>1 DEF Unblocked
  <2> HIDE DEF found
  <2>3. TypeOK'
    BY <1>0, <1>a, <2>1 DEF TypeOK, Reading, Found
  <2>4. CallPart'
    BY <1>0, <1>a, <2>1 DEF CallPart, TypeOK, Reading
  <2>5. SeenPart'
    BY <1>0, <1>a, <2>1 DEF SeenPart, TypeOK, Reading
  <2>6. InstantPart'
    BY <1>0, <1>a, <1>b, <2>1, <2>2, SMTT(30) DEF InstantPart, Decided, TypeOK, Reading
  <2>7. RecordedAsAnswered'
    BY <1>0, <1>a, <2>1 DEF RecordedAsAnswered, TypeOK
  <2> QED BY <2>3, <2>4, <2>5, <2>6, <2>7 DEF IInv, TInv
<1>2. CASE conn[c].values /\ found # <<>>
  <2>1. /\ pc' = [pc EXCEPT ![c] = "route"]
        /\ policy' = [policy EXCEPT ![c] = found]
        /\ action' = [action EXCEPT ![c] = PolicyAction(found[1])]
    BY <1>2 DEF LookupPolicy
  <2>2. Unblocked(conn[c], policies, routes)
          = Routed(routes[found[1].app], PolicyAction(found[1]))
    BY <1>2 DEF Unblocked
  <2>3. PolicyAction(found[1]) \in Actions
    BY RoutedIsAction
  <2>a. found = FirstMatch(policies, conn[c].appId)
    OBVIOUS
  <2> HIDE DEF found
  <2>4. TypeOK'
    BY <1>0, <1>a, <2>1, <2>3 DEF TypeOK, CallPart, Reading, Found
  <2>5. CallPart'
    BY <1>0, <1>2, <1>a, <2>1 DEF CallPart, TypeOK, Reading
  <2>6. SeenPart'
    BY <1>0, <1>a, <2>1 DEF SeenPart, TypeOK, Reading
  <2>7. InstantPart'
    BY <1>0, <1>a, <1>b, <2>1, <2>2, <2>a, ZenonT(30)
       DEF InstantPart, Decided, TypeOK, CallPart, Reading
  <2>8. RecordedAsAnswered'
    BY <1>0, <1>a, <2>1 DEF RecordedAsAnswered, TypeOK
  <2> QED BY <2>4, <2>5, <2>6, <2>7, <2>8 DEF IInv, TInv
<1> QED BY <1>1, <1>2

\* The decision the route completes is the one of an instant.
LEMMA RouteKeeps ==
  ASSUME IInv, NEW c \in Classifiers, LookupRoute(c)
  PROVE  IInv'
<1> USE DEF Goto, tables, history
<1> DEFINE decision == Routed(routes[policy[c][1].app], action[c])
<1>0. TypeOK /\ CallPart /\ SeenPart /\ InstantPart /\ RecordedAsAnswered
  BY DEF IInv, TInv
<1>a. /\ pc[c] = "route" /\ policy[c] # <<>> /\ conn[c].values
      /\ action[c] = PolicyAction(policy[c][1])
      /\ pc' = [pc EXCEPT ![c] = "record"]
      /\ action' = [action EXCEPT ![c] = decision]
      /\ UNCHANGED <<tables, conn, policy, out, calls, history>>
  BY <1>0 DEF LookupRoute, CallPart
<1>b. decision \in Actions
  BY <1>0, RoutedIsAction DEF TypeOK
<1>c. ASSUME NEW which \in Reading, changed[c] \subseteq {which}
      PROVE  decision \in instants[c]
  <2>1. "policy" \notin changed[c] =>
          decision = Unblocked(conn[c], policies, routes)
    BY <1>0, <1>a DEF InstantPart, Unblocked
  <2>2. CASE which = "kill_switch"
    BY <1>0, <1>a, <1>c, <2>1, <2>2 DEF InstantPart
  <2>3. CASE which = "policy"
    BY <1>0, <1>a, <1>c, <2>3 DEF InstantPart
  <2>4. CASE which = "route"
    <3>1. KsVerdict(conn[c], ks) = "none"
      BY <1>0, <1>a, <1>c, <2>4 DEF InstantPart
    <3>2. Instant(conn[c], ks, policies, routes) \in instants[c]
      BY <1>0, <1>a DEF InstantPart, Reading
    <3> QED BY <1>c, <2>1, <2>4, <3>1, <3>2, InstantIs
  <2> QED BY <2>2, <2>3, <2>4 DEF Reading
<1> HIDE DEF decision
<1>1. TypeOK'
  BY <1>0, <1>a, <1>b DEF TypeOK, Reading
<1>2. CallPart'
  BY <1>0, <1>a DEF CallPart, TypeOK, Reading
<1>3. SeenPart'
  BY <1>0, <1>a DEF SeenPart, TypeOK, Reading
<1>4. InstantPart'
  BY <1>0, <1>a, <1>c DEF InstantPart, Decided, TypeOK, Reading
<1>5. RecordedAsAnswered'
  BY <1>0, <1>a DEF RecordedAsAnswered, TypeOK
<1> QED BY <1>1, <1>2, <1>3, <1>4, <1>5 DEF IInv, TInv

\* One call and one answer end a classification.
LEMMA FinishKeeps ==
  ASSUME IInv, NEW c \in Classifiers, Record(c) \/ RecordError(c)
  PROVE  IInv'
<1> USE DEF Goto, tables, history, Finish, Answer
<1>0. TypeOK /\ CallPart /\ SeenPart /\ InstantPart /\ RecordedAsAnswered
  BY DEF IInv, TInv
<1>1. PICK call \in Actions \cup {"error"}, type \in {"permit", "block"} :
        /\ type = "block" <=> call = "block"
        /\ calls' = [calls EXCEPT ![c] = Append(@, call)]
        /\ Answer(c, type)
        /\ pc[c] \in {"record", "error"}
        /\ Finish(c)
        /\ UNCHANGED <<tables, conn, policy, action>>
  <2>1. CASE Record(c)
    <3>1. action[c] \in Actions
      BY <1>0 DEF TypeOK
    <3> QED BY <2>1, <3>1 DEF Record
  <2>2. CASE RecordError(c)
    BY <2>2 DEF RecordError
  <2> QED BY <2>1, <2>2
<1>2. calls[c] = <<>>
  BY <1>0, <1>1 DEF CallPart
<1>3. TypeOK'
  BY <1>0, <1>1 DEF TypeOK, Reading
<1>4. CallPart'
  <2>1. calls' \in [Classifiers -> Seq(Actions \cup {"error"})]
    BY <1>0, <1>1 DEF CallPart
  <2> QED BY <1>0, <1>1, <2>1 DEF CallPart, TypeOK, Reading
<1>5. SeenPart'
  BY <1>0, <1>1, ZenonT(30) DEF SeenPart, CallPart, TypeOK, Reading
<1>6. InstantPart'
  BY <1>0, <1>1 DEF InstantPart, Decided, TypeOK, Reading
<1>7. RecordedAsAnswered'
  <2>1. calls'[c] = <<call>> /\ out'[c].type = type
    BY <1>0, <1>1, <1>2 DEF TypeOK, CallPart
  <2> QED BY <1>0, <1>1, <2>1 DEF RecordedAsAnswered, TypeOK, CallPart
<1> QED BY <1>3, <1>4, <1>5, <1>6, <1>7 DEF IInv, TInv

-----------------------------------------------------------------------------
(* The theorems *)

\* The inductive invariant holds throughout.
LEMMA InvariantHolds == Spec => []IInv
<1>1. Init => IInv
  <2> SUFFICES ASSUME Init PROVE IInv
    OBVIOUS
  <2>1. ks[1] \in Modes
    BY BootModesAssumption DEF Init
  <2>2. TypeOK
    <3>1. out \in [Classifiers -> [type : {"none", "permit", "block"},
                                   write : BOOLEAN, absorb : BOOLEAN]]
      BY DEF Init, NoOut
    <3> QED BY <2>1, <3>1 DEF Init, TypeOK, Actions
  <2>3. CallPart
    BY DEF Init, CallPart, Found, Reading
  <2>4. SeenPart /\ InstantPart /\ RecordedAsAnswered
    BY DEF Init, SeenPart, InstantPart, RecordedAsAnswered, Decided, Reading
  <2> QED BY <2>2, <2>3, <2>4 DEF IInv, TInv
<1>2. IInv /\ [Next]_vars => IInv'
  <2> SUFFICES ASSUME IInv, [Next]_vars PROVE IInv'
    OBVIOUS
  <2>1. CASE Change
    <3>1. TypeOK
      BY DEF IInv, TInv
    <3> QED BY <2>1, <3>1, ChangeIsOfOne, ChangeKeeps
  <2>2. ASSUME NEW c \in Classifiers, Step(c)
        PROVE  IInv'
    BY <2>2, ArriveKeeps, KillSwitchKeeps, PolicyKeeps, RouteKeeps, FinishKeeps
       DEF Step
  <2>3. CASE UNCHANGED vars
    BY <2>3 DEF vars, tables, thread, history, IInv, TInv, TypeOK, CallPart,
                SeenPart, InstantPart, RecordedAsAnswered, Decided
  <2> QED BY <2>1, <2>2, <2>3 DEF Next
<1> QED BY <1>1, <1>2, PTL DEF Spec

\* The state of the classifications is well-typed: whatever action a policy
\* carries and whatever kind a route has, the action taken is a known one.
THEOREM TypeCorrect == Spec => []TypeOK
<1>1. IInv => TypeOK
  BY DEF IInv, TInv
<1> QED BY <1>1, InvariantHolds, PTL

\* A connection for which the kill switch blocks all along is blocked.
THEOREM KillSwitchIsObeyed == Spec => []KillSwitchHolds
<1>1. IInv => KillSwitchHolds
  <2> SUFFICES ASSUME IInv, NEW c \in Classifiers, Decided(c),
                      \A pair \in ksSeen[c] : KsVerdict(conn[c], pair) = "block"
               PROVE  pc[c] # "error" /\ action[c] = "block"
    BY DEF KillSwitchHolds
  <2>1. CASE pc[c] = "error"
    BY <2>1 DEF IInv, SeenPart
  <2>2. CASE pc[c] = "record"
    BY <2>2 DEF IInv, SeenPart
  <2> QED BY <2>1, <2>2 DEF Decided
<1> QED BY <1>1, InvariantHolds, PTL

\* If one table at most changed while a connection was read for, its decision
\* is the one of some instant of that time.
THEOREM OneTableChangeIsAtomicHolds == Spec => []OneTableChangeIsAtomic
<1>1. IInv => OneTableChangeIsAtomic
  <2> SUFFICES ASSUME IInv, NEW c \in Classifiers, Decided(c),
                      Cardinality(changed[c]) <= 1
               PROVE  action[c] \in instants[c]
    BY DEF OneTableChangeIsAtomic
  <2>1. changed[c] \subseteq Reading
    BY DEF IInv, TInv, TypeOK
  <2>2. IsFiniteSet(changed[c])
    <3>1. IsFiniteSet(Reading)
      <4>1. Reading = (({} \cup {"kill_switch"}) \cup {"policy"}) \cup {"route"}
        BY DEF Reading
      <4> QED BY <4>1, FS_EmptySet, FS_AddElement
    <3> QED BY <2>1, <3>1, FS_Subset
  <2>3. \E which \in Reading : changed[c] \subseteq {which}
    <3>1. CASE changed[c] = {}
      BY <3>1 DEF Reading
    <3>2. CASE changed[c] # {}
      <4>1. PICK which \in changed[c] : TRUE
        BY <3>2
      <4>2. /\ IsFiniteSet({which}) /\ Cardinality({which}) = 1
        <5>1. {which} = {} \cup {which} /\ which \notin {}
          OBVIOUS
        <5> QED BY <5>1, FS_EmptySet, FS_AddElement
      <4>3. Cardinality({which}) <= Cardinality(changed[c])
        BY <2>2, <4>1, FS_Subset
      <4>4. Cardinality(changed[c]) \in Nat
        BY <2>2, FS_CardinalityType
      <4>5. changed[c] = {which}
        BY <2>2, <4>1, <4>2, <4>3, <4>4, FS_Subset
      <4> QED BY <2>1, <4>1, <4>5
    <3> QED BY <3>1, <3>2
  <2> QED BY <2>3 DEF IInv, InstantPart
<1> QED BY <1>1, InvariantHolds, PTL

\* Every connection is recorded once, under the action the engine is told.
THEOREM RecordedAsAnsweredHolds == Spec => []RecordedAsAnswered
<1>1. IInv => RecordedAsAnswered
  BY DEF IInv
<1> QED BY <1>1, InvariantHolds, PTL
=============================================================================
