------------------------------ MODULE RouteMap ------------------------------
(* What the route table of route_assignment.c promises its callers: one      *)
(* route per application, at most MaxRoutes of them, every operation taking  *)
(* effect in one indivisible step.  The promise is void ("wild") from the    *)
(* moment two threads share the table during a sync's re-initialization.     *)
EXTENDS Integers, FiniteSets

CONSTANTS
  Readers,     \* threads that look routes up
  Apps,        \* application identifiers
  Routes,      \* route assignments, records with fields app and ver
  None,        \* no route
  RouteVersion,
  MaxRoutes

VARIABLES
  map,         \* the route of each application, or None
  asked,       \* the application each reader is asking for, or None
  route,       \* what each reader's last lookup returned
  wild         \* the promise is void

vars == <<map, asked, route, wild>>

Assigned == {a \in Apps : map[a] # None}

Init ==
  /\ map = [a \in Apps |-> None]
  /\ asked = [t \in Readers |-> None]
  /\ route = [t \in Readers |-> None]
  /\ wild = FALSE

\* GuardianRouteSet that returns STATUS_SUCCESS
Put(r) ==
  /\ r.ver = RouteVersion
  /\ r.app \in Assigned \/ Cardinality(Assigned) < MaxRoutes
  /\ map' = [map EXCEPT ![r.app] = r]
  /\ UNCHANGED <<asked, route, wild>>

\* GuardianRouteClear that returns STATUS_SUCCESS
Remove(a) ==
  /\ map' = [map EXCEPT ![a] = None]
  /\ UNCHANGED <<asked, route, wild>>

\* GuardianRouteShutdown, the first half of a sync
RemoveAll ==
  /\ map' = [a \in Apps |-> None]
  /\ UNCHANGED <<asked, route, wild>>

\* GuardianRouteLookup: the output is zeroed, then filled in with the route
\* the application asked for has at that moment
Ask(t, a) ==
  /\ asked[t] = None
  /\ asked' = [asked EXCEPT ![t] = a]
  /\ route' = [route EXCEPT ![t] = None]
  /\ UNCHANGED <<map, wild>>

Answer(t) ==
  /\ asked[t] # None
  /\ route' = [route EXCEPT ![t] = map[asked[t]]]
  /\ asked' = [asked EXCEPT ![t] = None]
  /\ UNCHANGED <<map, wild>>

\* Two threads met during a re-initialization: nothing is promised any more
Void == wild'

Next ==
  \/ \E r \in Routes : Put(r)
  \/ \E a \in Apps : Remove(a)
  \/ RemoveAll
  \/ \E t \in Readers : Answer(t) \/ \E a \in Apps : Ask(t, a)
  \/ Void

Spec == Init /\ [][Next]_vars
=============================================================================
