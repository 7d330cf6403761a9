---------------------------- MODULE MCRouteTable ----------------------------
(* Small instances of RouteTable for TLC. *)
EXTENDS RouteTable, TLC

CONSTANT k1

R(a, v) == [app |-> a, kind |-> k1, ver |-> v]

\* An empty batch and batches of two routes; an allocation can fail at any
\* route, so the batches that stop half-way are among them
MCBatches ==
  {<<>>} \cup {<<R(a, 1), R(b, 1)>> : <<a, b>> \in {p \in Apps \X Apps : p[1] # p[2]}}

\* Threads of one kind, applications and pool blocks are interchangeable
Symmetry ==
  Permutations(IoctlThreads) \cup Permutations(Nodes) \cup Permutations(Apps)

=============================================================================
