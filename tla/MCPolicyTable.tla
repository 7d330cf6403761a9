---------------------------- MODULE MCPolicyTable ----------------------------
(* Small instances of PolicyTable for TLC. *)
EXTENDS PolicyTable, TLC

CONSTANTS a1, a2, a3

P(a, act, v) == [app |-> a, match |-> "path", action |-> act, ver |-> v]

MCPolicies == {P(a1, "block", 1), P(a1, "allow", 1), P(a2, "allow", 1),
               P(a3, "allow", 1), P(a1, "allow", 2)}

\* Empty; an application twice; a batch larger than the table; an unknown
\* version half-way
MCBatches == { <<>>,
  <<P(a1, "block", 1), P(a2, "allow", 1), P(a1, "allow", 1)>>,
  <<P(a1, "block", 1), P(a2, "allow", 1), P(a3, "allow", 1)>>,
  <<P(a2, "allow", 1), P(a1, "allow", 2)>> }

\* The threads are interchangeable
Symmetry == Permutations(IoctlThreads)
=============================================================================
