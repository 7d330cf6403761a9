----------------------------- MODULE MCClassify -----------------------------
(* Small instances of Classify for TLC. *)
EXTENDS Classify

CONSTANTS a1, a2

P(a, m, act) == [app |-> a, match |-> m, action |-> act, ver |-> 1]

MCPolicies == {P(a1, "path", "block"), P(a1, "path", "allow"),
               P(a2, "none", "observe")}

K(v, i, a, l) == [values |-> v, appId |-> i, app |-> a, luid |-> l]

\* With an application id on the VPN interface, without one, and without
\* fixed values
MCConnections == {K(TRUE, TRUE, a2, 1), K(TRUE, FALSE, a2, 0),
                  K(FALSE, FALSE, a1, 0)}

MCRequests == {[mode |-> BlockAll, luid |-> 0],
               [mode |-> AllowVpnOnly, luid |-> 1],
               [mode |-> Restore, luid |-> 0]}
=============================================================================
