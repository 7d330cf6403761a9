---------------------------- MODULE MCKillSwitch ----------------------------
(* A small instance of KillSwitch for TLC. *)
EXTENDS KillSwitch, TLC

\* What the usermode client can send: block_all, allow_vpn_only and restore
MCRequests == {[mode |-> BlockAll, luid |-> 0],
               [mode |-> AllowVpnOnly, luid |-> 1],
               [mode |-> Restore, luid |-> 1]}

Symmetry == Permutations(Setters) \cup Permutations(Evaluators)
=============================================================================
