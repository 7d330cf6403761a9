---------------------------- MODULE MCLifecycle ----------------------------
(* A small instance of Lifecycle for TLC. *)
EXTENDS Lifecycle

MCRequests == {[mode |-> BlockAll, luid |-> 0], [mode |-> Restore, luid |-> 0]}
=============================================================================
