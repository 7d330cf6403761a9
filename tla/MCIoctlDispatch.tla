--------------------------- MODULE MCIoctlDispatch ---------------------------
(* An instance of IoctlDispatch for TLC, in which handlers, processes and    *)
(* sessions are interchangeable.                                             *)
EXTENDS IoctlDispatch, TLC

Alike ==
  Permutations(Handlers) \cup Permutations(Pids) \cup Permutations(Sessions)
=============================================================================
