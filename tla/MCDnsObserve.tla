---------------------------- MODULE MCDnsObserve ----------------------------
(* A small instance of DnsObserve for TLC: the threads of a kind are alike. *)
EXTENDS DnsObserve, TLC

CONSTANTS a1, a2

MCSettings == {[enabled |-> FALSE, excluded |-> {}, observeOnly |-> TRUE],
               [enabled |-> TRUE, excluded |-> {a1}, observeOnly |-> FALSE]}

Alike == Permutations(Classifiers) \cup Permutations(Handlers)
=============================================================================
