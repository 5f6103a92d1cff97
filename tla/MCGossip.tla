------------------------------ MODULE MCGossip ------------------------------
(* Gossip on a small instance: constants for TLC.                          *)
EXTENDS Gossip, TLC

CONSTANTS a, b, c

(* Two nodes found the cluster, the third joins at any time, perhaps after *)
(* the crash.  a is the seed of the others and has none itself.            *)
Two      == {a, b}
Three    == {a, b, c}
ThroughA == (a :> {}) @@ [n \in Three |-> {a}]
=============================================================================
