------------------------------ MODULE MCKvStore ------------------------------
(* KvStore on small instances: constants for TLC.                          *)
EXTENDS KvStore

CONSTANTS k1, k3

(* They share a bucket of two and part when the table grows to four.       *)
TwoKeys == {k1, k3}
TwoHash == [k \in TwoKeys |-> IF k = k1 THEN 1 ELSE 3]
=============================================================================
