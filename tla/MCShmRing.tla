------------------------------ MODULE MCShmRing ------------------------------
(* ShmRing on small instances: constants for TLC.                          *)
EXTENDS ShmRing

CONSTANTS f0, f1, f2, f3, f4, f5

(* An empty message, three that leave every offset to the next, one that   *)
(* fills a ring of 6 with a header of 2 exactly, and one that never fits.  *)
Several     == {f0, f1, f2, f3, f4, f5}
SeveralSize == [f \in Several |-> CASE f = f0 -> 0 [] f \in {f1, f2} -> 1 [] f = f3 -> 2
                                     [] f = f4 -> 4 [] f = f5 -> 5]
=============================================================================
