---------------------------- MODULE MCWorkerPool ----------------------------
(* WorkerPool on a small instance: constants for TLC. Two workers can be   *)
(* idle while a third one runs; three tasks fill a ring of two and one     *)
(* more has to wait.                                                       *)
EXTENDS WorkerPool

CONSTANTS w1, w2, w3, t1, t2, t3, c1

ThreeWorkers == {w1, w2, w3}
ThreeTasks   == {t1, t2, t3}
OneWaiter    == {c1}

(* -1 lifts the throttle, 1 and 2 are limits.                              *)
AllRequests == {-1, 1, 2}
=============================================================================
