------------------------------ MODULE MCServices ------------------------------
(* The parts of Services and, with them, DocSync, on the instances given   *)
(* here and in the .cfg. (DocSync stays out of Services because the        *)
(* functions of trees are recursive.)                                      *)
EXTENDS Services, MCDocuments

CONSTANTS m0, m1, m2, big, deep, fine, odd

(* Copies that differ in a member or in the kind, and one with a key       *)
(* twice, which does not equal itself.                                     *)
SomeTrees == {N(1), Arr(<<N(1)>>), Obj(<<<<A, N(1)>>>>), Obj(<<<<A, N(1)>>, <<A, Null>>>>)}

(* An empty message, two that fit and one that is over the limit.          *)
Sizes == [m \in {m0, m1, m2, big} |-> CASE m = m0 -> 0 [] m = m1 -> 1 [] m = m2 -> 2 [] m = big -> 3]

(* A body both policies let through, one that only the lax one does and    *)
(* one that neither does.                                                  *)
Opinion(policy, r) == CASE r = fine -> "clean"
                        [] r = deep -> IF policy = "lax" THEN "clean" ELSE "depth_limit"
                        [] r = odd  -> "malformed"

(* Below, at and between the thresholds 75 and 85 degrees, 100 and 150     *)
(* hundredths; -1: no temperature sensor, no load average.                 *)
SomeTemps == {-1, 74, 75, 84, 85}
SomeLoads == {-1, 99, 100, 149, 150}

-----------------------------------------------------------------------------
Docs == INSTANCE DocSync WITH
  server <- v1, sent <- v2, versions <- v3, channel <- v4, client <- v5, call <- v6,
  Docs <- MCDocs, Edits <- MCEdits, Fresh <- NoFresh, MaxChanges <- 2, MaxChannel <- 2

MCInit == Init \/ (system = "documents" /\ Docs!Init /\ Off7)
MCNext == Next \/ (system = "documents" /\ Docs!Next /\ Same7)

FairSpec == MCInit /\ [][MCNext]_vars /\ Fairness

(* See DocSync: a refused or unfinished patch never shows, the deltas add  *)
(* up, moves and copies keep the values.                                   *)
ClientShowsAVersion == system = "documents" => Docs!ClientShowsAVersion
ClientCatchesUp     == system = "documents" => Docs!ClientCatchesUp
MovesLoseNothing    == system = "documents" => Docs!MovesLoseNothing
=============================================================================
