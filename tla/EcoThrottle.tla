----------------------------- MODULE EcoThrottle -----------------------------
(***************************************************************************)
(* Eco-Throttle: heartbeat_tick of src/net/app.c samples the machine and   *)
(* moves the eco level, which limits the concurrency of the worker pool    *)
(* and makes /ready fail.  Temperatures are degrees, loads hundredths of   *)
(* the load per CPU; a load of -1 is one the platform cannot report.       *)
(***************************************************************************)
EXTENDS Integers

CONSTANTS Temps, Loads,       \* what the samples may show
          EcoTemp, EcoLoad,   \* eco_temp_c and eco_load, 0 to switch off
          Threads,            \* worker threads of the pool
          MaxRun              \* bound of the history variable run

EcoAssumption ==
    /\ Temps \subseteq Int /\ Loads \subseteq Nat \cup {-1}
    /\ EcoTemp \in Nat /\ EcoLoad \in Nat
    /\ Threads \in Nat \ {0} /\ MaxRun \in Nat

VARIABLES temp, load,   \* the last sample
          level,        \* app->eco_level
          calm,         \* app->eco_calm_samples
          limit,        \* concurrency limit of the pool
          run           \* samples in a row below the level since it moved (history)

vars == <<temp, load, level, calm, limit, run>>

HotLevel(t)  == IF EcoTemp = 0 \/ t < EcoTemp THEN 0
                ELSE IF t >= EcoTemp + 10 THEN 2 ELSE 1
BusyLevel(l) == IF EcoLoad = 0 \/ l < EcoLoad THEN 0
                ELSE IF 2 * l >= 3 * EcoLoad THEN 2 ELSE 1
Added(t, l)   == BusyLevel(l) + HotLevel(t)
Sampled(t, l) == IF BusyLevel(l) > HotLevel(t) THEN BusyLevel(l) ELSE HotLevel(t)

(* The argument of nyxj_pool_set_concurrency at a level, and what it makes *)
(* of it.  Added and, below, NoHysteresis are plausible mistakes in the    *)
(* definitions that follow them.                                           *)
Workers(v)    == IF v = 0 THEN 0 ELSE IF v = 1 THEN (IF Threads \div 2 > 0 THEN Threads \div 2 ELSE 1)
                 ELSE 1
Clamp(m)      == IF m <= 0 \/ m > Threads THEN Threads ELSE m

(* if (level < eco && ++calm < 3) level = eco: the level to go to, and the *)
(* samples counted, for a sample s.                                        *)
Counted(s)       == IF s < level THEN calm + 1 ELSE calm
NoHysteresis(s)  == s
Target(s)        == IF s < level /\ Counted(s) < 3 THEN level ELSE s

Init == /\ temp \in Temps /\ load \in Loads
        /\ level = 0 /\ calm = 0 /\ limit = Threads /\ run = 0

(* heartbeat_tick: the counter is cleared when the target is not below the *)
(* level, and again when the level moves.                                  *)
Tick(t, l) ==
    LET s == Sampled(t, l) IN
    /\ temp' = t /\ load' = l
    /\ level' = Target(s)
    /\ calm' = IF Target(s) >= level \/ Target(s) # level THEN 0 ELSE Counted(s)
    /\ limit' = IF Target(s) # level THEN Clamp(Workers(Target(s))) ELSE limit
    /\ run' = IF s >= level \/ Target(s) # level THEN 0 ELSE IF run < MaxRun THEN run + 1 ELSE run

Next == \E t \in Temps, l \in Loads : Tick(t, l)

Spec == Init /\ [][Next]_vars

-----------------------------------------------------------------------------
TypeOK == /\ temp \in Temps /\ load \in Loads
          /\ level \in 0 .. 2 /\ calm \in 0 .. 2
          /\ limit \in 1 .. Threads
          /\ run \in 0 .. MaxRun

(* The pool runs what the table in DOCUMENTATION.md says for the level the *)
(* server reports: all workers, half of them but at least one, or one.     *)
LimitFollowsLevel ==
    /\ TypeOK
    /\ level = 0 => limit = Threads
    /\ level = 1 => 2 * limit \in {Threads - 1, Threads} \/ (Threads = 1 /\ limit = 1)
    /\ level = 2 => limit = 1

(* A hot or busy machine is throttled by the very next heartbeat, whatever *)
(* the history of samples, and the level never goes down before three      *)
(* samples in a row were below it.                                         *)
ByHysteresis == /\ Sampled(temp', load') > level => level' = Sampled(temp', load')
                /\ level' < level => run >= 2

Hysteresis == [][ByHysteresis]_vars

(* docs/SERVER.md: "it recovers after three calm samples": the third       *)
(* sample in a row below the level moves it, which ends the run.           *)
RecoversAfterThree == run < 3
=============================================================================
