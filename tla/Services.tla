------------------------------- MODULE Services -------------------------------
(* Parts of the system that keep to themselves, composed so that one run   *)
(* checks them: every behaviour is one of a single part, the one that      *)
(* "system" names. The parts share the variables v1 .. v14.                *)
EXTENDS Integers, FiniteSets

CONSTANTS
  Trees, sameTree(_, _), NoTree, MaxFaults,                   \* Replicas
  Messages, Size, MaxFrame,                                   \* IpcFrames
  Requests, Policies, Verdict(_, _), MaxEnables,              \* SafeProxy
  Plugins, Jobs,                                              \* PluginHost
  Temps, Loads, EcoTemp, EcoLoad, Threads, MaxRun,            \* EcoThrottle
  Keys, Lasting, Mortal, TTL, Savers, MaxClock, MaxCrashes    \* KvSnapshot

VARIABLES system, v1, v2, v3, v4, v5, v6, v7, v8, v9, v10, v11, v12, v13, v14

vars == <<system, v1, v2, v3, v4, v5, v6, v7, v8, v9, v10, v11, v12, v13, v14>>

-----------------------------------------------------------------------------
Copies == INSTANCE Replicas WITH
  written <- v1, replica <- v2, faults <- v3, total <- v4, equals <- sameTree, None <- NoTree,
  Values <- Trees

Frames == INSTANCE IpcFrames WITH
  unsent <- v1, out <- v2, sending <- v3, wire <- v4, rpc <- v5, hdr <- v6, need <- v7,
  buf <- v8, accepted <- v9, got <- v10

Proxy == INSTANCE SafeProxy WITH
  proxy <- v1, pc <- v2, user <- v3, conn <- v4, recv <- v5, late <- v6, done <- v7, err <- v8,
  body <- v9, response <- v10, seen <- v11

Host == INSTANCE PluginHost WITH
  lib <- v1, slots <- v2, routes <- v3, job <- v4, owner <- v5, life <- v6, failed <- v7

Eco == INSTANCE EcoThrottle WITH
  temp <- v1, load <- v2, level <- v3, calm <- v4, limit <- v5, run <- v6

Snap == INSTANCE KvSnapshot WITH
  up <- v1, crashes <- v2, clock <- v3, entries <- v4, pc <- v5, now <- v6, text <- v7,
  file <- v8, disk <- v9, path <- v10, tmp <- v11, saved <- v12, gone <- v13, delay <- v14

(* What the parts assume, and that one thread saves to a path, as in the   *)
(* server.                                                                 *)
ASSUME ServicesAssumption ==
  /\ Copies!ReplicasAssumption /\ Frames!FramesAssumption /\ Eco!EcoAssumption
  /\ Snap!SnapshotAssumption /\ \E s \in Savers : Savers = {s}

-----------------------------------------------------------------------------
(* The variables a part does not use.                                      *)
Off12 == v12 = 0 /\ v13 = 0 /\ v14 = 0
Off11 == v11 = 0 /\ Off12
Off8  == v8 = 0 /\ v9 = 0 /\ v10 = 0 /\ Off11
Off7  == v7 = 0 /\ Off8
Off5  == v5 = 0 /\ v6 = 0 /\ Off7

Init ==
  \/ system = "replicas" /\ Copies!Init /\ Off5
  \/ system = "frames" /\ Frames!Init /\ Off11
  \/ system = "proxy" /\ Proxy!Init /\ Off12
  \/ system = "plugins" /\ Host!Init /\ Off8
  \/ system = "eco" /\ Eco!Init /\ Off7
  \/ system = "snapshot" /\ Snap!Init

Same12 == UNCHANGED <<system, v12, v13, v14>>
Same11 == Same12 /\ UNCHANGED v11
Same8  == Same11 /\ UNCHANGED <<v8, v9, v10>>
Same7  == Same8 /\ UNCHANGED v7
Same5  == Same7 /\ UNCHANGED <<v5, v6>>

Next ==
  \/ system = "replicas" /\ Copies!Next /\ Same5
  \/ system = "frames" /\ Frames!Next /\ Same11
  \/ system = "proxy" /\ Proxy!Next /\ Same12
  \/ system = "plugins" /\ Host!Next /\ Same8
  \/ system = "eco" /\ Eco!Next /\ Same7
  \/ system = "snapshot" /\ Snap!Next /\ UNCHANGED system

Spec == Init /\ [][Next]_vars

(* The fairness of SafeProxy.                                              *)
Fairness == \A r \in Requests :
  /\ WF_vars(system = "proxy" /\ Proxy!Work(r) /\ Same12)
  /\ WF_vars(system = "proxy" /\ Proxy!Deadline(r) /\ Same12)

-----------------------------------------------------------------------------
(* See Replicas: one fault since the last repair never shows.              *)
MasksOneFault == system = "replicas" => Copies!MasksOneFault

(* See IpcFrames: the socket is a channel, timeouts or not, of the         *)
(* messages that are not over the limit.                                   *)
Channel == INSTANCE FrameChannel WITH
  Messages <- {m \in Messages : Size[m] <= MaxFrame},
  queue    <- IF system = "frames" THEN v9 ELSE <<>>,
  received <- IF system = "frames" THEN v10 ELSE <<>>

ImplementsChannel == Channel!Spec

(* See SafeProxy: the gate holds, answers in time count, late ones do not; *)
(* and every forward ends.                                                 *)
GateHolds        == system = "proxy" => Proxy!GateHolds
EveryForwardEnds == \A r \in Requests :
  (system = "proxy" /\ v2[r] = "polling") ~> (system = "proxy" /\ v2[r] = "replied")

(* See PluginHost: no handler outlives its library.                        *)
NoCallIntoAClosedLibrary == system = "plugins" => Host!NoCallIntoAClosedLibrary

(* See EcoThrottle: the level follows the samples with hysteresis and the  *)
(* limit of the pool follows the level.                                    *)
Hysteresis ==
  /\ [](system = "eco" => Eco!LimitFollowsLevel)
  /\ [][system = "eco" => Eco!ByHysteresis]_vars

(* See KvSnapshot: no torn snapshot, none missing but in the window; and   *)
(* no entry outlives its time by more than the save waited.                *)
SnapshotSound == system = "snapshot" => Snap!SnapshotSound
=============================================================================
