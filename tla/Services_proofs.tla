--------------------------- MODULE Services_proofs ---------------------------
(***************************************************************************)
(* The theorems about the parts (Parts_proofs, KvSnapshot_proofs), carried *)
(* over to their composition.  A behaviour of Services is one of a single  *)
(* part, and the variables that part does not use stand still.             *)
(***************************************************************************)
EXTENDS Services, TLAPS

P == INSTANCE Parts_proofs WITH
  written <- v1, replica <- v2, faults <- v3, total <- v4, equals <- sameTree, None <- NoTree,
  Values <- Trees,
  unsent <- v1, out <- v2, sending <- v3, wire <- v4, rpc <- v5, hdr <- v6, need <- v7,
  buf <- v8, accepted <- v9, got <- v10,
  proxy <- v1, pc <- v2, user <- v3, conn <- v4, recv <- v5, late <- v6, done <- v7, err <- v8,
  body <- v9, response <- v10, seen <- v11,
  lib <- v1, slots <- v2, routes <- v3, job <- v4, owner <- v5, life <- v6, failed <- v7,
  temp <- v1, load <- v2, level <- v3, calm <- v4, limit <- v5, run <- v6

K == INSTANCE KvSnapshot_proofs WITH
  up <- v1, crashes <- v2, clock <- v3, entries <- v4, pc <- v5, now <- v6, text <- v7,
  file <- v8, disk <- v9, path <- v10, tmp <- v11, saved <- v12, gone <- v13, delay <- v14

(* The part a behaviour is of.                                             *)
Of(part) == system = part

LEMMA PartStays ==
    ASSUME NEW part, [Next]_vars
    PROVE  Of(part)' <=> Of(part)
BY DEF Next, vars, Of, Same12, Same11, Same8, Same7, Same5

-----------------------------------------------------------------------------
(* A part of the composition is the part the theorems are about.           *)
LEMMA CopiesRuns ==
    ASSUME Of("replicas")
    PROVE  /\ Init => P!Copies!Init
           /\ [Next]_vars => [P!Copies!Next]_(P!Copies!vars)
           /\ P!Copies!MasksOneFault <=> Copies!MasksOneFault
<1>1. Init => Copies!Init
  BY DEF Init, Of
<1>2. Copies!Init <=> P!Copies!Init
  BY DEF Copies!Init, P!Copies!Init
<1>3. [Next]_vars => Copies!Next \/ UNCHANGED P!Copies!vars
  BY DEF Next, Of, vars, P!Copies!vars
<1>4. Copies!Next <=> P!Copies!Next
  BY DEF Copies!Next, Copies!Read, Copies!Write, Copies!Corrupt, Copies!Winner,
         Copies!Repaired, Copies!Stored, Copies!Same, Copies!Outvoted, Copies!tmr_read,
         Copies!checksum, P!Copies!Next, P!Copies!Read, P!Copies!Write, P!Copies!Corrupt,
         P!Copies!Winner, P!Copies!Repaired, P!Copies!Stored, P!Copies!Same, P!Copies!Outvoted,
         P!Copies!tmr_read, P!Copies!checksum
<1>5. P!Copies!MasksOneFault <=> Copies!MasksOneFault
  BY DEF Copies!MasksOneFault, Copies!tmr_read, Copies!parse_verified, Copies!Winner,
         Copies!Same, Copies!checksum, P!Copies!MasksOneFault, P!Copies!tmr_read,
         P!Copies!parse_verified, P!Copies!Winner, P!Copies!Same, P!Copies!checksum
<1> QED
  BY <1>1, <1>2, <1>3, <1>4, <1>5

LEMMA ProxyRuns ==
    ASSUME Of("proxy")
    PROVE  /\ Init => P!Proxy!Init
           /\ [Next]_vars => [P!Proxy!Next]_(P!Proxy!vars)
           /\ P!Proxy!GateHolds <=> Proxy!GateHolds
<1>1. Init => Proxy!Init
  BY DEF Init, Of
<1>2. Proxy!Init <=> P!Proxy!Init
  BY DEF Proxy!Cardinality, P!Proxy!Cardinality, Proxy!Init, Proxy!Idle, P!Proxy!Init,
         P!Proxy!Idle
<1>3. [Next]_vars => Proxy!Next \/ UNCHANGED P!Proxy!vars
  BY DEF Next, Of, vars, P!Proxy!vars, P!Proxy!call
<1>4. Proxy!Next <=> P!Proxy!Next
  BY DEF Proxy!Cardinality, P!Proxy!Cardinality, Proxy!Next, Proxy!Enable, Proxy!Dispatch,
         Proxy!Work, Proxy!Deadline, Proxy!Connected, Proxy!Arrives, Proxy!Completes,
         Proxy!Error, Proxy!Closes, Proxy!Quiet, Proxy!Current, Proxy!call, Proxy!Set,
         Proxy!Goto, Proxy!Check, Proxy!NoUrl, Proxy!Call, Proxy!Leave, Proxy!Return,
         Proxy!Polls, Proxy!Message, Proxy!OnClose, Proxy!Reply, Proxy!status_for, Proxy!Over,
         Proxy!Outcome, P!Proxy!Next, P!Proxy!Enable, P!Proxy!Dispatch, P!Proxy!Work,
         P!Proxy!Deadline, P!Proxy!Connected, P!Proxy!Arrives, P!Proxy!Completes,
         P!Proxy!Error, P!Proxy!Closes, P!Proxy!Quiet, P!Proxy!Current, P!Proxy!call,
         P!Proxy!Set, P!Proxy!Goto, P!Proxy!Check, P!Proxy!NoUrl, P!Proxy!Call, P!Proxy!Leave,
         P!Proxy!Return, P!Proxy!Polls, P!Proxy!Message, P!Proxy!OnClose, P!Proxy!Reply,
         P!Proxy!status_for, P!Proxy!Over, P!Proxy!Outcome
<1>5. P!Proxy!GateHolds <=> Proxy!GateHolds
  BY DEF Proxy!Cardinality, P!Proxy!Cardinality, Proxy!GateHolds, Proxy!Refused,
         P!Proxy!GateHolds, P!Proxy!Refused
<1> QED
  BY <1>1, <1>2, <1>3, <1>4, <1>5

LEMMA HostRuns ==
    ASSUME Of("plugins")
    PROVE  /\ Init => P!Host!Init
           /\ [Next]_vars => [P!Host!Next]_(P!Host!vars)
           /\ P!Host!NoCallIntoAClosedLibrary <=> Host!NoCallIntoAClosedLibrary
<1>1. Init => Host!Init
  BY DEF Init, Of
<1>2. Host!Init <=> P!Host!Init
  BY DEF Host!Last, Host!Front, P!Host!Last, P!Host!Front, Host!Init, P!Host!Init
<1>3. [Next]_vars => Host!Next \/ UNCHANGED P!Host!vars
  BY DEF Next, Of, vars, P!Host!vars
<1>4. Host!Next <=> P!Host!Next
  BY DEF Host!Last, Host!Front, P!Host!Last, P!Host!Front, Host!Next, Host!Open, Host!Register,
         Host!Loaded, Host!LoadFails, Host!Run, Host!Dispatch, Host!Start, Host!End,
         Host!DestroyPool, Host!FreeRoutes, Host!Shutdown, Host!Close, Host!Becomes, Host!Step,
         Host!Drained, Host!Free, P!Host!Next, P!Host!Open, P!Host!Register, P!Host!Loaded,
         P!Host!LoadFails, P!Host!Run, P!Host!Dispatch, P!Host!Start, P!Host!End,
         P!Host!DestroyPool, P!Host!FreeRoutes, P!Host!Shutdown, P!Host!Close, P!Host!Becomes,
         P!Host!Step, P!Host!Drained, P!Host!Free
<1>5. P!Host!NoCallIntoAClosedLibrary <=> Host!NoCallIntoAClosedLibrary
  BY DEF Host!Last, Host!Front, P!Host!Last, P!Host!Front, Host!NoCallIntoAClosedLibrary,
         P!Host!NoCallIntoAClosedLibrary
<1> QED
  BY <1>1, <1>2, <1>3, <1>4, <1>5

LEMMA SnapRuns ==
    ASSUME Of("snapshot")
    PROVE  /\ Init => K!Init
           /\ [Next]_vars => [K!Next]_(K!vars)
           /\ K!SnapshotSound <=> Snap!SnapshotSound
<1>1. Init => Snap!Init
  BY DEF Init, Of
<1>2. Snap!Init <=> K!Init
  BY DEF Snap!Cardinality, K!Cardinality, Snap!Init, Snap!None, Snap!Inodes, Snap!Empty,
         K!Init, K!None, K!Inodes, K!Empty
<1>3. [Next]_vars => Snap!Next \/ UNCHANGED K!vars
  BY DEF Next, Of, vars, K!vars, K!process, K!store, K!saver, K!files, K!history
<1>4. Snap!Next <=> K!Next
  BY DEF Snap!Cardinality, K!Cardinality, Snap!Next, Snap!Delete, Snap!Values, Snap!Set,
         Snap!Tick, Snap!Die, Snap!Restart, Snap!Save, Snap!process, Snap!saver, Snap!files,
         Snap!history, Snap!Put, Snap!None, Snap!Whole, Snap!Entry, Snap!Begin, Snap!Copy,
         Snap!GiveUp, Snap!Open, Snap!WriteFirst, Snap!WriteRest, Snap!WriteFails,
         Snap!RemoveOld, Snap!Rename, Snap!RenameFails, Snap!Goto, Snap!store, Snap!Skipped,
         Snap!Record, Snap!Inodes, Snap!Target, Snap!Unused, Snap!Empty, Snap!CleanUp,
         Snap!Expired, K!Next, K!Delete, K!Values, K!Set, K!Tick, K!Die, K!Restart, K!Save,
         K!process, K!saver, K!files, K!history, K!Put, K!None, K!Whole, K!Entry, K!Begin,
         K!Copy, K!GiveUp, K!Open, K!WriteFirst, K!WriteRest, K!WriteFails, K!RemoveOld,
         K!Rename, K!RenameFails, K!Goto, K!store, K!Skipped, K!Record, K!Inodes, K!Target,
         K!Unused, K!Empty, K!CleanUp, K!Expired
<1>5. K!SnapshotSound <=> Snap!SnapshotSound
  BY DEF Snap!Cardinality, K!Cardinality, Snap!SnapshotSound, Snap!TypeOK, Snap!NeverTorn,
         Snap!MissingOnlyInTheWindow, Snap!LivesAsLongAsGiven, Snap!Values, Snap!Inodes,
         Snap!None, Snap!Whole, K!SnapshotSound, K!TypeOK, K!NeverTorn,
         K!MissingOnlyInTheWindow, K!LivesAsLongAsGiven, K!Values, K!Inodes, K!None, K!Whole
<1> QED
  BY <1>1, <1>2, <1>3, <1>4, <1>5

LEMMA FramesRuns ==
    ASSUME Of("frames")
    PROVE  /\ Init => P!Frames!Init
           /\ [Next]_vars => [P!Frames!Next]_(P!Frames!vars)
<1>1. Init => Frames!Init
  BY DEF Init, Of
<1>2. Frames!Init <=> P!Frames!Init
  BY DEF Frames!Init, Frames!Nothing, P!Frames!Init, P!Frames!Nothing
<1>3. [Next]_vars => Frames!Next \/ UNCHANGED P!Frames!vars
  BY DEF Next, Of, vars, P!Frames!vars, P!Frames!sender, P!Frames!receiver, P!Frames!history
<1>4. Frames!Next <=> P!Frames!Next
  BY DEF Frames!Next, Frames!Send, Frames!Put, Frames!SenderEnds, Frames!Recv, Frames!TimedOut,
         Frames!GetHeader, Frames!GetBody, Frames!Truncated, Frames!Return,
         Frames!Disconnected, Frames!Frame, Frames!receiver, Frames!history, Frames!Goto,
         Frames!sender, Frames!SizesAt, Frames!AfterTruncation, Frames!Message, Frames!Unit,
         Frames!Nothing, Frames!Junk, P!Frames!Next, P!Frames!Send, P!Frames!Put,
         P!Frames!SenderEnds, P!Frames!Recv, P!Frames!TimedOut, P!Frames!GetHeader,
         P!Frames!GetBody, P!Frames!Truncated, P!Frames!Return, P!Frames!Disconnected,
         P!Frames!Frame, P!Frames!receiver, P!Frames!history, P!Frames!Goto, P!Frames!sender,
         P!Frames!SizesAt, P!Frames!AfterTruncation, P!Frames!Message, P!Frames!Unit,
         P!Frames!Nothing, P!Frames!Junk
<1> QED
  BY <1>1, <1>2, <1>3, <1>4

LEMMA EcoRuns ==
    ASSUME Of("eco")
    PROVE  /\ Init => P!Eco!Init
           /\ [Next]_vars => [P!Eco!Next]_(P!Eco!vars)
           /\ P!Eco!LimitFollowsLevel <=> Eco!LimitFollowsLevel
<1>1. Init => Eco!Init
  BY DEF Init, Of
<1>2. Eco!Init <=> P!Eco!Init
  BY DEF Eco!Init, P!Eco!Init
<1>3. [Next]_vars => Eco!Next \/ UNCHANGED P!Eco!vars
  BY DEF Next, Of, vars, P!Eco!vars
<1>4. Eco!Next <=> P!Eco!Next
  BY DEF Eco!Next, Eco!Tick, Eco!Sampled, Eco!Target, Eco!Counted, Eco!Clamp, Eco!Workers,
         Eco!BusyLevel, Eco!HotLevel, P!Eco!Next, P!Eco!Tick, P!Eco!Sampled, P!Eco!Target,
         P!Eco!Counted, P!Eco!Clamp, P!Eco!Workers, P!Eco!BusyLevel, P!Eco!HotLevel
<1>5. P!Eco!LimitFollowsLevel <=> Eco!LimitFollowsLevel
  BY DEF Eco!LimitFollowsLevel, Eco!TypeOK, P!Eco!LimitFollowsLevel, P!Eco!TypeOK
<1> QED
  BY <1>1, <1>2, <1>3, <1>4, <1>5

-----------------------------------------------------------------------------
LEMMA Assumptions ==
    /\ P!Copies!ReplicasAssumption /\ P!Frames!FramesAssumption /\ P!Eco!EcoAssumption
    /\ \E s : K!One(s)
<1>1. P!Copies!ReplicasAssumption
  BY ServicesAssumption DEF Copies!ReplicasAssumption, P!Copies!ReplicasAssumption
<1>2. P!Frames!FramesAssumption
  BY ServicesAssumption DEF Frames!FramesAssumption, P!Frames!FramesAssumption
<1>3. P!Eco!EcoAssumption
  BY ServicesAssumption DEF Eco!EcoAssumption, P!Eco!EcoAssumption
<1>4. \E s : K!One(s)
  <2>1. K!SnapshotAssumption <=> Snap!SnapshotAssumption
    BY DEF Snap!SnapshotAssumption, K!SnapshotAssumption, Snap!IsFiniteSet, K!IsFiniteSet
  <2> QED
    BY <2>1, ServicesAssumption DEF K!One
<1> QED
  BY <1>1, <1>2, <1>3, <1>4

(* nyxj_tmr_read and nyxj_parse_verified mask one fault of the memory, for *)
(* any values: one that equals itself is read as written, any other is     *)
(* read as NULL whatever the fault left.                                   *)
THEOREM OneFaultNeverShows == Spec => []MasksOneFault
<1>1. Of("replicas") => (Init => P!Copies!Init) /\ ([Next]_vars => [P!Copies!Next]_(P!Copies!vars))
  BY CopiesRuns
<1>2. [Next]_vars => (Of("replicas")' <=> Of("replicas"))
  BY PartStays
<1>3. P!Copies!Spec => []P!Copies!MasksOneFault
  BY Assumptions, P!OneFaultIsMasked
<1>4. Of("replicas") /\ P!Copies!MasksOneFault => MasksOneFault
  BY CopiesRuns DEF MasksOneFault
<1>5. ~Of("replicas") => MasksOneFault
  BY DEF Of, MasksOneFault
<1> QED
  BY <1>1, <1>2, <1>3, <1>4, <1>5, PTL DEF Spec, P!Copies!Spec

(* proxy_handler and nyxj_http_request: what the policy in force at the    *)
(* dispatch refuses never reaches the upstream, and the answers say what   *)
(* happened, for any requests, policies and verdicts.                      *)
THEOREM TheGateHoldsAlways == Spec => []GateHolds
<1>1. Of("proxy") => (Init => P!Proxy!Init) /\ ([Next]_vars => [P!Proxy!Next]_(P!Proxy!vars))
  BY ProxyRuns
<1>2. [Next]_vars => (Of("proxy")' <=> Of("proxy"))
  BY PartStays
<1>3. P!Proxy!Spec => []P!Proxy!GateHolds
  BY P!TheGateHolds
<1>4. Of("proxy") /\ P!Proxy!GateHolds => GateHolds
  BY ProxyRuns DEF GateHolds
<1>5. ~Of("proxy") => GateHolds
  BY DEF Of, GateHolds
<1> QED
  BY <1>1, <1>2, <1>3, <1>4, <1>5, PTL DEF Spec, P!Proxy!Spec

(* The order of nyxj_app_destroy keeps every handler inside a library that *)
(* is open, for any plugins and requests.                                  *)
THEOREM HandlersStayInOpenLibraries == Spec => []NoCallIntoAClosedLibrary
<1>1. Of("plugins") => (Init => P!Host!Init) /\ ([Next]_vars => [P!Host!Next]_(P!Host!vars))
  BY HostRuns
<1>2. [Next]_vars => (Of("plugins")' <=> Of("plugins"))
  BY PartStays
<1>3. P!Host!Spec => []P!Host!NoCallIntoAClosedLibrary
  BY P!NoCallAfterClose
<1>4. Of("plugins") /\ P!Host!NoCallIntoAClosedLibrary => NoCallIntoAClosedLibrary
  BY HostRuns DEF NoCallIntoAClosedLibrary
<1>5. ~Of("plugins") => NoCallIntoAClosedLibrary
  BY DEF Of, NoCallIntoAClosedLibrary
<1> QED
  BY <1>1, <1>2, <1>3, <1>4, <1>5, PTL DEF Spec, P!Host!Spec

(* Under the name of the snapshot there is no file or a whole one, but for *)
(* the window between remove and rename in nyxj_kv_save, and no entry      *)
(* lives longer than it was given and the save waited, wherever the        *)
(* program dies.                                                           *)
THEOREM SnapshotsStaySound == Spec => []SnapshotSound
<1>1. Of("snapshot") => (Init => K!Init) /\ ([Next]_vars => [K!Next]_(K!vars))
  BY SnapRuns
<1>2. [Next]_vars => (Of("snapshot")' <=> Of("snapshot"))
  BY PartStays
<1>3. K!Spec => []K!SnapshotSound
  <2>1. PICK s : K!One(s)
    BY Assumptions
  <2> QED
    BY <2>1, K!SnapshotsAreSound
<1>4. Of("snapshot") /\ K!SnapshotSound => SnapshotSound
  BY SnapRuns DEF SnapshotSound
<1>5. ~Of("snapshot") => SnapshotSound
  BY DEF Of, SnapshotSound
<1> QED
  BY <1>1, <1>2, <1>3, <1>4, <1>5, PTL DEF Spec, K!Spec

(* nyxj_ipc_recv returns what was sent and is not over the limit, whole,   *)
(* once and in order, for any messages and sizes, although it and          *)
(* nyxj_ipc_send read and write piece by piece and may time out or die.    *)
THEOREM TheSocketIsAChannel == Spec => ImplementsChannel
<1>1. Of("frames") => (Init => P!Frames!Init) /\ ([Next]_vars => [P!Frames!Next]_(P!Frames!vars))
  BY FramesRuns
<1>2. [Next]_vars => (Of("frames")' <=> Of("frames"))
  BY PartStays
<1>3. P!Frames!Spec => P!Fits!Spec
  BY Assumptions, P!FramesAreAChannel
<1>4. Of("frames") /\ P!Fits!Init => Channel!Init
  BY DEF Of, P!Fits!Init, Channel!Init
<1>5. Of("frames") /\ Of("frames")' /\ [P!Fits!Next]_(P!Fits!channelVars)
        => [Channel!Next]_(Channel!channelVars)
  BY DEF Of, P!Fits!Next, P!Fits!Send, P!Fits!Receive, P!Fits!channelVars, P!Fitting,
         Channel!Next, Channel!Send, Channel!Receive, Channel!channelVars
<1>6. ~Of("frames") => Channel!Init
  BY DEF Of, Channel!Init
<1>7. ~Of("frames") /\ ~Of("frames")' => [Channel!Next]_(Channel!channelVars)
  BY DEF Of, Channel!channelVars
<1> QED
  BY <1>1, <1>2, <1>3, <1>4, <1>5, <1>6, <1>7, PTL
  DEF Spec, P!Frames!Spec, P!Fits!Spec, ImplementsChannel, Channel!Spec

(* heartbeat_tick: the level follows a worse sample at once and does not   *)
(* go down before the third calm one, and the pool runs what the level     *)
(* allows, for any thresholds, samples and number of threads. (It never    *)
(* goes down at all: LevelNeverFalls in Parts_proofs.)                     *)
THEOREM LevelsFollowTheSamples == Spec => Hysteresis
<1>1. Of("eco") => (Init => P!Eco!Init) /\ ([Next]_vars => [P!Eco!Next]_(P!Eco!vars))
  BY EcoRuns
<1>2. [Next]_vars => (Of("eco")' <=> Of("eco"))
  BY PartStays
<1>3. P!Eco!Spec => []P!Eco!LimitFollowsLevel
  BY Assumptions, P!LimitFollows
<1>4. P!Eco!Spec => [][P!Eco!ByHysteresis]_(P!Eco!vars)
  <2>1. P!Eco!Spec => P!Eco!Hysteresis
    BY Assumptions, P!LevelNeverFalls, PTL
  <2> QED
    BY <2>1, PTL DEF P!Eco!Hysteresis
<1>5. (system = "eco" => Eco!LimitFollowsLevel) <=> (Of("eco") => P!Eco!LimitFollowsLevel)
  BY EcoRuns DEF Of
<1>6. Of("eco") /\ [Next]_vars /\ [P!Eco!ByHysteresis]_(P!Eco!vars)
        => [system = "eco" => Eco!ByHysteresis]_vars
  <2>1. P!Eco!ByHysteresis <=> Eco!ByHysteresis
    BY DEF Eco!ByHysteresis, P!Eco!ByHysteresis, P!Eco!Sampled, P!Eco!BusyLevel, P!Eco!HotLevel,
           Eco!Sampled, Eco!BusyLevel, Eco!HotLevel
  <2>2. Of("eco") /\ [Next]_vars /\ UNCHANGED P!Eco!vars => UNCHANGED vars
    BY DEF Of, Next, Same7, Same8, Same11, Same12, vars, P!Eco!vars
  <2> QED
    BY <2>1, <2>2
<1>7. ~Of("eco") => [system = "eco" => Eco!ByHysteresis]_vars
  BY DEF Of
<1> QED
  BY <1>1, <1>2, <1>3, <1>4, <1>5, <1>6, <1>7, PTL DEF Spec, P!Eco!Spec, Hysteresis
===============================================================================
