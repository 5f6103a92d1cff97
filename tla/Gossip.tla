------------------------------- MODULE Gossip -------------------------------
(***************************************************************************)
(* src/net/cluster.c: nodes that tell each other, over lossy datagrams,    *)
(* how far everybody's heartbeat has got, and judge a peer by the time     *)
(* since they last learned of a later one.                                 *)
(*                                                                         *)
(* Time is counted in gossip intervals.  A node's timer fires once in each.*)
(* A datagram may be lost, delivered more than once and out of order, but  *)
(* not after Delay intervals.  A program that starts again is a new node:  *)
(* its id is drawn anew.  An id stands for the address of its node, too.   *)
(***************************************************************************)
EXTENDS Integers, FiniteSets

CONSTANTS Nodes,        \* ids
          Founders,     \* the nodes that start together at time 0
          Seeds,        \* [Nodes -> SUBSET Nodes]: c->seeds
          Suspect,      \* suspect_ms in intervals
          Dead,         \* dead_ms in intervals
          Fanout,       \* peers a tick picks, 3 in the code
          SeedPeriod,   \* ticks between two messages to the seeds, 10 in the code
          Delay,        \* bound on the life of a datagram
          MaxClock,     \* bound on time
          MaxCrashes    \* bound on crashes

ASSUME GossipAssumption ==
    /\ IsFiniteSet(Nodes) /\ Founders \subseteq Nodes /\ Seeds \in [Nodes -> SUBSET Nodes]
    /\ Suspect \in Nat \ {0} /\ Dead \in Nat /\ Suspect <= Dead
    /\ Fanout \in Nat /\ SeedPeriod \in Nat \ {0} /\ Delay \in Nat
    /\ MaxClock \in Nat /\ MaxCrashes \in Nat

VARIABLES clock,
          up, crashed,   \* running; crashed -> when, for ever
          heartbeat,     \* self.heartbeat
          members,       \* members[n]: peer -> [hb, status, seen]
          ticked,        \* nodes whose timer has fired in this interval
          net            \* datagrams that may still arrive

vars == <<clock, up, crashed, heartbeat, members, ticked, net>>

Init == /\ clock = 0
        /\ up = Founders /\ crashed = <<>>
        /\ heartbeat = [n \in Nodes |-> 0]
        /\ members = [n \in Nodes |-> <<>>]
        /\ ticked = Founders /\ net = {}

(* nyxj_cluster_start: the timer fires an interval later.                  *)
Start(n) == /\ n \notin up /\ n \notin DOMAIN crashed
            /\ up' = up \cup {n} /\ ticked' = ticked \cup {n}
            /\ UNCHANGED <<clock, crashed, heartbeat, members, net>>

(* The process ends: nyxj_cluster_stop tells nobody.                       *)
Crash(n) == /\ n \in up /\ Cardinality(DOMAIN crashed) < MaxCrashes
            /\ up' = up \ {n}
            /\ crashed' = [p \in {n} \cup DOMAIN crashed |-> IF p = n THEN clock ELSE crashed[p]]
            /\ ticked' = ticked \ {n}
            /\ members' = [members EXCEPT ![n] = <<>>]
            /\ net' = {d \in net : d.to # n}
            /\ UNCHANGED <<clock, heartbeat>>

-----------------------------------------------------------------------------
(* gossip_tick: judge every peer, tell what is known of those not dead to  *)
(* some that are alive, and to the seeds now and then or when alone.       *)
Judge(m) == LET age == clock - m.seen
            IN  IF age >= Dead THEN "dead" ELSE IF age >= Suspect THEN "suspect" ELSE "alive"

Everybody(judged)    == DOMAIN judged
WorthTelling(judged) == {p \in DOMAIN judged : judged[p].status # "dead"}

OwnCount(n, judged) == [p \in {n} \cup WorthTelling(judged) |-> heartbeat[n] + 1]
News(n, judged)     == [p \in {n} \cup WorthTelling(judged) |->
                           IF p = n THEN heartbeat[n] + 1 ELSE judged[p].hb]

Tick(n) ==
    /\ n \in up \ ticked
    /\ heartbeat' = [heartbeat EXCEPT ![n] = @ + 1]
    /\ ticked' = ticked \cup {n}
    /\ LET judged == [p \in DOMAIN members[n] |-> [members[n][p] EXCEPT !.status = Judge(members[n][p])]]
           alive  == {p \in DOMAIN judged : judged[p].status = "alive"}
           seeds  == IF alive = {} \/ heartbeat'[n] % SeedPeriod = 0 THEN Seeds[n] ELSE {}
       IN  /\ members' = [members EXCEPT ![n] = judged]
           /\ \E targets \in SUBSET alive :
                  /\ Cardinality(targets) <= Fanout
                  /\ net' = net \cup {[to |-> t, news |-> News(n, judged), sent |-> clock] :
                                          t \in (targets \cup seeds) \ DOMAIN crashed}
    /\ UNCHANGED <<clock, up, crashed>>

(* udp_in and merge: only later heartbeats count, and they count from now. *)
Others(d)   == DOMAIN d.news \ {d.to}

Whatever(known, hb)   == TRUE
NotEarlier(known, hb) == hb >= known.hb
Later(known, hb)      == hb > known.hb

Deliver(d) ==
    /\ d.to \in up
    /\ LET known == members[d.to]
           fresh == {p \in Others(d) : p \in DOMAIN known => Later(known[p], d.news[p])}
       IN  /\ fresh # {}  \* otherwise nothing changes
           /\ members' = [members EXCEPT ![d.to] =
                  [p \in fresh \cup DOMAIN known |->
                      IF p \in fresh THEN [hb |-> d.news[p], status |-> "alive", seen |-> clock]
                                    ELSE known[p]]]
    /\ UNCHANGED <<clock, up, crashed, heartbeat, ticked, net>>

(* Time passes when every timer has fired; datagrams do not last.          *)
Elapse == /\ up \subseteq ticked /\ clock < MaxClock
          /\ clock' = clock + 1 /\ ticked' = {}
          /\ net' = {d \in net : d.sent + Delay >= clock'}
          /\ UNCHANGED <<up, crashed, heartbeat, members>>

Next == \/ \E n \in Nodes : Start(n) \/ Crash(n) \/ Tick(n)
        \/ \E d \in net : Deliver(d)
        \/ Elapse

Spec == Init /\ [][Next]_vars

-----------------------------------------------------------------------------
(* Nodes keep a judged entry, never one of the future, for others only.    *)
TypeOK == /\ clock \in 0 .. MaxClock
          /\ up \subseteq Nodes /\ DOMAIN crashed \subseteq Nodes \ up
          /\ heartbeat \in [Nodes -> Nat]
          /\ \A n \in Nodes : \A p \in DOMAIN members[n] :
                 /\ p \in Nodes \ {n}
                 /\ members[n][p] \in [hb : Nat, status : {"alive", "suspect", "dead"}, seen : 0 .. clock]
          /\ ticked \subseteq up
          /\ \A d \in net : d.to \in Nodes /\ DOMAIN d.news \subseteq Nodes

(* Whatever is lost, repeated, reordered or relayed (merge), a node never  *)
(* believes a peer further than it is.                                     *)
NewsIsReal == \A n \in up : \A p \in DOMAIN members[n] : members[n][p].hb <= heartbeat[p]

(* Nor does what it believes ever go back (the "Stale gossip" of merge).   *)
NeverGoesBack ==
    [][\A n \in up \cap up' : \A p \in DOMAIN members[n] : members[n][p].hb <= members'[n][p].hb]_vars

(* A crashed node that everybody has given up, and of which no datagram    *)
(* tells, stays dead, although new nodes join: nobody digs up its rumour.  *)
Buried(p) == /\ p \in DOMAIN crashed
             /\ \A n \in up : p \in DOMAIN members[n] => members[n][p].status = "dead"
             /\ \A d \in net : p \notin DOMAIN d.news

TheDeadStayDead == [][\A p \in Nodes : Buried(p) => Buried(p)']_vars

(* A crash is known everywhere after a bounded time: the last heartbeat is *)
(* believed at most once by each node, for Dead intervals each time.       *)
Watchers == Cardinality(Nodes) - 1
DetectedBy(p) == crashed[p] + Delay + (Watchers - 1) * (Dead - 1 + Delay) + Dead

DetectedInTime ==
    \A p \in DOMAIN crashed : clock >= DetectedBy(p) =>
        \A n \in up \cap ticked : p \in DOMAIN members[n] => members[n][p].status = "dead"
=============================================================================
