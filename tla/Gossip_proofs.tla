---------------------------- MODULE Gossip_proofs ----------------------------
(***************************************************************************)
(* What the nodes believe of each other, for any number of nodes, any      *)
(* seeds, thresholds and delays, whatever the network does.                *)
(***************************************************************************)
EXTENDS Gossip, FiniteSetTheorems, TLAPS

(* A table maps some peers to entries, a datagram some nodes to heartbeats.*)
Entry == [hb : Nat, status : {"alive", "suspect", "dead"}, seen : 0 .. clock]

IsTable(n, t) == DOMAIN t \subseteq Nodes \ {n} /\ t \in [DOMAIN t -> Entry]
IsNews(f)     == DOMAIN f \subseteq Nodes /\ f \in [DOMAIN f -> Nat]

Typed == /\ clock \in 0 .. MaxClock
         /\ up \subseteq Nodes /\ DOMAIN crashed \subseteq Nodes \ up
         /\ heartbeat \in [Nodes -> Nat]
         /\ DOMAIN members = Nodes /\ members = [n \in Nodes |-> members[n]]
         /\ \A n \in Nodes : IsTable(n, members[n])
         /\ ticked \subseteq up
         /\ \A d \in net : d.to \in Nodes /\ IsNews(d.news)

(* No belief is ahead of its subject, and no datagram: it may become a     *)
(* belief at any time.                                                     *)
TableIsReal(t) == \A p \in DOMAIN t : t[p].hb <= heartbeat[p]
NewsAreReal(f) == \A p \in DOMAIN f : f[p] <= heartbeat[p]

IInv == /\ Typed
        /\ \A n \in Nodes : TableIsReal(members[n])
        /\ \A d \in net : NewsAreReal(d.news)

-----------------------------------------------------------------------------
LEMMA TypedImpliesTypeOK == Typed => TypeOK
BY DEF Typed, TypeOK, IsTable, IsNews, Entry

LEMMA Initially == Init => IInv
BY GossipAssumption DEF Init, IInv, Typed, IsTable, IsNews, TableIsReal, NewsAreReal, Entry

-----------------------------------------------------------------------------
(* What is right of a table or a datagram stays right while heartbeats and *)
(* time grow.                                                              *)
LEMMA TablesKeep ==
    ASSUME Typed, clock' \in Nat, clock <= clock',
           heartbeat' \in [Nodes -> Nat], \A n \in Nodes : heartbeat[n] <= heartbeat'[n],
           NEW n \in Nodes, NEW t, IsTable(n, t), TableIsReal(t)
    PROVE  /\ DOMAIN t \subseteq Nodes \ {n}
           /\ t \in [DOMAIN t -> Entry']
           /\ \A p \in DOMAIN t : t[p].hb <= heartbeat'[p]
<1>1. Entry \subseteq Entry'
  BY DEF Typed, Entry
<1>2. \A p \in DOMAIN t : t[p] \in Entry /\ p \in Nodes
  BY DEF IsTable
<1>3. \A p \in DOMAIN t : t[p].hb <= heartbeat'[p]
  BY <1>2 DEF Typed, TableIsReal, Entry
<1> QED
  BY <1>1, <1>2, <1>3 DEF IsTable

LEMMA NewsKeep ==
    ASSUME Typed, heartbeat' \in [Nodes -> Nat], \A n \in Nodes : heartbeat[n] <= heartbeat'[n],
           NEW f, IsNews(f), NewsAreReal(f)
    PROVE  \A p \in DOMAIN f : f[p] <= heartbeat'[p]
<1>1. \A p \in DOMAIN f : f[p] \in Nat /\ p \in Nodes
  BY DEF IsNews
<1> QED
  BY <1>1 DEF Typed, NewsAreReal

LEMMA StartKeeps ==
    ASSUME IInv, NEW n \in Nodes, Start(n)
    PROVE  IInv'
BY DEF IInv, Typed, Start, IsTable, IsNews, TableIsReal, NewsAreReal, Entry

LEMMA CrashKeeps ==
    ASSUME IInv, NEW n \in Nodes, Crash(n)
    PROVE  IInv'
<1>1. /\ clock' = clock /\ heartbeat' = heartbeat /\ net' \subseteq net
      /\ members' = [members EXCEPT ![n] = <<>>]
  BY DEF Crash
<1>2. IsTable(n, <<>>)' /\ TableIsReal(<<>>)'
  BY DEF IsTable, TableIsReal, Entry
<1>3. \A m \in Nodes : IsTable(m, members[m])' /\ TableIsReal(members[m])'
  BY <1>1, <1>2 DEF IInv, Typed, IsTable, TableIsReal, Entry
<1>4. \A d \in net' : d.to \in Nodes /\ IsNews(d.news) /\ NewsAreReal(d.news)'
  BY <1>1 DEF IInv, Typed, NewsAreReal
<1>5. up' \subseteq Nodes /\ DOMAIN crashed' \subseteq Nodes \ up' /\ ticked' \subseteq up'
  BY DEF IInv, Typed, Crash
<1> QED
  BY <1>1, <1>3, <1>4, <1>5 DEF IInv, Typed, IsNews

LEMMA ElapseKeeps ==
    ASSUME IInv, Elapse
    PROVE  IInv'
<1>1. /\ clock' = clock + 1 /\ clock' \in 0 .. MaxClock /\ heartbeat' = heartbeat
      /\ net' \subseteq net /\ members' = members
  BY GossipAssumption DEF Elapse, IInv, Typed
<1>2. \A m \in Nodes : IsTable(m, members[m])' /\ TableIsReal(members[m])'
  BY <1>1, TablesKeep DEF IInv, Typed, IsTable, TableIsReal
<1>3. \A d \in net' : d.to \in Nodes /\ IsNews(d.news) /\ NewsAreReal(d.news)'
  BY <1>1 DEF IInv, Typed, NewsAreReal
<1>4. up' \subseteq Nodes /\ DOMAIN crashed' \subseteq Nodes \ up' /\ ticked' \subseteq up'
  BY DEF IInv, Typed, Elapse
<1> QED
  BY <1>1, <1>2, <1>3, <1>4 DEF IInv, Typed, IsNews

(* A merged table holds what was known and what was real news.             *)
LEMMA DeliverKeeps ==
    ASSUME IInv, NEW d \in net, Deliver(d)
    PROVE  IInv'
<1> DEFINE n     == d.to
           known == members[n]
           fresh == {p \in Others(d) : p \in DOMAIN known => Later(known[p], d.news[p])}
           table == [p \in fresh \cup DOMAIN known |->
                        IF p \in fresh THEN [hb |-> d.news[p], status |-> "alive", seen |-> clock]
                                       ELSE known[p]]
<1>1. /\ n \in Nodes /\ IsNews(d.news) /\ NewsAreReal(d.news)
      /\ IsTable(n, known) /\ TableIsReal(known)
  BY DEF IInv, Typed
<1>2. /\ clock' = clock /\ heartbeat' = heartbeat /\ net' = net
      /\ up' = up /\ crashed' = crashed /\ ticked' = ticked
      /\ members' = [members EXCEPT ![n] = table]
  BY DEF Deliver
<1>3. \A p \in fresh : /\ p \in Nodes \ {n} /\ p \in DOMAIN d.news
                       /\ table[p] = [hb |-> d.news[p], status |-> "alive", seen |-> clock]
                       /\ table[p] \in Entry /\ table[p].hb <= heartbeat[p]
  <2> SUFFICES ASSUME NEW p \in fresh
               PROVE  /\ p \in Nodes \ {n} /\ p \in DOMAIN d.news
                      /\ table[p] = [hb |-> d.news[p], status |-> "alive", seen |-> clock]
                      /\ table[p] \in Entry /\ table[p].hb <= heartbeat[p]
    OBVIOUS
  <2>1. p \in Nodes \ {n} /\ p \in DOMAIN d.news
    BY <1>1 DEF Others, IsNews
  <2>2. d.news[p] \in Nat /\ d.news[p] <= heartbeat[p]
    BY <1>1, <2>1 DEF IsNews, NewsAreReal
  <2>3. table[p] = [hb |-> d.news[p], status |-> "alive", seen |-> clock]
    OBVIOUS
  <2>4. clock \in 0 .. clock
    BY DEF IInv, Typed
  <2> QED
    BY <2>1, <2>2, <2>3, <2>4 DEF Entry
<1>4. \A p \in DOMAIN known \ fresh : /\ p \in Nodes \ {n}
                                      /\ table[p] \in Entry /\ table[p].hb <= heartbeat[p]
  BY <1>1 DEF IsTable, TableIsReal
<1>5. IsTable(n, table) /\ TableIsReal(table)
  <2>1. DOMAIN table = fresh \cup DOMAIN known
    OBVIOUS
  <2>2. table \in [DOMAIN table -> Entry]
    BY <1>3, <1>4
  <2> HIDE DEF table, fresh, known
  <2> QED
    BY <1>3, <1>4, <2>1, <2>2 DEF IsTable, TableIsReal
<1> HIDE DEF table, fresh, known
<1>6. \A m \in Nodes : IsTable(m, members[m])' /\ TableIsReal(members[m])'
  <2> TAKE m \in Nodes
  <2>1. IsTable(m, members'[m]) /\ TableIsReal(members'[m])
    BY <1>1, <1>2, <1>5 DEF IInv, Typed
  <2> QED
    BY <1>2, <2>1 DEF IsTable, TableIsReal, Entry
<1>7. DOMAIN members' = Nodes /\ members' = [m \in Nodes |-> members'[m]]
  BY <1>1, <1>2 DEF IInv, Typed
<1> QED
  BY <1>2, <1>6, <1>7 DEF IInv, Typed, IsNews, NewsAreReal

(* What a tick tells is its own new heartbeat and what it believed.        *)
LEMMA TickKeeps ==
    ASSUME IInv, NEW n \in Nodes, Tick(n)
    PROVE  IInv'
<1> DEFINE judged == [p \in DOMAIN members[n] |->
                         [members[n][p] EXCEPT !.status = Judge(members[n][p])]]
           news   == News(n, judged)
<1>1. IsTable(n, members[n]) /\ TableIsReal(members[n])
  BY DEF IInv, Typed
<1>2. /\ clock' = clock /\ up' = up /\ crashed' = crashed
      /\ ticked' \subseteq up
      /\ heartbeat' = [heartbeat EXCEPT ![n] = @ + 1]
      /\ members' = [members EXCEPT ![n] = judged]
  BY DEF Tick, IInv, Typed
<1>3. PICK reached : net' = net \cup {[to |-> t, news |-> news, sent |-> clock] : t \in reached}
                     /\ reached \subseteq DOMAIN judged \cup Seeds[n]
  <2>1. PICK targets \in SUBSET {p \in DOMAIN judged : judged[p].status = "alive"} :
           net' = net \cup {[to |-> t, news |-> news, sent |-> clock] :
                 t \in (targets \cup (IF {p \in DOMAIN judged : judged[p].status = "alive"} = {}
                                         \/ heartbeat'[n] % SeedPeriod = 0
                                      THEN Seeds[n] ELSE {})) \ DOMAIN crashed}
    BY DEF Tick
  <2> HIDE DEF judged, news
  <2> QED
    BY <2>1
<1>4. /\ heartbeat' \in [Nodes -> Nat] /\ \A m \in Nodes : heartbeat[m] <= heartbeat'[m]
      /\ heartbeat'[n] = heartbeat[n] + 1
  BY <1>2 DEF IInv, Typed
<1>5. DOMAIN judged = DOMAIN members[n]
  OBVIOUS
<1>6. \A p \in DOMAIN judged : judged[p] \in Entry /\ judged[p].hb = members[n][p].hb
  BY <1>1 DEF IsTable, Entry, Judge
<1>7. IsTable(n, judged) /\ TableIsReal(judged)
  <2>1. judged \in [DOMAIN judged -> Entry]
    BY <1>6
  <2> HIDE DEF judged
  <2> QED
    BY <1>1, <1>5, <1>6, <2>1 DEF IsTable, TableIsReal
<1> HIDE DEF judged
<1>8. /\ IsNews(news)
      /\ \A p \in DOMAIN news : news[p] <= heartbeat'[p]
  <2>1. WorthTelling(judged) \subseteq DOMAIN judged
    BY DEF WorthTelling
  <2>2. DOMAIN news = {n} \cup WorthTelling(judged)
    BY DEF News
  <2>3. \A p \in DOMAIN news : news[p] = IF p = n THEN heartbeat[n] + 1 ELSE judged[p].hb
    BY DEF News
  <2>4. \A p \in WorthTelling(judged) : p \in Nodes /\ judged[p].hb \in Nat /\ judged[p].hb <= heartbeat[p]
    BY <1>7, <2>1 DEF IsTable, TableIsReal, Entry
  <2>5. \A p \in DOMAIN news : p \in Nodes /\ news[p] \in Nat /\ news[p] <= heartbeat'[p]
    BY <1>4, <2>2, <2>3, <2>4 DEF IInv, Typed
  <2>6. news = [p \in DOMAIN news |-> news[p]]
    BY DEF News
  <2> HIDE DEF news
  <2> QED
    BY <2>5, <2>6 DEF IsNews
<1> HIDE DEF news
<1>9. \A m \in Nodes : IsTable(m, members[m])' /\ TableIsReal(members[m])'
  <2> TAKE m \in Nodes
  <2>1. IsTable(m, members'[m]) /\ TableIsReal(members'[m])
    BY <1>2, <1>7 DEF IInv, Typed
  <2>2. \A p \in DOMAIN members'[m] : members'[m][p].hb <= heartbeat'[p]
    BY <1>2, <1>4, <2>1, TablesKeep DEF IInv, Typed
  <2> QED
    BY <1>2, <2>1, <2>2 DEF IsTable, TableIsReal, Entry
<1>10. \A d \in net' : d.to \in Nodes /\ IsNews(d.news) /\ NewsAreReal(d.news)'
  <2> TAKE d \in net'
  <2>1. CASE d \in net
    BY <1>4, <2>1, NewsKeep DEF IInv, Typed, NewsAreReal
  <2>2. CASE d \notin net
    <3>1. PICK t \in reached : d = [to |-> t, news |-> news, sent |-> clock]
      BY <1>3, <2>2
    <3>2. t \in Nodes
      BY <1>3, <1>7, GossipAssumption DEF IsTable
    <3> QED
      BY <1>8, <3>1, <3>2 DEF NewsAreReal
  <2> QED
    BY <2>1, <2>2
<1>11. DOMAIN members' = Nodes /\ members' = [m \in Nodes |-> members'[m]]
  BY <1>2 DEF IInv, Typed
<1> QED
  BY <1>2, <1>4, <1>9, <1>10, <1>11 DEF IInv, Typed, IsNews

-----------------------------------------------------------------------------
LEMMA InductiveStep ==
    ASSUME IInv, [Next]_vars
    PROVE  IInv'
<1>1. CASE \E n \in Nodes : Start(n)
  BY <1>1, StartKeeps
<1>2. CASE \E n \in Nodes : Crash(n)
  BY <1>2, CrashKeeps
<1>3. CASE \E n \in Nodes : Tick(n)
  BY <1>3, TickKeeps
<1>4. CASE \E d \in net : Deliver(d)
  BY <1>4, DeliverKeeps
<1>5. CASE Elapse
  BY <1>5, ElapseKeeps
<1>6. CASE UNCHANGED vars
  BY <1>6 DEF vars, IInv, Typed, IsTable, IsNews, TableIsReal, NewsAreReal, Entry
<1> QED
  BY <1>1, <1>2, <1>3, <1>4, <1>5, <1>6 DEF Next

(* Beliefs and datagrams are real in every behaviour of the nodes.         *)
THEOREM Inductive == Spec => []IInv
<1>1. IInv /\ [Next]_vars => IInv'
  BY InductiveStep
<1> QED
  BY Initially, <1>1, PTL DEF Spec

(* Tables and datagrams are what the code takes them for, and a node is    *)
(* not in its own table (the test of the id in merge).                     *)
THEOREM TypeCorrect == Spec => []TypeOK
BY Inductive, TypedImpliesTypeOK, PTL DEF IInv

(* No node believes a peer further than it is, however datagrams are lost, *)
(* repeated, reordered and relayed by gossip_tick.                         *)
THEOREM NewsAreNeverInvented == Spec => []NewsIsReal
<1>1. IInv => NewsIsReal
  BY DEF IInv, Typed, NewsIsReal, TableIsReal
<1> QED
  BY <1>1, Inductive, PTL

(* In one step a node that keeps running keeps everybody in its table, and *)
(* no heartbeat of it goes back.                                           *)
LEMMA BeliefKeeps ==
    ASSUME IInv, [Next]_vars, NEW n \in up \cap up', NEW p \in DOMAIN members[n]
    PROVE  p \in DOMAIN members'[n] /\ members[n][p].hb <= members'[n][p].hb
<1>1. n \in Nodes /\ IsTable(n, members[n]) /\ members[n][p].hb \in Nat
  BY DEF IInv, Typed, IsTable, Entry
<1>2. CASE members'[n] = members[n]
  BY <1>1, <1>2
<1>3. CASE \E m \in Nodes : Crash(m)
  <2>1. PICK m \in Nodes : Crash(m)
    BY <1>3
  <2>2. m # n
    BY <2>1 DEF Crash
  <2> QED
    BY <1>1, <1>2, <2>1, <2>2 DEF Crash, IInv, Typed
<1>4. CASE Tick(n)
  <2>1. /\ members'[n][p] = [members[n][p] EXCEPT !.status = Judge(members[n][p])]
        /\ p \in DOMAIN members'[n]
    BY <1>1, <1>4 DEF Tick, IInv, Typed
  <2>2. members[n][p] \in Entry
    BY <1>1 DEF IsTable
  <2> QED
    BY <1>1, <2>1, <2>2 DEF Entry
<1>5. CASE \E d \in net : Deliver(d) /\ d.to = n
  <2>1. PICK d \in net : Deliver(d) /\ d.to = n
    BY <1>5
  <2> DEFINE fresh == {q \in Others(d) : q \in DOMAIN members[n] => Later(members[n][q], d.news[q])}
             table == [q \in fresh \cup DOMAIN members[n] |->
                          IF q \in fresh THEN [hb |-> d.news[q], status |-> "alive", seen |-> clock]
                                         ELSE members[n][q]]
  <2>2. IsNews(d.news)
    BY DEF IInv, Typed
  <2>3. members'[n] = table
    BY <1>1, <2>1 DEF Deliver, IInv, Typed
  <2>4. CASE p \in fresh
    <3>1. table[p].hb = d.news[p]
      BY <2>4
    <3>2. d.news[p] \in Nat /\ d.news[p] > members[n][p].hb
      BY <2>2, <2>4 DEF IsNews, Others, Later
    <3> QED
      BY <1>1, <2>3, <3>1, <3>2
  <2>5. CASE p \notin fresh
    <3>1. table[p] = members[n][p]
      BY <2>5
    <3> QED
      BY <1>1, <2>3, <3>1
  <2> QED
    BY <2>4, <2>5
<1>6. CASE (\E m \in Nodes : Start(m)) \/ Elapse \/ UNCHANGED vars
  BY <1>2, <1>6 DEF Start, Elapse, vars
<1>7. CASE \E m \in Nodes \ {n} : Tick(m)
  BY <1>1, <1>2, <1>7 DEF Tick, IInv, Typed
<1>8. CASE \E d \in net : Deliver(d) /\ d.to # n
  <2>1. PICK d \in net : Deliver(d) /\ d.to # n
    BY <1>8
  <2>2. PICK t : members' = [members EXCEPT ![d.to] = t]
    BY <2>1 DEF Deliver
  <2> QED
    BY <1>1, <1>2, <2>1, <2>2 DEF IInv, Typed
<1> QED
  BY <1>3, <1>4, <1>5, <1>6, <1>7, <1>8 DEF Next

(* A step of a node that keeps running never makes it forget news: merge   *)
(* takes later heartbeats only, and a tick keeps them.                     *)
THEOREM BeliefsNeverGoBack == Spec => NeverGoesBack
<1>1. IInv /\ [Next]_vars =>
         [\A n \in up \cap up' : \A p \in DOMAIN members[n] : members[n][p].hb <= members'[n][p].hb]_vars
  BY BeliefKeeps
<1> QED
  BY <1>1, Inductive, PTL DEF Spec, NeverGoesBack

-----------------------------------------------------------------------------
(* A node that is not running knows nobody, and the dead are overdue: the  *)
(* next tick will judge them dead again.                                   *)
DeadIsOverdue(t) == \A p \in DOMAIN t : t[p].status = "dead" => clock - t[p].seen >= Dead

Settled == /\ \A n \in Nodes \ up : DOMAIN members[n] = {}
           /\ \A n \in Nodes : DeadIsOverdue(members[n])

(* How one step changes the table of one node.                             *)
LEMMA TableSteps ==
    ASSUME IInv, [Next]_vars, NEW n \in Nodes
    PROVE  \/ members'[n] = members[n] /\ clock' \in {clock, clock + 1}
           \/ members'[n] = <<>> /\ clock' = clock
           \/ n \in up /\ Tick(n)
           \/ \E d \in net : d.to = n /\ n \in up /\ Deliver(d)
<1>1. CASE (\E m \in Nodes : Start(m)) \/ Elapse \/ UNCHANGED vars
  BY <1>1 DEF Start, Elapse, vars
<1>2. CASE \E m \in Nodes : Crash(m)
  BY <1>2 DEF Crash, IInv, Typed
<1>3. CASE \E m \in Nodes : Tick(m)
  <2>1. PICK m \in Nodes : Tick(m)
    BY <1>3
  <2>2. PICK t : members' = [members EXCEPT ![m] = t]
    BY <2>1 DEF Tick
  <2>3. m \in up /\ clock' = clock
    BY <2>1 DEF Tick
  <2> QED
    BY <2>1, <2>2, <2>3 DEF IInv, Typed
<1>4. CASE \E d \in net : Deliver(d)
  <2>1. PICK d \in net : Deliver(d)
    BY <1>4
  <2>2. PICK t : members' = [members EXCEPT ![d.to] = t]
    BY <2>1 DEF Deliver
  <2>3. d.to \in up /\ clock' = clock
    BY <2>1 DEF Deliver
  <2> QED
    BY <2>1, <2>2, <2>3 DEF IInv, Typed
<1> QED
  BY <1>1, <1>2, <1>3, <1>4 DEF Next

(* A tick keeps everybody in the table and judges by age.                  *)
LEMMA TickJudges ==
    ASSUME IInv, NEW n \in Nodes, Tick(n)
    PROVE  /\ DOMAIN members'[n] = DOMAIN members[n] /\ clock' = clock
           /\ \A p \in DOMAIN members[n] :
                 /\ members'[n][p].seen = members[n][p].seen
                 /\ members'[n][p].seen \in Nat
                 /\ members'[n][p].status = Judge(members[n][p])
<1>1. /\ clock' = clock
      /\ members'[n] = [p \in DOMAIN members[n] |->
                          [members[n][p] EXCEPT !.status = Judge(members[n][p])]]
  BY DEF Tick, IInv, Typed
<1>2. \A p \in DOMAIN members[n] : members[n][p] \in Entry
  BY DEF IInv, Typed, IsTable
<1>3. ASSUME NEW p \in DOMAIN members[n]
      PROVE  /\ members'[n][p].seen = members[n][p].seen
             /\ members'[n][p].seen \in Nat
             /\ members'[n][p].status = Judge(members[n][p])
  <2>1. members'[n][p] = [members[n][p] EXCEPT !.status = Judge(members[n][p])]
    BY <1>1
  <2> DEFINE st == Judge(members[n][p])
  <2> HIDE DEF st
  <2>2. members'[n][p] = [members[n][p] EXCEPT !.status = st]
    BY <2>1 DEF st
  <2>3. members'[n][p].status = st
    BY <1>2, <2>2 DEF Entry
  <2> QED
    BY <1>2, <2>2, <2>3 DEF Entry, IInv, Typed, st
<1> QED
  BY <1>1, <1>3

(* A delivery leaves alone whoever its datagram does not name.             *)
LEMMA DeliverNames ==
    ASSUME IInv, NEW d \in net, Deliver(d)
    PROVE  /\ clock' = clock
           /\ \A p \in DOMAIN members'[d.to] :
                 \/ p \in DOMAIN d.news /\ members'[d.to][p].status = "alive"
                 \/ p \in DOMAIN members[d.to] /\ members'[d.to][p] = members[d.to][p]
<1> DEFINE fresh == {q \in Others(d) : q \in DOMAIN members[d.to] =>
                                           Later(members[d.to][q], d.news[q])}
           table == [q \in fresh \cup DOMAIN members[d.to] |->
                        IF q \in fresh THEN [hb |-> d.news[q], status |-> "alive", seen |-> clock]
                                       ELSE members[d.to][q]]
<1>1. members'[d.to] = table /\ clock' = clock
  BY DEF Deliver, IInv, Typed
<1>2. fresh \subseteq DOMAIN d.news
  BY DEF Others
<1>3. \A p \in DOMAIN table : \/ p \in fresh /\ table[p].status = "alive"
                              \/ p \in DOMAIN members[d.to] /\ table[p] = members[d.to][p]
  OBVIOUS
<1> HIDE DEF table, fresh
<1> QED
  BY <1>1, <1>2, <1>3

LEMMA SettledKeeps ==
    ASSUME IInv, Settled, [Next]_vars
    PROVE  Settled'
<1>1. ASSUME NEW n \in Nodes, n \notin up'
      PROVE  DOMAIN members'[n] = {}
  <2>1. CASE n \in up
    <3>1. Crash(n)
      BY <1>1, <2>1 DEF Next, Start, Crash, Tick, Deliver, Elapse, vars
    <3> QED
      BY <3>1 DEF Crash, IInv, Typed
  <2>2. CASE n \notin up
    BY <2>2, TableSteps DEF Settled
  <2> QED
    BY <2>1, <2>2
<1>2. ASSUME NEW n \in Nodes
      PROVE  DeadIsOverdue(members[n])'
  <2>1. \A p \in DOMAIN members[n] : members[n][p].seen \in Nat /\ clock \in Nat
    BY DEF IInv, Typed, IsTable, Entry
  <2>2. CASE members'[n] = members[n] /\ clock' \in {clock, clock + 1}
    BY <2>1, <2>2, GossipAssumption DEF Settled, DeadIsOverdue
  <2>3. CASE members'[n] = <<>>
    BY <2>3 DEF DeadIsOverdue
  <2>4. CASE Tick(n)
    BY <2>1, <2>4, TickJudges, GossipAssumption DEF DeadIsOverdue, Judge
  <2>5. CASE \E d \in net : d.to = n /\ Deliver(d)
    <3>1. PICK d \in net : d.to = n /\ Deliver(d)
      BY <2>5
    <3> QED
      BY <3>1, DeliverNames DEF Settled, DeadIsOverdue
  <2> QED
    BY <2>2, <2>3, <2>4, <2>5, TableSteps
<1> QED
  BY <1>1, <1>2 DEF Settled

LEMMA AlwaysSettled == Spec => []Settled
<1>1. Init => Settled
  BY DEF Init, Settled, DeadIsOverdue
<1>2. IInv /\ Settled /\ [Next]_vars => Settled'
  BY SettledKeeps
<1> QED
  BY <1>1, <1>2, Inductive, PTL DEF Spec

(* Once everybody has given a crashed node up and no datagram tells of it, *)
(* no step makes anybody believe in it again, nor tell of it: gossip_tick  *)
(* leaves the dead out, and a node that joins has no memory.               *)
THEOREM TheDeadAreForgotten == Spec => TheDeadStayDead
<1>1. ASSUME IInv, Settled, [Next]_vars, NEW p \in Nodes, Buried(p)
      PROVE  Buried(p)'
  <2>1. p \in DOMAIN crashed' /\ p \notin up
    BY <1>1 DEF IInv, Typed, Buried, Next, Start, Crash, Tick, Deliver, Elapse, vars
  <2>2. ASSUME NEW n \in up', p \in DOMAIN members'[n]
        PROVE  members'[n][p].status = "dead"
    <3>1. n \in Nodes
      BY <1>1 DEF IInv, Typed, Next, Start, Crash, Tick, Deliver, Elapse, vars
    <3>2. CASE members'[n] = members[n]
      <4>1. DOMAIN members[n] # {}
        BY <2>2, <3>2
      <4> QED
        BY <1>1, <2>2, <3>1, <3>2, <4>1 DEF Settled, Buried
    <3>3. CASE members'[n] = <<>>
      BY <2>2, <3>3
    <3>4. CASE n \in up /\ Tick(n)
      <4>1. p \in DOMAIN members[n] /\ members[n][p].status = "dead"
        BY <1>1, <2>2, <3>1, <3>4, TickJudges DEF Buried
      <4>2. clock - members[n][p].seen >= Dead
        BY <1>1, <3>1, <4>1 DEF Settled, DeadIsOverdue
      <4>3. Judge(members[n][p]) = "dead"
        BY <4>2 DEF Judge
      <4> QED
        BY <1>1, <3>1, <3>4, <4>1, <4>3, TickJudges
    <3>5. CASE \E d \in net : d.to = n /\ n \in up /\ Deliver(d)
      <4>1. PICK d \in net : d.to = n /\ n \in up /\ Deliver(d)
        BY <3>5
      <4> QED
        BY <1>1, <2>2, <4>1, DeliverNames DEF Buried
    <3> QED
      BY <1>1, <3>1, <3>2, <3>3, <3>4, <3>5, TableSteps
  <2>3. ASSUME NEW d \in net'
        PROVE  p \notin DOMAIN d.news
    <3>1. CASE d \in net
      BY <1>1, <3>1 DEF Buried
    <3>2. CASE d \notin net
      <4>1. PICK n \in Nodes : Tick(n)
        BY <1>1, <2>3, <3>2 DEF Next, Start, Crash, Deliver, Elapse, vars
      <4> DEFINE judged == [q \in DOMAIN members[n] |->
                               [members[n][q] EXCEPT !.status = Judge(members[n][q])]]
      <4>2. d.news = News(n, judged) /\ n \in up /\ members'[n] = judged
        <5>1. n \in up /\ members'[n] = judged
          BY <1>1, <4>1 DEF Tick, IInv, Typed
        <5>2. \E t : d = [to |-> t, news |-> News(n, judged), sent |-> clock]
          <6>1. \E S : net' = net \cup {[to |-> t, news |-> News(n, judged), sent |-> clock] : t \in S}
            BY <4>1 DEF Tick
          <6> HIDE DEF judged
          <6> QED
            BY <2>3, <3>2, <6>1
        <5> HIDE DEF judged
        <5> QED
          BY <5>1, <5>2
      <4>3. DOMAIN News(n, judged) = {n} \cup WorthTelling(judged)
        BY DEF News
      <4>4. n # p
        BY <2>1, <4>2
      <4>5. n \in up'
        BY <4>1 DEF Tick
      <4>6. p \notin WorthTelling(judged)
        BY <2>2, <4>2, <4>5 DEF WorthTelling
      <4> HIDE DEF judged
      <4> QED
        BY <4>2, <4>3, <4>4, <4>6
    <3> QED
      BY <3>1, <3>2
  <2> QED
    BY <2>1, <2>2, <2>3 DEF Buried
<1>2. IInv /\ Settled /\ [Next]_vars => [\A p \in Nodes : Buried(p) => Buried(p)']_vars
  BY <1>1
<1> QED
  BY <1>2, AlwaysSettled, Inductive, PTL DEF Spec, TheDeadStayDead

-----------------------------------------------------------------------------
(* How long a crash can stay unknown.  Every node but p that has crashed,  *)
(* or that knows a heartbeat of p no earlier than h, will never again      *)
(* believe h as news: Spent(p, h) only grows.  A belief lasts Life at most *)
(* before it stops being told, and whoever takes it over is spent as well: *)
(* after k of them nothing of p is told later than k lives past its crash. *)
Life        == Dead - 1 + Delay
Knows(n, p, h) == p \in DOMAIN members[n] /\ members[n][p].hb >= h
Spent(p, h) == {n \in Nodes \ {p} : n \in DOMAIN crashed \/ Knows(n, p, h)}
Spending(p, h) == Cardinality(Spent(p, h)) * Life

Timed == /\ \A p \in DOMAIN crashed : crashed[p] \in 0 .. clock
         /\ \A d \in net : d.sent \in 0 .. clock /\ clock <= d.sent + Delay

BeliefsFade == \A p \in DOMAIN crashed : \A n \in Nodes : \A h \in Nat :
                   p \in DOMAIN members[n] /\ members[n][p].hb = h =>
                       members[n][p].seen + Life <= crashed[p] + Delay + Spending(p, h)

NewsFade == \A p \in DOMAIN crashed : \A d \in net : p \in DOMAIN d.news =>
                d.sent <= crashed[p] + Spending(p, d.news[p])

AllJudged == \A n \in ticked : \A p \in DOMAIN members[n] :
                 clock - members[n][p].seen >= Dead => members[n][p].status = "dead"

Fading == Timed /\ BeliefsFade /\ NewsFade /\ AllJudged

LEMMA LivesAdd ==
    ASSUME NEW i \in Nat, NEW j \in Nat, NEW k \in Nat, i <= j
    PROVE  /\ i * k \in Nat /\ (i + 1) * k = i * k + k
           /\ i * k <= j * k
<1>1. PICK e \in Nat : j = i + e
  <2>1. j - i \in Nat /\ j = i + (j - i)
    OBVIOUS
  <2> QED
    BY <2>1
<1>2. j * k = i * k + e * k /\ e * k \in Nat
  BY <1>1
<1> QED
  BY <1>2

LEMMA LifeNat == Life \in Nat /\ Dead \in Nat /\ Dead >= 1
BY GossipAssumption DEF Life

LEMMA SpentFinite ==
    ASSUME NEW p, NEW h
    PROVE  /\ IsFiniteSet(Spent(p, h)) /\ Cardinality(Spent(p, h)) \in Nat
           /\ Spending(p, h) \in Nat
<1>1. IsFiniteSet(Spent(p, h))
  BY GossipAssumption, FS_Subset DEF Spent
<1>2. Cardinality(Spent(p, h)) \in Nat
  BY <1>1, FS_CardinalityType
<1> QED
  BY <1>1, <1>2, LifeNat, LivesAdd DEF Spending

(* A crash is for ever, and the crashed are those that stop.               *)
LEMMA CrashesStay ==
    ASSUME IInv, [Next]_vars
    PROVE  /\ \A p \in DOMAIN crashed : p \in DOMAIN crashed' /\ crashed'[p] = crashed[p]
           /\ \A n \in up : n \in up' \/ n \in DOMAIN crashed'
           /\ \A p \in DOMAIN crashed' :
                 \/ p \in DOMAIN crashed
                 \/ p \in up /\ Crash(p) /\ crashed'[p] = clock
<1>1. CASE \E n \in Nodes : Crash(n)
  <2>1. PICK n \in Nodes : Crash(n)
    BY <1>1
  <2>2. n \in up /\ n \notin DOMAIN crashed /\ up' = up \ {n}
    BY <2>1 DEF Crash, IInv, Typed
  <2>3. crashed' = [p \in {n} \cup DOMAIN crashed |-> IF p = n THEN clock ELSE crashed[p]]
    BY <2>1 DEF Crash
  <2>4. DOMAIN crashed' = {n} \cup DOMAIN crashed /\ crashed'[n] = clock
    BY <2>3
  <2>5. \A p \in DOMAIN crashed : crashed'[p] = crashed[p]
    BY <2>2, <2>3
  <2> QED
    BY <2>1, <2>2, <2>4, <2>5
<1>2. CASE ~\E n \in Nodes : Crash(n)
  <2>1. crashed' = crashed /\ up \subseteq up'
    <3>1. CASE \E n \in Nodes : Start(n)
      BY <3>1 DEF Start
    <3>2. CASE \E n \in Nodes : Tick(n)
      BY <3>2 DEF Tick
    <3>3. CASE \E d \in net : Deliver(d)
      BY <3>3 DEF Deliver
    <3> QED
      BY <1>2, <3>1, <3>2, <3>3 DEF Next, Elapse, vars
  <2> QED
    BY <2>1
<1> QED
  BY <1>1, <1>2

(* What is spent stays spent.                                              *)
LEMMA SpentGrows ==
    ASSUME IInv, Settled, [Next]_vars, NEW p \in Nodes, NEW h \in Nat
    PROVE  Spent(p, h) \subseteq Spent(p, h)'
<1> SUFFICES ASSUME NEW n \in Nodes \ {p}, n \in DOMAIN crashed \/ Knows(n, p, h)
             PROVE  n \in DOMAIN crashed' \/ Knows(n, p, h)'
  BY DEF Spent
<1>1. CASE n \in DOMAIN crashed
  BY <1>1, CrashesStay
<1>2. CASE n \notin DOMAIN crashed
  <2>1. n \in up
    BY <1>2 DEF Settled, Knows
  <2>2. CASE n \in up'
    <3>1. p \in DOMAIN members[n] /\ members[n][p].hb \in Nat /\ members[n][p].hb >= h
      BY <1>2 DEF Knows, IInv, Typed, IsTable, Entry
    <3>2. p \in DOMAIN members'[n] /\ members[n][p].hb <= members'[n][p].hb
      BY <2>1, <2>2, <3>1, BeliefKeeps
    <3>3. members'[n][p].hb \in Nat
      <4>1. IInv'
        BY InductiveStep
      <4> QED
        BY <3>2, <4>1 DEF IInv, Typed, IsTable, Entry
    <3> QED
      BY <3>1, <3>2, <3>3 DEF Knows
  <2> QED
    BY <2>1, <2>2, CrashesStay
<1> QED
  BY <1>1, <1>2

LEMMA SpendingGrows ==
    ASSUME IInv, Settled, [Next]_vars, NEW p \in Nodes, NEW h \in Nat
    PROVE  /\ Spending(p, h) \in Nat /\ Spending(p, h)' \in Nat
           /\ Spending(p, h) <= Spending(p, h)'
<1>1. /\ IsFiniteSet(Spent(p, h)) /\ Spending(p, h) \in Nat
  BY SpentFinite
<1>2. IsFiniteSet(Spent(p, h)') /\ Spent(p, h)' \subseteq Nodes
  BY GossipAssumption, FS_Subset DEF Spent
<1>3. Cardinality(Spent(p, h)) <= Cardinality(Spent(p, h)')
  BY <1>2, SpentGrows, FS_Subset
<1>4. Cardinality(Spent(p, h)) \in Nat /\ Cardinality(Spent(p, h)') \in Nat
  BY <1>1, <1>2, FS_CardinalityType
<1> QED
  BY <1>1, <1>3, <1>4, LifeNat, LivesAdd DEF Spending, Life

(* And whoever takes a belief over is spent from then on.                  *)
LEMMA NewBeliefSpends ==
    ASSUME IInv, Settled, [Next]_vars, NEW p \in Nodes, NEW h \in Nat,
           NEW n \in up \ {p}, ~Knows(n, p, h), Knows(n, p, h)'
    PROVE  Spending(p, h) + Life <= Spending(p, h)'
<1>1. n \notin Spent(p, h) /\ n \in Spent(p, h)'
  BY DEF Spent, IInv, Typed
<1>2. Spent(p, h) \cup {n} \subseteq Spent(p, h)'
  BY <1>1, SpentGrows
<1>3. IsFiniteSet(Spent(p, h)) /\ IsFiniteSet(Spent(p, h)')
  BY GossipAssumption, FS_Subset, SpentFinite DEF Spent
<1>4. Cardinality(Spent(p, h) \cup {n}) = Cardinality(Spent(p, h)) + 1
  BY <1>1, <1>3, FS_AddElement
<1>5. Cardinality(Spent(p, h)) + 1 <= Cardinality(Spent(p, h)')
  BY <1>2, <1>3, <1>4, FS_Subset
<1>6. Cardinality(Spent(p, h)) \in Nat /\ Cardinality(Spent(p, h)') \in Nat
  BY <1>3, FS_CardinalityType
<1>7. Cardinality(Spent(p, h)) + 1 \in Nat
  BY <1>6
<1>8. (Cardinality(Spent(p, h)) + 1) * Life <= Cardinality(Spent(p, h)') * Life
  BY <1>5, <1>6, <1>7, LifeNat, LivesAdd
<1>9. (Cardinality(Spent(p, h)) + 1) * Life = Cardinality(Spent(p, h)) * Life + Life
  BY <1>6, LifeNat, LivesAdd
<1> QED
  BY <1>8, <1>9 DEF Spending, Life

-----------------------------------------------------------------------------
LEMMA FadingInitially == Init => Fading
BY GossipAssumption DEF Init, Fading, Timed, BeliefsFade, NewsFade, AllJudged

LEMMA Ages ==
    ASSUME IInv, Timed
    PROVE  /\ clock \in Nat
           /\ \A n \in Nodes : \A p \in DOMAIN members[n] :
                 /\ p \in Nodes \ {n} /\ members[n][p].hb \in Nat
                 /\ members[n][p].seen \in Nat /\ members[n][p].seen <= clock
           /\ \A p \in DOMAIN crashed : p \in Nodes \ up /\ crashed[p] \in Nat
           /\ \A d \in net : /\ d.to \in Nodes /\ d.sent \in Nat /\ clock <= d.sent + Delay
                             /\ \A p \in DOMAIN d.news : p \in Nodes /\ d.news[p] \in Nat
BY DEF IInv, Typed, IsTable, IsNews, Entry, Timed

(* What a tick sends is what it believed of those it has not given up.     *)
LEMMA TickTells ==
    ASSUME IInv, NEW n \in Nodes, Tick(n), NEW d \in net', d \notin net
    PROVE  /\ d.sent = clock
           /\ \A p \in DOMAIN d.news \ {n} :
                 /\ p \in DOMAIN members[n] /\ d.news[p] = members[n][p].hb
                 /\ Judge(members[n][p]) # "dead"
<1> DEFINE judged == [q \in DOMAIN members[n] |->
                         [members[n][q] EXCEPT !.status = Judge(members[n][q])]]
<1>1. \E t : d = [to |-> t, news |-> News(n, judged), sent |-> clock]
  <2>1. \E S : net' = net \cup {[to |-> t, news |-> News(n, judged), sent |-> clock] : t \in S}
    BY DEF Tick
  <2> HIDE DEF judged
  <2> QED
    BY <2>1
<1>2. \A q \in DOMAIN members[n] : members[n][q] \in Entry
  BY DEF IInv, Typed, IsTable
<1>3. \A q \in DOMAIN members[n] : /\ judged[q].hb = members[n][q].hb
                                   /\ judged[q].status = Judge(members[n][q])
  <2> SUFFICES ASSUME NEW q \in DOMAIN members[n]
               PROVE  judged[q].hb = members[n][q].hb /\ judged[q].status = Judge(members[n][q])
    OBVIOUS
  <2>1. judged[q] = [members[n][q] EXCEPT !.status = Judge(members[n][q])]
    OBVIOUS
  <2> DEFINE st == Judge(members[n][q])
  <2>2. judged[q] = [members[n][q] EXCEPT !.status = st]
    BY <2>1
  <2> HIDE DEF st, judged
  <2>3. judged[q].hb = members[n][q].hb /\ judged[q].status = st
    BY <1>2, <2>2 DEF Entry
  <2> QED
    BY <2>3 DEF st
<1>4. DOMAIN judged = DOMAIN members[n]
  OBVIOUS
<1> HIDE DEF judged
<1>5. DOMAIN News(n, judged) = {n} \cup {q \in DOMAIN members[n] : judged[q].status # "dead"}
  BY <1>4 DEF News, WorthTelling
<1>6. \A q \in DOMAIN News(n, judged) \ {n} : News(n, judged)[q] = judged[q].hb
  BY DEF News
<1>7. d.sent = clock /\ d.news = News(n, judged)
  BY <1>1
<1> QED
  BY <1>3, <1>5, <1>6, <1>7

(* A delivery believes what is news to the receiver, and from now on.      *)
LEMMA DeliverBelieves ==
    ASSUME IInv, NEW d \in net, Deliver(d)
    PROVE  \A p \in DOMAIN members'[d.to] :
              \/ /\ p \in DOMAIN d.news \ {d.to} /\ ~Knows(d.to, p, d.news[p])
                 /\ members'[d.to][p] = [hb |-> d.news[p], status |-> "alive", seen |-> clock]
              \/ p \in DOMAIN members[d.to] /\ members'[d.to][p] = members[d.to][p]
<1> DEFINE fresh == {q \in Others(d) : q \in DOMAIN members[d.to] =>
                                           Later(members[d.to][q], d.news[q])}
           table == [q \in fresh \cup DOMAIN members[d.to] |->
                        IF q \in fresh THEN [hb |-> d.news[q], status |-> "alive", seen |-> clock]
                                       ELSE members[d.to][q]]
<1>1. members'[d.to] = table
  BY DEF Deliver, IInv, Typed
<1>2. \A q \in fresh : q \in DOMAIN d.news \ {d.to} /\ ~Knows(d.to, q, d.news[q])
  <2> SUFFICES ASSUME NEW q \in fresh
               PROVE  q \in DOMAIN d.news \ {d.to} /\ ~Knows(d.to, q, d.news[q])
    OBVIOUS
  <2>1. q \in DOMAIN d.news \ {d.to}
    BY DEF Others
  <2>2. d.news[q] \in Nat /\ (q \in DOMAIN members[d.to] => members[d.to][q].hb \in Nat)
    BY <2>1 DEF IInv, Typed, IsNews, IsTable, Entry
  <2> QED
    BY <2>1, <2>2 DEF Knows, Later
<1>3. \A q \in DOMAIN table :
         \/ q \in fresh /\ table[q] = [hb |-> d.news[q], status |-> "alive", seen |-> clock]
         \/ q \in DOMAIN members[d.to] /\ table[q] = members[d.to][q]
  OBVIOUS
<1> HIDE DEF table, fresh
<1> QED
  BY <1>1, <1>2, <1>3

LEMMA TimedKeeps ==
    ASSUME IInv, Timed, [Next]_vars
    PROVE  Timed' /\ clock <= clock' /\ clock' \in Nat
<1>1. CASE Elapse
  BY <1>1, Ages, GossipAssumption DEF Elapse, Timed
<1>2. CASE \E n \in Nodes : Tick(n)
  <2>1. PICK n \in Nodes : Tick(n)
    BY <1>2
  <2>2. clock' = clock /\ crashed' = crashed
    BY <2>1 DEF Tick
  <2>3. \A d \in net' : d.sent \in 0 .. clock /\ clock <= d.sent + Delay
    BY <2>1, TickTells, Ages, GossipAssumption DEF Timed
  <2> QED
    BY <2>2, <2>3, Ages DEF Timed
<1>3. CASE (\E n \in Nodes : Start(n) \/ Crash(n)) \/ (\E d \in net : Deliver(d)) \/ UNCHANGED vars
  <2>1. clock' = clock /\ net' \subseteq net
    BY <1>3 DEF Start, Crash, Deliver, vars
  <2>2. \A p \in DOMAIN crashed' : crashed'[p] \in 0 .. clock
    BY CrashesStay, Ages DEF Timed
  <2> QED
    BY <2>1, <2>2, Ages DEF Timed
<1> QED
  BY <1>1, <1>2, <1>3 DEF Next

(* A belief is as old as the datagram that brought it was then, plus a     *)
(* life more: its holder has become one of the spent.                      *)
LEMMA BeliefsFadeKeeps ==
    ASSUME IInv, Settled, Timed, BeliefsFade, NewsFade, [Next]_vars
    PROVE  BeliefsFade'
<1> SUFFICES ASSUME NEW p \in DOMAIN crashed', NEW n \in Nodes, NEW h \in Nat,
                    p \in DOMAIN members'[n], members'[n][p].hb = h
             PROVE  members'[n][p].seen + Life <= crashed'[p] + Delay + Spending(p, h)'
  BY DEF BeliefsFade, Life
<1>0. IInv' /\ Timed' /\ Delay \in Nat
  BY InductiveStep, TimedKeeps, GossipAssumption
<1>1. /\ p \in Nodes \ {n} /\ members'[n][p].hb \in Nat /\ members'[n][p].seen \in Nat
      /\ members'[n][p].seen <= clock' /\ crashed'[p] \in Nat
  BY <1>0 DEF IInv, Typed, IsTable, Entry, Timed
<1>2. /\ Spending(p, h) \in Nat /\ Spending(p, h)' \in Nat
      /\ Spending(p, h) <= Spending(p, h)'
  BY <1>1, SpendingGrows
<1>3. CASE p \notin DOMAIN crashed
  <2>1. Crash(p) /\ crashed'[p] = clock /\ clock' = clock
    BY <1>3, CrashesStay DEF Crash
  <2>2. Knows(n, p, h)'
    BY <1>1 DEF Knows
  <2>3. n \in Spent(p, h)'
    BY <1>1, <2>2 DEF Spent
  <2>4. IsFiniteSet(Spent(p, h)')
    BY GossipAssumption, FS_Subset DEF Spent
  <2>5. 1 <= Cardinality(Spent(p, h)')
    <3>1. IsFiniteSet({n}) /\ Cardinality({n}) = 1 /\ {n} \subseteq Spent(p, h)'
      BY <2>3, FS_Singleton
    <3> QED
      BY <2>4, <3>1, FS_Subset
  <2>6. Cardinality(Spent(p, h)') \in Nat
    BY <2>4, FS_CardinalityType
  <2>7. 1 * Life <= Cardinality(Spent(p, h)') * Life /\ 1 * Life = Life
    BY <2>5, <2>6, LifeNat, LivesAdd
  <2>8. Life <= Spending(p, h)'
    BY <2>7 DEF Spending, Life
  <2> QED
    BY <1>0, <1>1, <1>2, <2>1, <2>8, LifeNat
<1>4. CASE p \in DOMAIN crashed /\ p \in DOMAIN members[n] /\ members[n][p].hb = h
           /\ members'[n][p].seen = members[n][p].seen
  <2>1. members[n][p].seen + Life <= crashed[p] + Delay + Spending(p, h)
    BY <1>4 DEF BeliefsFade
  <2>2. crashed'[p] = crashed[p]
    BY <1>4, CrashesStay
  <2> QED
    BY <1>0, <1>1, <1>2, <1>4, <2>1, <2>2, LifeNat
<1>5. CASE p \in DOMAIN crashed /\ members'[n] = members[n]
  BY <1>4, <1>5
<1>6. CASE p \in DOMAIN crashed /\ Tick(n)
  <2>1. /\ p \in DOMAIN members[n] /\ members'[n][p].seen = members[n][p].seen
        /\ members'[n][p] = [members[n][p] EXCEPT !.status = Judge(members[n][p])]
    BY <1>6, TickJudges DEF Tick, IInv, Typed
  <2>2. members[n][p] \in Entry
    BY <2>1 DEF IInv, Typed, IsTable
  <2>3. members'[n][p].hb = members[n][p].hb
    BY <2>1, <2>2 DEF Entry
  <2> QED
    BY <1>4, <1>6, <2>1, <2>3
<1>7. CASE p \in DOMAIN crashed /\ \E d \in net : d.to = n /\ n \in up /\ Deliver(d)
  <2>1. PICK d \in net : d.to = n /\ n \in up /\ Deliver(d)
    BY <1>7
  <2>2. CASE p \in DOMAIN members[n] /\ members'[n][p] = members[n][p]
    BY <1>4, <1>7, <2>2
  <2>3. CASE /\ p \in DOMAIN d.news /\ ~Knows(n, p, d.news[p])
             /\ members'[n][p] = [hb |-> d.news[p], status |-> "alive", seen |-> clock]
    <3>1. d.news[p] = h /\ members'[n][p].seen = clock
      BY <2>3
    <3>2. Knows(n, p, h)' /\ ~Knows(n, p, h)
      BY <1>1, <2>3, <3>1 DEF Knows
    <3>3. Spending(p, h) + Life <= Spending(p, h)'
      BY <1>1, <2>1, <3>2, NewBeliefSpends
    <3>4. d.sent <= crashed[p] + Spending(p, h)
      BY <1>7, <2>3, <3>1 DEF NewsFade
    <3>5. clock <= d.sent + Delay /\ d.sent \in Nat /\ clock \in Nat /\ crashed[p] \in Nat
      BY <1>7, Ages
    <3>6. crashed'[p] = crashed[p]
      BY <1>7, CrashesStay
    <3> QED
      BY <1>0, <1>2, <3>1, <3>3, <3>4, <3>5, <3>6, LifeNat
  <2> QED
    BY <2>1, <2>2, <2>3, DeliverBelieves
<1> QED
  BY <1>3, <1>5, <1>6, <1>7, TableSteps

(* What is told is less than Dead old: gossip_tick leaves out the rest.    *)
LEMMA NewsFadeKeeps ==
    ASSUME IInv, Settled, Timed, BeliefsFade, NewsFade, [Next]_vars
    PROVE  NewsFade'
<1> SUFFICES ASSUME NEW p \in DOMAIN crashed', NEW d \in net', p \in DOMAIN d.news
             PROVE  d.sent <= crashed'[p] + Spending(p, d.news[p])'
  BY DEF NewsFade
<1>0. IInv' /\ Timed' /\ Delay \in Nat
  BY InductiveStep, TimedKeeps, GossipAssumption
<1>1. p \in Nodes /\ d.news[p] \in Nat /\ d.sent \in Nat /\ d.sent <= clock' /\ crashed'[p] \in Nat
  BY <1>0 DEF IInv, Typed, IsNews, Timed
<1>2. /\ Spending(p, d.news[p]) \in Nat /\ Spending(p, d.news[p])' \in Nat
      /\ Spending(p, d.news[p]) <= Spending(p, d.news[p])'
  BY <1>1, SpendingGrows
<1>3. CASE p \notin DOMAIN crashed
  <2>1. crashed'[p] = clock /\ clock' = clock
    BY <1>3, CrashesStay DEF Crash
  <2> QED
    BY <1>1, <1>2, <2>1
<1>4. CASE p \in DOMAIN crashed /\ d \in net
  BY <1>1, <1>2, <1>4, CrashesStay DEF NewsFade
<1>5. CASE p \in DOMAIN crashed /\ d \notin net
  <2>1. PICK n \in Nodes : Tick(n)
    BY <1>5 DEF Next, Start, Crash, Deliver, Elapse, vars
  <2>2. n # p /\ crashed'[p] = crashed[p]
    BY <1>5, <2>1, CrashesStay DEF Tick, IInv, Typed
  <2>3. /\ d.sent = clock /\ p \in DOMAIN members[n] /\ d.news[p] = members[n][p].hb
        /\ Judge(members[n][p]) # "dead"
    BY <1>5, <2>1, <2>2, TickTells
  <2>4. clock \in Nat /\ members[n][p].seen \in Nat /\ crashed[p] \in Nat
    BY <1>5, <2>3, Ages
  <2>5. clock - members[n][p].seen <= Dead - 1
    BY <2>3, <2>4, GossipAssumption DEF Judge
  <2>6. members[n][p].seen + Life <= crashed[p] + Delay + Spending(p, d.news[p])
    BY <1>1, <1>5, <2>3 DEF BeliefsFade
  <2>7. clock <= crashed[p] + Spending(p, d.news[p])
    BY <1>0, <1>2, <2>4, <2>5, <2>6, LifeNat, GossipAssumption DEF Life
  <2> QED
    BY <1>1, <1>2, <2>2, <2>3, <2>4, <2>7
<1> QED
  BY <1>3, <1>4, <1>5

(* A node that has ticked in this interval has judged everybody in it.     *)
LEMMA AllJudgedKeeps ==
    ASSUME IInv, Settled, Timed, AllJudged, [Next]_vars
    PROVE  AllJudged'
<1> SUFFICES ASSUME NEW n \in ticked', NEW p \in DOMAIN members'[n],
                    clock' - members'[n][p].seen >= Dead
             PROVE  members'[n][p].status = "dead"
  BY DEF AllJudged
<1>1. n \in Nodes /\ n \in up'
  BY InductiveStep DEF IInv, Typed
<1>2. CASE Tick(n)
  BY <1>1, <1>2, TickJudges DEF Judge
<1>3. CASE \E d \in net : d.to = n /\ Deliver(d)
  <2>1. PICK d \in net : d.to = n /\ Deliver(d)
    BY <1>3
  <2>2. clock' = clock /\ ticked' = ticked
    BY <2>1 DEF Deliver
  <2>3. CASE p \in DOMAIN members[n] /\ members'[n][p] = members[n][p]
    BY <2>2, <2>3 DEF AllJudged
  <2>4. CASE members'[n][p] = [hb |-> d.news[p], status |-> "alive", seen |-> clock]
    <3>1. members'[n][p].seen = clock
      BY <2>4
    <3> QED
      BY <2>2, <3>1, LifeNat, Ages
  <2> QED
    BY <2>1, <2>3, <2>4, DeliverBelieves
<1>4. CASE members'[n] = members[n] /\ n \in ticked
  <2>1. ~Elapse
    BY DEF Elapse
  <2>2. clock' = clock
    BY <2>1 DEF Next, Start, Crash, Tick, Deliver, vars
  <2> QED
    BY <1>4, <2>2 DEF AllJudged
<1>5. CASE members'[n] = members[n] /\ n \notin ticked /\ ~Tick(n)
  <2>1. ~Elapse /\ ~UNCHANGED vars
    BY <1>5 DEF Elapse, vars
  <2>2. ~\E d \in net : Deliver(d)
    BY <1>5 DEF Deliver
  <2>3. ~\E m \in Nodes : Crash(m)
    BY <1>5 DEF Crash
  <2>4. ASSUME NEW m \in Nodes, Tick(m) PROVE FALSE
    <3>1. ticked' = ticked \cup {m}
      BY <2>4 DEF Tick
    <3>2. m # n
      BY <1>5, <2>4
    <3> QED
      BY <1>5, <3>1, <3>2
  <2>5. Start(n)
    BY <1>5, <2>1, <2>2, <2>3, <2>4 DEF Next, Start
  <2> QED
    BY <1>1, <1>5, <2>5 DEF Start, Settled
<1> QED
  BY <1>1, <1>2, <1>3, <1>4, <1>5, TableSteps

(* How old a belief in a crashed node can be, and news of it, is bounded   *)
(* by how many nodes can no longer be told: merge refuses what is not      *)
(* later than what it knows, so that no node passes a rumour on twice.     *)
THEOREM AlwaysFading == Spec => []Fading
<1>1. IInv /\ Settled /\ Fading /\ [Next]_vars => Fading'
  BY TimedKeeps, BeliefsFadeKeeps, NewsFadeKeeps, AllJudgedKeeps DEF Fading
<1> QED
  BY <1>1, FadingInitially, Inductive, AlwaysSettled, PTL DEF Spec

(* A crash does not stay unknown: however the rumour is passed on, and     *)
(* whoever joins, from DetectedBy on every node that has ticked (judged    *)
(* its peers in gossip_tick) counts the crashed node dead or not at all.   *)
THEOREM CrashesAreDetected == Spec => []DetectedInTime
<1>1. ASSUME IInv, Fading, NEW p \in DOMAIN crashed, clock >= DetectedBy(p),
             NEW n \in up \cap ticked, p \in DOMAIN members[n]
      PROVE  members[n][p].status = "dead"
  <2> DEFINE h == members[n][p].hb
             k == Cardinality(Spent(p, h))
  <2>1. /\ n \in Nodes /\ p \in Nodes /\ clock \in Nat /\ members[n][p].seen \in Nat
        /\ crashed[p] \in Nat
    BY <1>1, Ages DEF Fading, IInv, Typed
  <2>2. IsFiniteSet(Spent(p, h)) /\ k \in Nat /\ Spending(p, h) \in Nat
    BY SpentFinite
  <2>3. /\ IsFiniteSet(Nodes \ {p}) /\ Cardinality(Nodes \ {p}) = Cardinality(Nodes) - 1
        /\ Cardinality(Nodes) \in Nat
    BY <2>1, GossipAssumption, FS_RemoveElement, FS_CardinalityType
  <2>4. k <= Watchers /\ Watchers \in Nat
    <3>1. Cardinality(Nodes \ {p}) \in Nat
      BY <2>3, FS_CardinalityType
    <3>2. Spent(p, h) \subseteq Nodes \ {p}
      BY DEF Spent
    <3> QED
      BY <2>3, <3>1, <3>2, FS_Subset DEF Watchers
  <2>5. k * Life <= Watchers * Life
    BY <2>2, <2>4, LifeNat, LivesAdd
  <2>6. (Watchers - 1) * Life = Watchers * Life - Life
    BY <2>4, LifeNat
  <2>7. members[n][p].seen + Life <= crashed[p] + Delay + k * Life
    BY <1>1, <2>1, Ages DEF Fading, BeliefsFade, Spending
  <2>8. clock >= crashed[p] + Delay + (Watchers - 1) * Life + Dead
    BY <1>1 DEF DetectedBy, Life
  <2>9. k * Life \in Nat /\ Watchers * Life \in Nat
    BY <2>2, <2>4, LifeNat, LivesAdd
  <2> HIDE DEF k, h
  <2>10. clock - members[n][p].seen >= Dead
    BY <2>1, <2>5, <2>6, <2>7, <2>8, <2>9, LifeNat, GossipAssumption
  <2> QED
    BY <1>1, <2>10 DEF Fading, AllJudged
<1>2. IInv /\ Fading => DetectedInTime
  BY <1>1 DEF DetectedInTime
<1> QED
  BY <1>2, Inductive, AlwaysFading, PTL
=============================================================================
