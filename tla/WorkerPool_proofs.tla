-------------------------- MODULE WorkerPool_proofs --------------------------
(***************************************************************************)
(* Theorems about WorkerPool, for any number of threads, waiters and tasks *)
(* and any capacity.  The argument is a counting one: every started thread *)
(* is awake, asleep, running or gone, a thread goes to sleep only when no  *)
(* task could start, and whatever makes a task startable wakes a sleeper   *)
(* unless none is left.                                                    *)
(***************************************************************************)
EXTENDS WorkerPool, FiniteSetTheorems, SequenceTheorems, TLAPS

Places == {"unborn", "check", "wait", "nap", "run", "exit"}

(* The counters the pool keeps count its threads.                          *)
CountsThreads == /\ active = Cardinality(Running)
                 /\ nthreads = Cardinality(Started)

(* How shutdown follows the pool's life, and what may happen in each part  *)
(* of it.                                                                  *)
LifeAgrees == /\ shutdown <=> life \in {"closing", "freed"}
              /\ life = "creating" => count = 0 /\ Running = {}
              /\ life \in {"open", "closing"} => limit <= nthreads
              /\ In("exit") # {} => shutdown /\ count = 0
              /\ life = "freed" => Started = In("exit")

IInv == TypeOK /\ CountsThreads /\ LifeAgrees /\ NoLostWakeup

-----------------------------------------------------------------------------
(* The finite cardinalities of sets of workers.                            *)
LEMMA Counting ==
    ASSUME NEW S \in SUBSET Workers, NEW w \in Workers
    PROVE  /\ Cardinality(S) \in Nat
           /\ Cardinality(S \cup {w}) = IF w \in S THEN Cardinality(S) ELSE Cardinality(S) + 1
           /\ Cardinality(S \ {w}) = IF w \in S THEN Cardinality(S) - 1 ELSE Cardinality(S)
<1>1. IsFiniteSet(S)
  BY PoolAssumption, FS_Subset
<1> QED
  BY <1>1, FS_CardinalityType, FS_AddElement, FS_RemoveElement

(* A subset of a set of workers is not larger.                             *)
LEMMA Monotone ==
    ASSUME NEW S \in SUBSET Workers, NEW T \in SUBSET S
    PROVE  /\ Cardinality(S) \in Nat /\ Cardinality(T) \in Nat
           /\ Cardinality(T) <= Cardinality(S)
           /\ Cardinality(S \ T) = Cardinality(S) - Cardinality(T)
<1>1. IsFiniteSet(S)
  BY PoolAssumption, FS_Subset
<1>2. IsFiniteSet(T) /\ Cardinality(T) <= Cardinality(S)
  BY <1>1, FS_Subset
<1>3. Cardinality(S) \in Nat /\ Cardinality(T) \in Nat
  BY <1>1, <1>2, FS_CardinalityType
<1>4. S \cap T = T
  OBVIOUS
<1>5. Cardinality(S \ T) = Cardinality(S) - Cardinality(S \cap T)
  BY <1>1, FS_Difference
<1> QED
  BY <1>2, <1>3, <1>4, <1>5

(* What nyxj_cond_signal may do.                                           *)
LEMMA SignalCases ==
    ASSUME NEW f \in [Workers -> Places], NEW g \in Signal(f)
    PROVE  \/ g = f /\ \A x \in Workers : f[x] # "wait"
           \/ \E x \in Workers : f[x] = "wait" /\ g = [f EXCEPT ![x] = "check"]
BY DEF Signal

(* Where the threads are after a signal.                                   *)
LEMMA AfterSignal ==
    ASSUME NEW f \in [Workers -> Places], NEW g \in Signal(f)
    PROVE  /\ g \in [Workers -> Places]
           /\ \A w \in Workers : \/ g[w] = f[w]
                                 \/ f[w] = "wait" /\ g[w] = "check"
BY SignalCases DEF Places

(* A broadcast leaves nobody asleep.                                       *)
LEMMA AfterBroadcast ==
    ASSUME NEW f \in [Workers -> Places]
    PROVE  /\ Broadcast(f) \in [Workers -> Places]
           /\ \A w \in Workers :
                Broadcast(f)[w] = IF f[w] = "wait" THEN "check" ELSE f[w]
BY DEF Broadcast, Places

(* Ring positions wrap around at most once.                                *)
LEMMA SlotRange ==
    ASSUME NEW h \in 0 .. Cap - 1, NEW i \in 0 .. Cap
    PROVE  /\ (h + i) % Cap \in 0 .. Cap - 1
           /\ (h + i) % Cap = IF h + i < Cap THEN h + i ELSE h + i - Cap
<1>1. (h + i) % Cap \in 0 .. Cap - 1
  BY PoolAssumption
<1>2. CASE h + i < Cap
  BY <1>2, PoolAssumption
<1>3. CASE h + i >= Cap
  <2>1. (h + i - Cap) \in 0 .. Cap - 1
    BY <1>3, PoolAssumption
  <2>2. (h + i) % Cap = (h + i - Cap) % Cap
    BY <1>3, PoolAssumption
  <2> QED
    BY <1>3, <2>1, <2>2, PoolAssumption
<1> QED
  BY <1>1, <1>2, <1>3, PoolAssumption

-----------------------------------------------------------------------------
LEMMA InitInv == Init => IInv
<1> SUFFICES ASSUME Init PROVE IInv
  OBVIOUS
<1> USE DEF Init
<1>1. /\ Running = {} /\ Awake = {} /\ Started = {} /\ In("exit") = {}
  BY DEF Running, Awake, Started, In
<1>2. Cardinality({}) = 0 /\ Cardinality(Workers) \in Nat
  BY FS_EmptySet, FS_CardinalityType, PoolAssumption
<1>3. TypeOK
  <2>1. /\ pc \in [Workers -> {"unborn", "check", "wait", "nap", "run", "exit"}]
        /\ task \in [Workers -> Tasks \cup {NoTask}]
        /\ queue \in [0 .. Cap - 1 -> Tasks \cup {NoTask}]
    OBVIOUS
  <2>2. /\ caller \in [Waiters -> {"out", "check", "wait"}]
        /\ owed \in [Waiters -> SUBSET Tasks]
        /\ status \in [Tasks -> {"fresh", "accepted", "rejected", "done"}]
    OBVIOUS
  <2>3. /\ head \in 0 .. Cap - 1 /\ count \in 0 .. Cap
        /\ active \in Nat /\ limit \in Nat /\ nthreads \in Nat
        /\ completed \in Nat /\ rejected \in Nat
    BY <1>2, PoolAssumption
  <2>4. shutdown \in BOOLEAN /\ life \in {"creating", "open", "closing", "freed"}
    OBVIOUS
  <2> QED
    BY <2>1, <2>2, <2>3, <2>4 DEF TypeOK
<1>4. CountsThreads /\ LifeAgrees /\ NoLostWakeup
  BY <1>1, <1>2 DEF CountsThreads, LifeAgrees, NoLostWakeup
<1> QED
  BY <1>3, <1>4 DEF IInv

(* Every action keeps the types.                                           *)
LEMMA TypeStep == IInv /\ [Next]_vars => TypeOK'
<1> SUFFICES ASSUME IInv, [Next]_vars PROVE TypeOK'
  OBVIOUS
<1> USE DEF IInv, TypeOK, ring, gauges, setting, clients
<1>1. ASSUME NEW w \in Workers, CreateThread(w) \/ Sleep(w) \/ Exit(w) \/ Nap(w) \/ NapEnds(w)
                                \/ SpuriousWork(w)
      PROVE  TypeOK'
  BY <1>1 DEF CreateThread, Sleep, Exit, Nap, NapEnds, SpuriousWork
<1>2. ASSUME NEW w \in Workers, Take(w) PROVE TypeOK'
  <2>1. head' \in 0 .. Cap - 1 /\ count' \in 0 .. Cap /\ active' \in Nat
    BY <1>2, SlotRange, PoolAssumption DEF Take, Slot
  <2>2. task' \in [Workers -> Tasks \cup {NoTask}]
    BY <1>2, PoolAssumption DEF Take, Oldest
  <2> QED
    BY <1>2, <2>1, <2>2 DEF Take
<1>3. ASSUME NEW w \in Workers, Finish(w) PROVE TypeOK'
  <2>1. active - 1 \in Nat
    <3>1. w \in Running
      BY <1>3 DEF Finish, Running, In
    <3>2. Running \in SUBSET Workers
      BY DEF Running, In
    <3>3. Cardinality(Running \ {w}) \in Nat
      BY <3>2, Counting
    <3> QED
      BY <3>1, <3>2, <3>3, Counting DEF CountsThreads
  <2>2. pc' \in [Workers -> Places]
    <3> DEFINE f == [pc EXCEPT ![w] = "check"]
    <3>1. f \in [Workers -> Places]
      BY DEF Places
    <3>2. pc' = f \/ pc' \in Signal(f)
      BY <1>3 DEF Finish, PassOn
    <3> QED
      BY <3>1, <3>2, AfterSignal
  <2>3. caller' \in [Waiters -> {"out", "check", "wait"}]
    <3>1. caller' \in {caller, Broadcast(caller)}
      BY <1>3 DEF Finish, TellIdle
    <3> QED
      BY <3>1 DEF Broadcast
  <2>4. active' \in Nat /\ completed' \in Nat
    BY <1>3, <2>1 DEF Finish
  <2>5. status' \in [Tasks -> {"fresh", "accepted", "rejected", "done"}]
    BY <1>3 DEF Finish
  <2> QED
    BY <1>3, <2>2, <2>3, <2>4, <2>5 DEF Finish, Places
<1>4. ASSUME NEW t \in Tasks, SubmitOk(t) PROVE TypeOK'
  <2>1. pc' \in [Workers -> Places]
    BY <1>4, AfterSignal DEF SubmitOk, Places
  <2> QED
    <3>1. count' \in 0 .. Cap /\ Slot(count) \in 0 .. Cap - 1
      BY <1>4, SlotRange, PoolAssumption DEF SubmitOk, Full, Slot
    <3> QED
      BY <1>4, <2>1, <3>1 DEF SubmitOk, Places
<1>5. ASSUME NEW t \in Tasks, SubmitRejected(t) PROVE TypeOK'
  BY <1>5 DEF SubmitRejected
<1>6. ASSUME NEW c \in Waiters, WaitCall(c) \/ WaitBlocks(c) \/ WaitReturns(c) \/ SpuriousIdle(c)
      PROVE  TypeOK'
  BY <1>6 DEF WaitCall, WaitBlocks, WaitReturns, SpuriousIdle, Accepted
<1>7. ASSUME NEW m \in Requests, SetConcurrency(m) PROVE TypeOK'
  <2>1. Clamp(m) \in Nat
    BY PoolAssumption DEF Clamp
  <2> QED
    BY <1>7, <2>1, AfterBroadcast DEF SetConcurrency, Places
<1>8. CASE CreateReturn
  BY <1>8 DEF CreateReturn
<1>9. CASE Destroy
  BY <1>9, AfterBroadcast DEF Destroy, Places
<1>10. CASE Joined
  BY <1>10 DEF Joined
<1>11. CASE UNCHANGED vars
  BY <1>11 DEF vars
<1> QED
  BY <1>1, <1>2, <1>3, <1>4, <1>5, <1>6, <1>7, <1>8, <1>9, <1>10, <1>11
     DEF Next, WorkerStep, WaiterStep

-----------------------------------------------------------------------------
(* With nobody asleep and nobody gone, the awake threads are the started   *)
(* ones that do not run a task.                                            *)
LEMMA AllAwake ==
    ASSUME NEW A \in SUBSET Workers, NEW R \in SUBSET Workers, NEW S \in SUBSET Workers,
           S = A \cup R, A \cap R = {}
    PROVE  Cardinality(A) = Cardinality(S) - Cardinality(R)
<1>1. R \in SUBSET S /\ A = S \ R
  OBVIOUS
<1> QED
  BY <1>1, Monotone

(* Every action keeps the counters right, the life cycle consistent and    *)
(* enough workers awake.                                                   *)
LEMMA CountStep ==
    IInv /\ TypeOK' /\ [Next]_vars => CountsThreads' /\ LifeAgrees' /\ NoLostWakeup'
<1> DEFINE Goal == CountsThreads' /\ LifeAgrees' /\ NoLostWakeup'
           Same == /\ count' = count /\ active' = active /\ limit' = limit
                   /\ nthreads' = nthreads /\ shutdown' = shutdown /\ life' = life
<1> SUFFICES ASSUME IInv, TypeOK', [Next]_vars PROVE Goal
  OBVIOUS
<1> USE DEF IInv, ring, gauges, setting, clients
<1>0. /\ pc \in [Workers -> Places]
      /\ pc' \in [Workers -> Places]
      /\ Running \in SUBSET Workers /\ Awake \in SUBSET Workers /\ Started \in SUBSET Workers
      /\ Running' \in SUBSET Workers /\ Awake' \in SUBSET Workers /\ Started' \in SUBSET Workers
  BY DEF TypeOK, Places, Running, Awake, Started, In
<1>n. /\ Cardinality(Running) \in Nat /\ Cardinality(Awake) \in Nat
      /\ Cardinality(Started) \in Nat /\ Cardinality(Awake') \in Nat
  BY <1>0, Counting, PoolAssumption, ZenonT(60)
<1>t. /\ count \in Nat /\ active \in Nat /\ limit \in Nat /\ nthreads \in Nat
      /\ count' \in Nat /\ active' \in Nat /\ limit' \in Nat /\ nthreads' \in Nat
  BY PoolAssumption DEF TypeOK
<1>b. ASSUME pc' = Broadcast(pc)
      PROVE  /\ Running' = Running /\ Started' = Started /\ In("exit")' = In("exit")
             /\ limit' <= nthreads /\ count' = count /\ active' = active => NoLostWakeup'
  <2>1. \A w \in Workers : pc'[w] = IF pc[w] = "wait" THEN "check" ELSE pc[w]
    BY <1>0, <1>b, AfterBroadcast
  <2>2. /\ Running' = Running /\ Started' = Started /\ In("exit")' = In("exit")
        /\ \A w \in Workers : pc'[w] # "wait"
    BY <1>0, <2>1 DEF Running, Started, In, Places
  <2>3. ASSUME limit' <= nthreads, count' = count, active' = active, In("exit") = {}
        PROVE  NoLostWakeup'
    <3>1. Started' = Awake' \cup Running' /\ Awake' \cap Running' = {}
      BY <1>0, <2>2, <2>3 DEF Running, Awake, Started, In, Places
    <3>2. Cardinality(Awake') = Cardinality(Started') - Cardinality(Running')
      BY <1>0, <3>1, AllAwake
    <3> QED
      BY <1>n, <1>t, <2>2, <2>3, <3>2 DEF NoLostWakeup, CountsThreads
  <2>4. ASSUME count' = count, In("exit") # {}
        PROVE  NoLostWakeup'
    BY <1>n, <2>4 DEF NoLostWakeup, LifeAgrees
  <2> QED
    BY <2>2, <2>3, <2>4
<1>1. ASSUME NEW w \in Workers, CreateThread(w) PROVE Goal
  <2>1. /\ Running' = Running /\ Started' = Started \cup {w} /\ w \notin Started
        /\ In("exit")' = In("exit")
    BY <1>0, <1>1 DEF CreateThread, Running, Started, In, Places
  <2>2. Cardinality(Started') = Cardinality(Started) + 1
    BY <1>0, <2>1, Counting
  <2>3. count' = 0
    BY <1>1 DEF CreateThread, LifeAgrees
  <2> QED
    BY <1>1, <1>n, <1>t, <2>1, <2>2, <2>3
       DEF CreateThread, CountsThreads, LifeAgrees, NoLostWakeup
<1>2. ASSUME NEW w \in Workers, Sleep(w) \/ Nap(w) PROVE Goal
  <2>1. Running' = Running /\ Started' = Started /\ In("exit")' = In("exit")
    BY <1>0, <1>2 DEF Sleep, Nap, Running, Started, In, Places
  <2>2. Same /\ (count = 0 \/ active >= limit)
    BY <1>2 DEF Sleep, Nap, Throttled
  <2>3. NoLostWakeup'
    BY <1>n, <1>t, <2>2 DEF NoLostWakeup
  <2> QED
    BY <2>1, <2>2, <2>3 DEF CountsThreads, LifeAgrees
<1>3. ASSUME NEW w \in Workers, Exit(w) PROVE Goal
  <2>1. Running' = Running /\ Started' = Started /\ In("exit")' = In("exit") \cup {w}
    BY <1>0, <1>3 DEF Exit, Running, Started, In, Places
  <2>2. Same /\ count = 0 /\ shutdown /\ w \in Started
    BY <1>0, <1>3 DEF Exit, Started, In
  <2>3. NoLostWakeup'
    BY <1>n, <1>t, <2>2 DEF NoLostWakeup
  <2>4. LifeAgrees'
    BY <2>1, <2>2 DEF LifeAgrees
  <2> QED
    BY <2>1, <2>2, <2>3, <2>4 DEF CountsThreads
<1>4. ASSUME NEW w \in Workers, NapEnds(w) \/ SpuriousWork(w) PROVE Goal
  <2>1. /\ Running' = Running /\ Started' = Started /\ In("exit")' = In("exit")
        /\ Awake' = Awake \cup {w}
    BY <1>0, <1>4 DEF NapEnds, SpuriousWork, Running, Started, Awake, In, Places
  <2>2. Same
    BY <1>4 DEF NapEnds, SpuriousWork
  <2>3. Cardinality(Awake') >= Cardinality(Awake)
    BY <1>0, <2>1, Monotone
  <2>4. NoLostWakeup'
    BY <1>n, <1>t, <2>2, <2>3 DEF NoLostWakeup
  <2> QED
    BY <2>1, <2>2, <2>4 DEF CountsThreads, LifeAgrees
<1>5. ASSUME NEW w \in Workers, Take(w) PROVE Goal
  <2>1. /\ Running' = Running \cup {w} /\ w \notin Running
        /\ Awake' = Awake \ {w} /\ w \in Awake
        /\ Started' = Started /\ In("exit")' = In("exit")
    BY <1>0, <1>5 DEF Take, Running, Started, Awake, In, Places
  <2>2. /\ Cardinality(Running') = Cardinality(Running) + 1
        /\ Cardinality(Awake') = Cardinality(Awake) - 1
    BY <1>0, <2>1, Counting
  <2>3. /\ count' = count - 1 /\ count > 0 /\ active' = active + 1
        /\ limit' = limit /\ nthreads' = nthreads /\ shutdown' = shutdown /\ life' = life
    BY <1>5 DEF Take
  <2>4. CountsThreads'
    BY <2>1, <2>2, <2>3 DEF CountsThreads
  <2>5. NoLostWakeup'
    BY <1>n, <1>t, <2>2, <2>3 DEF NoLostWakeup
  <2>6. LifeAgrees'
    BY <1>t, <2>1, <2>3 DEF LifeAgrees
  <2> QED
    BY <2>4, <2>5, <2>6
<1>6. ASSUME NEW w \in Workers, Finish(w) PROVE Goal
  <2> DEFINE f == [pc EXCEPT ![w] = "check"]
  <2>1. f \in [Workers -> Places] /\ (pc' = f \/ pc' \in Signal(f))
    BY <1>0, <1>6 DEF Finish, PassOn, Places
  <2>2. \A v \in Workers : pc'[v] = f[v] \/ (f[v] = "wait" /\ pc'[v] = "check")
    BY <2>1, AfterSignal
  <2>3. pc[w] = "run" /\ \A v \in Workers : f[v] = IF v = w THEN "check" ELSE pc[v]
    BY <1>0, <1>6 DEF Finish
  <2>4. /\ Running' = Running \ {w} /\ w \in Running
        /\ Awake \cup {w} \subseteq Awake' /\ w \notin Awake
        /\ Started' = Started /\ In("exit")' = In("exit")
    BY <1>0, <2>2, <2>3 DEF Running, Started, Awake, In, Places
  <2>5. /\ Cardinality(Running') = Cardinality(Running) - 1
        /\ Cardinality(Awake') >= Cardinality(Awake) + 1
    <3>1. Cardinality(Awake \cup {w}) = Cardinality(Awake) + 1
      BY <1>0, <2>4, Counting
    <3>2. Cardinality(Awake \cup {w}) <= Cardinality(Awake')
      BY <1>0, <2>4, Monotone
    <3> QED
      BY <1>0, <1>n, <2>4, <3>1, <3>2, Counting
  <2>6. /\ count' = count /\ active' = active - 1
        /\ limit' = limit /\ nthreads' = nthreads /\ shutdown' = shutdown /\ life' = life
    BY <1>6 DEF Finish
  <2>7. CountsThreads'
    BY <2>4, <2>5, <2>6 DEF CountsThreads
  <2>8. NoLostWakeup'
    BY <1>n, <1>t, <2>5, <2>6 DEF NoLostWakeup
  <2>9. LifeAgrees'
    BY <2>4, <2>6 DEF LifeAgrees
  <2> QED
    BY <2>7, <2>8, <2>9
<1>7. ASSUME NEW t \in Tasks, SubmitOk(t) PROVE Goal
  <2>1. /\ count' = count + 1 /\ active' = active /\ limit' = limit /\ nthreads' = nthreads
        /\ shutdown' = shutdown /\ life' = life /\ ~shutdown /\ pc' \in Signal(pc)
        /\ MayCall
    BY <1>7 DEF SubmitOk
  <2>2. life = "open" /\ In("exit") = {} /\ limit <= nthreads
    BY <2>1 DEF MayCall, LifeAgrees
  <2>3. /\ Running' = Running /\ Started' = Started /\ In("exit")' = In("exit")
    BY <1>0, <2>1, AfterSignal DEF Running, Started, In, Places
  <2>4. NoLostWakeup'
    <3>1. CASE pc' = pc /\ \A v \in Workers : pc[v] # "wait"
      <4>1. Started = Awake \cup Running /\ Awake \cap Running = {} /\ Awake' = Awake
        BY <1>0, <2>2, <3>1 DEF Running, Awake, Started, In, Places
      <4>2. Cardinality(Awake') = Cardinality(Started) - Cardinality(Running)
        BY <1>0, <4>1, AllAwake
      <4> QED
        BY <1>n, <1>t, <2>1, <2>2, <4>2 DEF NoLostWakeup, CountsThreads
    <3>2. CASE \E x \in Workers : pc[x] = "wait" /\ pc' = [pc EXCEPT ![x] = "check"]
      <4>1. PICK x \in Workers : pc[x] = "wait" /\ pc' = [pc EXCEPT ![x] = "check"]
        BY <3>2
      <4>2. Awake' = Awake \cup {x} /\ x \notin Awake
        BY <1>0, <4>1 DEF Awake, In
      <4>3. Cardinality(Awake') = Cardinality(Awake) + 1
        BY <1>0, <4>2, Counting
      <4> QED
        BY <1>n, <1>t, <2>1, <4>3 DEF NoLostWakeup
    <3> QED
      BY <1>0, <2>1, <3>1, <3>2, SignalCases
  <2>5. CountsThreads' /\ LifeAgrees'
    BY <2>1, <2>2, <2>3 DEF CountsThreads, LifeAgrees
  <2> QED
    BY <2>4, <2>5
<1>8. ASSUME NEW m \in Requests, SetConcurrency(m) PROVE Goal
  <2>1. /\ pc' = Broadcast(pc) /\ limit' = Clamp(m) /\ MayCall
        /\ count' = count /\ active' = active /\ nthreads' = nthreads
        /\ shutdown' = shutdown /\ life' = life
    BY <1>8 DEF SetConcurrency
  <2>2. limit' <= nthreads
    BY <1>t, <2>1, PoolAssumption DEF Clamp
  <2>3. LifeAgrees'
    BY <1>b, <2>1, <2>2 DEF LifeAgrees
  <2> QED
    BY <1>b, <1>t, <2>1, <2>2, <2>3 DEF CountsThreads
<1>9. CASE Destroy
  <2>1. /\ pc' = Broadcast(pc) /\ limit' = nthreads /\ shutdown' /\ life' = "closing"
        /\ count' = count /\ active' = active /\ nthreads' = nthreads /\ life = "open"
    BY <1>9 DEF Destroy
  <2>2. In("exit") = {}
    BY <2>1 DEF LifeAgrees
  <2>3. LifeAgrees'
    BY <1>b, <1>t, <2>1, <2>2 DEF LifeAgrees
  <2> QED
    BY <1>b, <1>t, <2>1, <2>3 DEF CountsThreads
<1>10. CASE CreateReturn
  <2>1. Running' = Running /\ Started' = Started /\ In("exit")' = In("exit") /\ count' = 0
    BY <1>10 DEF CreateReturn, Running, Started, In, LifeAgrees
  <2>2. nthreads = 0 => Started = {}
    BY PoolAssumption, <1>0, FS_Subset, FS_EmptySet DEF CountsThreads
  <2>3. In("exit") = {}
    BY <1>10 DEF CreateReturn, LifeAgrees
  <2>4. active' = active /\ nthreads' = nthreads /\ limit' = nthreads
    BY <1>10 DEF CreateReturn
  <2>5. /\ nthreads = 0 => shutdown' /\ life' = "freed"
        /\ nthreads # 0 => ~shutdown' /\ life' = "open"
    BY <1>10 DEF CreateReturn
  <2>6. NoLostWakeup'
    BY <1>n, <2>1 DEF NoLostWakeup
  <2>7. LifeAgrees'
    BY <1>t, <2>1, <2>2, <2>3, <2>4, <2>5 DEF LifeAgrees
  <2> QED
    BY <2>1, <2>4, <2>6, <2>7 DEF CountsThreads
<1>11. CASE Joined
  BY <1>11 DEF Joined, CountsThreads, LifeAgrees, NoLostWakeup, Running, Started, Awake, In
<1>12. CASE \/ \E t \in Tasks : SubmitRejected(t)
            \/ \E c \in Waiters : WaitCall(c) \/ WaiterStep(c) \/ SpuriousIdle(c)
            \/ UNCHANGED vars
  <2>1. Same /\ pc' = pc
    BY <1>12 DEF SubmitRejected, WaitCall, WaiterStep, WaitBlocks, WaitReturns, SpuriousIdle, vars
  <2> QED
    BY <2>1 DEF CountsThreads, LifeAgrees, NoLostWakeup, Running, Started, Awake, In
<1> QED
  BY <1>1, <1>2, <1>3, <1>4, <1>5, <1>6, <1>7, <1>8, <1>9, <1>10, <1>11, <1>12
     DEF Next, WorkerStep
-----------------------------------------------------------------------------
(* The strengthened invariant holds of every behaviour.                    *)
THEOREM Invariance == Spec => []IInv
<1>1. IInv /\ [Next]_vars => IInv'
  BY TypeStep, CountStep DEF IInv
<1> QED
  BY InitInv, <1>1, PTL DEF Spec

(* Every variable of the pool keeps its type: the ring cursors stay in the *)
(* ring, no counter goes below zero.                                       *)
THEOREM TypeCorrect == Spec => []TypeOK
BY Invariance, PTL DEF IInv

(* No wake-up is ever lost, for any number of threads, any capacity and    *)
(* any use of nyxj_pool_set_concurrency.                                   *)
THEOREM NeverALostWakeup == Spec => []NoLostWakeup
BY Invariance, PTL DEF IInv

-----------------------------------------------------------------------------
LEMMA StrandedStep == IInv /\ NoStrandedWaiter /\ [Next]_vars => NoStrandedWaiter'
<1> SUFFICES ASSUME IInv, NoStrandedWaiter, [Next]_vars,
                    NEW c \in Waiters, caller'[c] = "wait"
             PROVE  count' > 0 \/ active' > 0
  BY DEF NoStrandedWaiter
<1> USE DEF ring, gauges, clients
<1>t. /\ count \in Nat /\ active \in Nat /\ caller \in [Waiters -> {"out", "check", "wait"}]
  BY PoolAssumption DEF IInv, TypeOK
<1>1. ASSUME caller' = caller, count' \in {count, count + 1}, active' = active
      PROVE  count' > 0 \/ active' > 0
  BY <1>1, <1>t DEF NoStrandedWaiter
<1>2. ASSUME NEW w \in Workers, CreateThread(w) \/ Sleep(w) \/ Exit(w) \/ Nap(w) \/ NapEnds(w)
                                \/ SpuriousWork(w)
      PROVE  count' > 0 \/ active' > 0
  BY <1>1, <1>2, <1>t DEF CreateThread, Sleep, Exit, Nap, NapEnds, SpuriousWork
<1>3. ASSUME NEW w \in Workers, Take(w) PROVE count' > 0 \/ active' > 0
  BY <1>3, <1>t DEF Take
<1>4. ASSUME NEW w \in Workers, Finish(w) PROVE count' > 0 \/ active' > 0
  <2>1. CASE count = 0 /\ active - 1 = 0
    <3>1. caller' = Broadcast(caller)
      BY <1>4, <2>1 DEF Finish, TellIdle
    <3> QED
      BY <1>t, <3>1 DEF Broadcast
  <2>2. CASE ~(count = 0 /\ active - 1 = 0)
    <3>1. caller' = caller /\ count' = count /\ active' = active - 1
      BY <1>4, <2>2 DEF Finish, TellIdle
    <3>2. count > 0 \/ active > 0
      BY <3>1 DEF NoStrandedWaiter
    <3> QED
      BY <1>t, <2>2, <3>1, <3>2
  <2> QED
    BY <2>1, <2>2
<1>5. ASSUME NEW t \in Tasks, SubmitOk(t) \/ SubmitRejected(t)
      PROVE  count' > 0 \/ active' > 0
  BY <1>1, <1>5, <1>t DEF SubmitOk, SubmitRejected
<1>6. ASSUME NEW d \in Waiters, WaitCall(d) \/ WaitReturns(d) \/ SpuriousIdle(d)
      PROVE  count' > 0 \/ active' > 0
  <2>1. caller[c] = "wait" /\ count' = count /\ active' = active
    BY <1>6, <1>t DEF WaitCall, WaitReturns, SpuriousIdle
  <2> QED
    BY <2>1 DEF NoStrandedWaiter
<1>7. ASSUME NEW d \in Waiters, WaitBlocks(d) PROVE count' > 0 \/ active' > 0
  BY <1>7, <1>t DEF WaitBlocks, Busy
<1>8. CASE \/ \E m \in Requests : SetConcurrency(m)
           \/ CreateReturn \/ Destroy \/ Joined \/ UNCHANGED vars
  BY <1>1, <1>8, <1>t DEF SetConcurrency, CreateReturn, Destroy, Joined, vars
<1> QED
  BY <1>2, <1>3, <1>4, <1>5, <1>6, <1>7, <1>8 DEF Next, WorkerStep, WaiterStep

(* No caller of nyxj_pool_wait ever sleeps on an idle pool.                *)
THEOREM NobodyStranded == Spec => []NoStrandedWaiter
<1>1. Init => NoStrandedWaiter
  BY DEF Init, NoStrandedWaiter
<1> QED
  BY Invariance, StrandedStep, <1>1, PTL DEF Spec

(* The throttle is respected by every step, whoever takes it.              *)
THEOREM ThrottleHolds == Spec => ThrottleRespected
<1>1. IInv /\ [Next]_vars => [active' > active => active' <= limit']_vars
  <2> SUFFICES ASSUME IInv, Next, active' > active PROVE active' <= limit'
    OBVIOUS
  <2> USE DEF ring, gauges, setting
  <2>1. active \in Nat /\ limit \in Nat
    BY DEF IInv, TypeOK
  <2>2. ASSUME NEW w \in Workers, Take(w) PROVE active' <= limit'
    BY <2>1, <2>2 DEF Take, Throttled
  <2>3. ASSUME NEW w \in Workers, Finish(w) PROVE FALSE
    BY <2>1, <2>3 DEF Finish
  <2>4. ASSUME active' = active PROVE FALSE
    BY <2>1, <2>4
  <2>5. CASE \E w \in Workers : CreateThread(w) \/ Sleep(w) \/ Exit(w) \/ Nap(w) \/ NapEnds(w)
                                \/ SpuriousWork(w)
    BY <2>4, <2>5 DEF CreateThread, Sleep, Exit, Nap, NapEnds, SpuriousWork
  <2>6. CASE \/ \E t \in Tasks : SubmitOk(t) \/ SubmitRejected(t)
             \/ \E c \in Waiters : WaitCall(c) \/ WaiterStep(c) \/ SpuriousIdle(c)
    BY <2>4, <2>6 DEF SubmitOk, SubmitRejected, WaitCall, WaiterStep, WaitBlocks, WaitReturns,
                      SpuriousIdle
  <2>7. CASE \/ \E m \in Requests : SetConcurrency(m)
             \/ CreateReturn \/ Destroy \/ Joined
    BY <2>4, <2>7 DEF SetConcurrency, CreateReturn, Destroy, Joined
  <2> QED
    BY <2>2, <2>3, <2>5, <2>6, <2>7 DEF Next, WorkerStep
<1> QED
  BY Invariance, <1>1, PTL DEF Spec, ThrottleRespected

-----------------------------------------------------------------------------
(* Nothing is lost. Who holds a task, what the counters say and what the   *)
(* callers of nyxj_pool_wait are owed have to be known together.           *)
With(how)    == {t \in Tasks : status[t] = how}
RunningTasks == {task[w] : w \in Running}

(* StatsAgree, where only finitely many tasks have been submitted.         *)
Accounts == /\ StatsAgree
            /\ IsFiniteSet(Accepted) /\ IsFiniteSet(With("done")) /\ IsFiniteSet(With("rejected"))

(* WaitMeansDone, and what it comes from while the caller is inside.       *)
Promised == /\ WaitMeansDone
            /\ \A c \in Waiters : \A t \in owed[c] : status[t] \in {"accepted", "done"}

(* A pool in use has a thread; one that is freed holds no task.            *)
Lively == /\ life \in {"open", "closing"} => nthreads > 0
          /\ life = "freed" => count = 0

QInv == InOnePlace /\ Accounts /\ Promised /\ Lively

(* Two tasks in the ring are in two cells.                                 *)
LEMMA SlotDistinct ==
    ASSUME NEW h \in 0 .. Cap - 1, NEW i \in 0 .. Cap - 1, NEW j \in 0 .. Cap - 1,
           (h + i) % Cap = (h + j) % Cap
    PROVE  i = j
<1>1. i \in 0 .. Cap /\ j \in 0 .. Cap
  BY PoolAssumption
<1>2. (h + i) % Cap = IF h + i < Cap THEN h + i ELSE h + i - Cap
  BY <1>1, SlotRange
<1>3. (h + j) % Cap = IF h + j < Cap THEN h + j ELSE h + j - Cap
  BY <1>1, SlotRange
<1> QED
  BY <1>2, <1>3, PoolAssumption

(* Behind the oldest task are the others, in the same order.               *)
LEMMA SlotShift ==
    ASSUME NEW h \in 0 .. Cap - 1, NEW i \in 0 .. Cap - 1
    PROVE  (((h + 1) % Cap) + i) % Cap = (h + (i + 1)) % Cap
<1>1. (h + 1) % Cap \in 0 .. Cap - 1 /\ 1 \in 0 .. Cap /\ i + 1 \in 0 .. Cap /\ i \in 0 .. Cap
  BY SlotRange, PoolAssumption
<1>2. (h + 1) % Cap = IF h + 1 < Cap THEN h + 1 ELSE h + 1 - Cap
  BY <1>1, SlotRange
<1>3. (h + (i + 1)) % Cap = IF h + (i + 1) < Cap THEN h + (i + 1) ELSE h + (i + 1) - Cap
  BY <1>1, SlotRange
<1>4. (((h + 1) % Cap) + i) % Cap = IF ((h + 1) % Cap) + i < Cap THEN ((h + 1) % Cap) + i
                                                              ELSE ((h + 1) % Cap) + i - Cap
  BY <1>1, SlotRange
<1> QED
  BY <1>2, <1>3, <1>4, PoolAssumption

(* What nyxj_pool_submit does to the ring.                                 *)
LEMMA SubmitEffect ==
    ASSUME IInv, NEW t \in Tasks, SubmitOk(t)
    PROVE  /\ count' = count + 1 /\ count < Cap
           /\ \A i \in 0 .. count : queue'[Slot(i)'] = IF i = count THEN t ELSE queue[Slot(i)]
           /\ Running' = Running /\ task' = task
           /\ status[t] = "fresh" /\ status' = [status EXCEPT ![t] = "accepted"]
<1> USE DEF ring, gauges, setting, clients
<1>t. /\ pc \in [Workers -> Places] /\ queue \in [0 .. Cap - 1 -> Tasks \cup {NoTask}]
      /\ head \in 0 .. Cap - 1 /\ count \in 0 .. Cap
  BY DEF IInv, TypeOK, Places
<1>1. count' = count + 1 /\ count < Cap /\ head' = head /\ count \in 0 .. Cap - 1
  BY <1>t, PoolAssumption DEF SubmitOk, Full
<1>2. queue' = [queue EXCEPT ![Slot(count)] = t] /\ \A i \in 0 .. count : Slot(i)' = Slot(i)
  BY <1>1 DEF SubmitOk, Slot
<1>3. \A i \in 0 .. count : Slot(i) \in 0 .. Cap - 1
  BY <1>t, <1>1, SlotRange, PoolAssumption DEF Slot
<1>4. ASSUME NEW i \in 0 .. count - 1, Slot(i) = Slot(count) PROVE FALSE
  <2>1. i \in 0 .. Cap - 1 /\ i # count
    BY <1>t, PoolAssumption
  <2> QED
    BY <1>t, <1>1, <1>4, <2>1, SlotDistinct DEF Slot
<1>5. ASSUME NEW i \in 0 .. count
      PROVE  queue'[Slot(i)'] = IF i = count THEN t ELSE queue[Slot(i)]
  <2>1. i = count \/ i \in 0 .. count - 1
    BY <1>t, PoolAssumption
  <2> QED
    BY <1>t, <1>2, <1>3, <1>4, <2>1
<1>7. Running' = Running
  <2>1. pc' \in Signal(pc)
    BY DEF SubmitOk
  <2> QED
    BY <1>t, <2>1, AfterSignal DEF Running, In
<1> QED
  BY <1>1, <1>5, <1>7 DEF SubmitOk

(* What a worker that takes the oldest task does to the ring.              *)
LEMMA TakeEffect ==
    ASSUME IInv, NEW w \in Workers, Take(w)
    PROVE  /\ count' = count - 1 /\ count > 0
           /\ \A i \in 0 .. count - 2 : queue'[Slot(i)'] = queue[Slot(i + 1)]
           /\ task' = [task EXCEPT ![w] = queue[Slot(0)]]
           /\ Running' = Running \cup {w} /\ w \notin Running
           /\ status' = status
<1> USE DEF ring, gauges, setting, clients
<1>t. /\ pc \in [Workers -> Places] /\ queue \in [0 .. Cap - 1 -> Tasks \cup {NoTask}]
      /\ head \in 0 .. Cap - 1 /\ count \in 0 .. Cap
  BY DEF IInv, TypeOK, Places
<1>1. count' = count - 1 /\ count > 0 /\ head' = Slot(1) /\ queue' = queue /\ status' = status
  BY DEF Take
<1>2. Slot(0) = head
  <2>1. 0 \in 0 .. Cap /\ head + 0 = head /\ head < Cap
    BY <1>t, PoolAssumption
  <2> QED
    BY <1>t, <2>1, SlotRange DEF Slot
<1>3. ASSUME NEW i \in 0 .. count - 2 PROVE queue'[Slot(i)'] = queue[Slot(i + 1)]
  <2>1. i \in 0 .. Cap - 1
    BY <1>t, PoolAssumption
  <2>2. Slot(i)' = Slot(i + 1)
    BY <1>t, <1>1, <2>1, SlotShift DEF Slot
  <2> QED
    BY <1>1, <2>2
<1>4. Running' = Running \cup {w} /\ w \notin Running
  BY <1>t DEF Take, Running, In, Places
<1> QED
  BY <1>1, <1>2, <1>3, <1>4 DEF Take, Oldest

-----------------------------------------------------------------------------
(* A step that leaves the ring, the workers' tasks and the fate of the     *)
(* accepted ones alone leaves every task where it is.                      *)
LEMMA NothingMoves ==
    ASSUME InOnePlace, UNCHANGED <<queue, head, count, task>>, Running' = Running,
           Accepted' = Accepted
    PROVE  InOnePlace'
BY DEF InOnePlace, Queued, Slot

(* An accepted task goes from its submitter into the ring, from there to   *)
(* one worker and out of the pool: it is never in two places and never in  *)
(* none.                                                                   *)
LEMMA PlaceStep == IInv /\ InOnePlace /\ [Next]_vars => InOnePlace'
<1> SUFFICES ASSUME IInv, InOnePlace, [Next]_vars PROVE InOnePlace'
  OBVIOUS
<1> USE DEF ring, gauges, setting, clients
<1>t. /\ pc \in [Workers -> Places] /\ task \in [Workers -> Tasks \cup {NoTask}]
      /\ head \in 0 .. Cap - 1 /\ count \in 0 .. Cap
      /\ status \in [Tasks -> {"fresh", "accepted", "rejected", "done"}]
  BY DEF IInv, TypeOK, Places
<1>1. ASSUME NEW w \in Workers, CreateThread(w) \/ Sleep(w) \/ Exit(w) \/ Nap(w) \/ NapEnds(w)
                                \/ SpuriousWork(w)
      PROVE  InOnePlace'
  <2>1. Running' = Running
    BY <1>1, <1>t DEF CreateThread, Sleep, Exit, Nap, NapEnds, SpuriousWork, Running, In, Places
  <2>2. UNCHANGED <<queue, head, count, task, status>>
    BY <1>1 DEF CreateThread, Sleep, Exit, Nap, NapEnds, SpuriousWork
  <2> QED
    BY <2>1, <2>2, NothingMoves DEF Accepted
<1>2. ASSUME NEW w \in Workers, Take(w) PROVE InOnePlace'
  <2>1. /\ count' = count - 1 /\ count > 0
        /\ \A i \in 0 .. count - 2 : queue'[Slot(i)'] = queue[Slot(i + 1)]
        /\ task' = [task EXCEPT ![w] = queue[Slot(0)]]
        /\ Running' = Running \cup {w} /\ w \notin Running
        /\ Accepted' = Accepted
    BY <1>2, TakeEffect DEF Accepted
  <2>2. Running \subseteq Workers
    BY DEF Running, In
  <2>3. Queued = {queue[Slot(0)]} \cup {queue[Slot(i + 1)] : i \in 0 .. count - 2}
    <3>1. \A i \in 0 .. count - 1 : i = 0 \/ (i - 1 \in 0 .. count - 2 /\ i = (i - 1) + 1)
      BY <1>t, PoolAssumption
    <3>2. 0 \in 0 .. count - 1 /\ \A i \in 0 .. count - 2 : i + 1 \in 0 .. count - 1
      BY <1>t, <2>1, PoolAssumption
    <3> QED
      BY <3>1, <3>2 DEF Queued
  <2>4. Queued' = {queue[Slot(i + 1)] : i \in 0 .. count - 2}
    <3>1. count' - 1 = count - 2
      BY <1>t, <2>1, PoolAssumption
    <3>2. Queued' = {queue'[Slot(i)'] : i \in 0 .. count - 2}
      BY <3>1 DEF Queued
    <3> QED
      BY <2>1, <3>2
  <2>5. queue[Slot(0)] \notin Queued'
    <3>1. \A i \in 0 .. count - 2 : i + 1 \in 0 .. count - 1 /\ i + 1 # 0 /\ 0 \in 0 .. count - 1
      BY <1>t, <2>1, PoolAssumption
    <3>2. \A i \in 0 .. count - 2 : queue[Slot(i + 1)] # queue[Slot(0)]
      BY <3>1 DEF InOnePlace
    <3> QED
      BY <2>4, <3>2
  <2>6. task'[w] = queue[Slot(0)] /\ \A v \in Running : task'[v] = task[v]
    BY <1>t, <2>1, <2>2
  <2>7. RunningTasks' = RunningTasks \cup {queue[Slot(0)]}
    BY <2>1, <2>6 DEF RunningTasks
  <2>8. Accepted' = Queued' \cup RunningTasks'
    BY <2>1, <2>3, <2>4, <2>7 DEF InOnePlace, RunningTasks
  <2>9. ASSUME NEW i \in 0 .. count' - 1, NEW j \in 0 .. count' - 1,
               queue'[Slot(i)'] = queue'[Slot(j)']
        PROVE  i = j
    <3>1. i \in 0 .. count - 2 /\ j \in 0 .. count - 2
      BY <1>t, <2>1, PoolAssumption
    <3>2. queue[Slot(i + 1)] = queue[Slot(j + 1)]
      BY <2>1, <2>9, <3>1
    <3>3. i + 1 \in 0 .. count - 1 /\ j + 1 \in 0 .. count - 1
      BY <1>t, <3>1, PoolAssumption
    <3>4. i + 1 = j + 1
      BY <3>2, <3>3 DEF InOnePlace
    <3> QED
      BY <3>1, <3>4
  <2>10. \A v \in Running' : task'[v] \notin Queued'
    BY <2>1, <2>3, <2>4, <2>5, <2>6 DEF InOnePlace
  <2>11. \A u, v \in Running' : task'[u] = task'[v] => u = v
    BY <2>1, <2>3, <2>6 DEF InOnePlace
  <2> QED
    BY <2>8, <2>9, <2>10, <2>11 DEF InOnePlace, RunningTasks
<1>3. ASSUME NEW w \in Workers, Finish(w) PROVE InOnePlace'
  <2>1. UNCHANGED <<queue, head, count, task>>
    BY <1>3 DEF Finish
  <2>2. Running' = Running \ {w} /\ w \in Running
    <3> DEFINE f == [pc EXCEPT ![w] = "check"]
    <3>1. f \in [Workers -> Places] /\ (pc' = f \/ pc' \in Signal(f)) /\ pc[w] = "run"
      BY <1>3, <1>t DEF Finish, PassOn, Places
    <3>2. \A v \in Workers : pc'[v] = f[v] \/ (f[v] = "wait" /\ pc'[v] = "check")
      BY <3>1, AfterSignal
    <3> QED
      BY <1>t, <3>1, <3>2 DEF Running, In, Places
  <2>3. task[w] \in Tasks /\ task[w] \in Accepted
    BY <2>2 DEF InOnePlace, Accepted
  <2>4. Accepted' = Accepted \ {task[w]}
    BY <1>3, <1>t, <2>3 DEF Finish, Accepted
  <2>5. Queued' = Queued
    BY <2>1 DEF Queued, Slot
  <2>6. Accepted' = Queued' \cup RunningTasks'
    BY <2>1, <2>2, <2>4, <2>5 DEF InOnePlace, RunningTasks
  <2>7. \A i, j \in 0 .. count' - 1 : queue'[Slot(i)'] = queue'[Slot(j)'] => i = j
    BY <2>1 DEF InOnePlace, Slot
  <2> QED
    BY <2>1, <2>2, <2>5, <2>6, <2>7 DEF InOnePlace, RunningTasks
<1>4. ASSUME NEW t \in Tasks, SubmitOk(t) PROVE InOnePlace'
  <2>1. /\ count' = count + 1 /\ count < Cap
        /\ \A i \in 0 .. count : queue'[Slot(i)'] = IF i = count THEN t ELSE queue[Slot(i)]
        /\ Running' = Running /\ task' = task
        /\ status[t] = "fresh" /\ status' = [status EXCEPT ![t] = "accepted"]
    BY <1>4, SubmitEffect
  <2>2. count' - 1 = count /\ count \in 0 .. count /\ 0 .. count = (0 .. count - 1) \cup {count}
        /\ count \notin 0 .. count - 1
    BY <1>t, <2>1, PoolAssumption
  <2>3. Queued' = Queued \cup {t}
    <3>1. Queued' = {queue'[Slot(i)'] : i \in 0 .. count}
      BY <2>2 DEF Queued
    <3> QED
      BY <2>1, <2>2, <3>1 DEF Queued
  <2>4. Accepted' = Accepted \cup {t} /\ t \notin Accepted
    BY <1>t, <2>1 DEF Accepted
  <2>5. t \notin Queued /\ t \notin RunningTasks
    BY <2>4 DEF InOnePlace, RunningTasks
  <2>6. Accepted' = Queued' \cup RunningTasks'
    BY <2>1, <2>3, <2>4 DEF InOnePlace, RunningTasks
  <2>7. ASSUME NEW i \in 0 .. count' - 1, NEW j \in 0 .. count' - 1,
               queue'[Slot(i)'] = queue'[Slot(j)']
        PROVE  i = j
    <3>1. \A k \in 0 .. count - 1 : queue[Slot(k)] # t
      BY <2>5 DEF Queued
    <3>2. i \in 0 .. count /\ j \in 0 .. count
      BY <2>2
    <3> QED
      BY <2>1, <2>2, <2>7, <3>1, <3>2 DEF InOnePlace
  <2>8. \A v \in Running' : task'[v] \notin Queued'
    BY <2>1, <2>3, <2>5 DEF InOnePlace, RunningTasks
  <2> QED
    BY <2>1, <2>6, <2>7, <2>8 DEF InOnePlace, RunningTasks
<1>5. ASSUME NEW t \in Tasks, SubmitRejected(t) PROVE InOnePlace'
  <2>1. UNCHANGED <<queue, head, count, task, pc>>
    BY <1>5 DEF SubmitRejected
  <2>2. Accepted' = Accepted
    BY <1>5, <1>t DEF SubmitRejected, Accepted
  <2>3. Running' = Running
    BY <2>1 DEF Running, In
  <2> QED
    BY <2>1, <2>2, <2>3, NothingMoves
<1>6. ASSUME pc' = Broadcast(pc), UNCHANGED <<queue, head, count, task, status>>
      PROVE  InOnePlace'
  <2>1. Running' = Running
    BY <1>6, <1>t, AfterBroadcast DEF Running, In, Places
  <2> QED
    BY <1>6, <2>1, NothingMoves DEF Accepted
<1>7. CASE (\E m \in Requests : SetConcurrency(m)) \/ Destroy
  BY <1>6, <1>7 DEF SetConcurrency, Destroy
<1>8. CASE \/ \E c \in Waiters : WaitCall(c) \/ WaiterStep(c) \/ SpuriousIdle(c)
           \/ CreateReturn \/ Joined \/ UNCHANGED vars
  <2>1. UNCHANGED <<queue, head, count, task, status, pc>>
    BY <1>8 DEF WaitCall, WaiterStep, WaitBlocks, WaitReturns, SpuriousIdle, CreateReturn, Joined, vars
  <2> QED
    BY <2>1, NothingMoves DEF Accepted, Running, In
<1> QED
  BY <1>1, <1>2, <1>3, <1>4, <1>5, <1>7, <1>8 DEF Next, WorkerStep

-----------------------------------------------------------------------------
(* What a step of the pool may do to a task: nothing, or give the one it   *)
(* is about its next status, and count it.                                 *)
LEMMA StatusStep ==
    ASSUME IInv, InOnePlace, [Next]_vars
    PROVE  \/ /\ status' = status /\ completed' = completed /\ rejected' = rejected
              /\ count' + active' = count + active
           \/ \E t \in Tasks : /\ status[t] = "fresh" /\ status' = [status EXCEPT ![t] = "accepted"]
                               /\ completed' = completed /\ rejected' = rejected
                               /\ count' + active' = count + active + 1
           \/ \E t \in Tasks : /\ status[t] = "fresh" /\ status' = [status EXCEPT ![t] = "rejected"]
                               /\ completed' = completed /\ rejected' = rejected + 1
                               /\ count' + active' = count + active
           \/ \E t \in Tasks : /\ status[t] = "accepted" /\ status' = [status EXCEPT ![t] = "done"]
                               /\ completed' = completed + 1 /\ rejected' = rejected
                               /\ count' + active' = count + active - 1
<1> DEFINE Same == /\ status' = status /\ completed' = completed /\ rejected' = rejected
                   /\ count' + active' = count + active
<1> USE DEF ring, gauges, setting, clients
<1>t. count \in Nat /\ active \in Nat
  BY PoolAssumption DEF IInv, TypeOK
<1>1. ASSUME NEW w \in Workers, CreateThread(w) \/ Sleep(w) \/ Exit(w) \/ Nap(w) \/ NapEnds(w)
                                \/ SpuriousWork(w)
      PROVE  Same
  BY <1>1 DEF CreateThread, Sleep, Exit, Nap, NapEnds, SpuriousWork
<1>2. ASSUME NEW w \in Workers, Take(w) PROVE Same
  BY <1>2, <1>t DEF Take
<1>3. ASSUME NEW w \in Workers, Finish(w)
      PROVE  \E t \in Tasks : /\ status[t] = "accepted" /\ status' = [status EXCEPT ![t] = "done"]
                              /\ completed' = completed + 1 /\ rejected' = rejected
                              /\ count' + active' = count + active - 1
  <2>1. w \in Running
    BY <1>3 DEF Finish, Running, In
  <2>2. task[w] \in Tasks /\ status[task[w]] = "accepted"
    BY <2>1 DEF InOnePlace, Accepted
  <2>3. count' + active' = count + active - 1
    BY <1>3, <1>t DEF Finish
  <2> QED
    BY <1>3, <2>2, <2>3 DEF Finish
<1>4. ASSUME NEW t \in Tasks, SubmitOk(t)
      PROVE  /\ status[t] = "fresh" /\ status' = [status EXCEPT ![t] = "accepted"]
             /\ completed' = completed /\ rejected' = rejected
             /\ count' + active' = count + active + 1
  BY <1>4, <1>t DEF SubmitOk
<1>5. ASSUME NEW t \in Tasks, SubmitRejected(t)
      PROVE  /\ status[t] = "fresh" /\ status' = [status EXCEPT ![t] = "rejected"]
             /\ completed' = completed /\ rejected' = rejected + 1
             /\ count' + active' = count + active
  BY <1>5, <1>t DEF SubmitRejected
<1>6. CASE \/ \E c \in Waiters : WaitCall(c) \/ WaiterStep(c) \/ SpuriousIdle(c)
           \/ \E m \in Requests : SetConcurrency(m)
           \/ CreateReturn \/ Destroy \/ Joined \/ UNCHANGED vars
  BY <1>6, <1>t DEF WaitCall, WaiterStep, WaitBlocks, WaitReturns, SpuriousIdle, SetConcurrency,
                    CreateReturn, Destroy, Joined, vars
<1> QED
  BY <1>1, <1>2, <1>3, <1>4, <1>5, <1>6 DEF Next, WorkerStep

(* The counters go on agreeing with what has happened.                     *)
LEMMA AccountsStep == IInv /\ InOnePlace /\ Accounts /\ [Next]_vars => Accounts'
<1> SUFFICES ASSUME IInv, InOnePlace, Accounts, [Next]_vars PROVE Accounts'
  OBVIOUS
<1>t. /\ status \in [Tasks -> {"fresh", "accepted", "rejected", "done"}]
      /\ count \in Nat /\ active \in Nat /\ completed \in Nat /\ rejected \in Nat
  BY PoolAssumption DEF IInv, TypeOK
<1>a. active' = Cardinality(Running')
  BY TypeStep, CountStep DEF IInv, CountsThreads
<1>f. /\ IsFiniteSet(Accepted) /\ IsFiniteSet(With("done")) /\ IsFiniteSet(With("rejected"))
      /\ count + active = Cardinality(Accepted)
      /\ completed = Cardinality(With("done")) /\ rejected = Cardinality(With("rejected"))
  BY DEF Accounts, StatsAgree, With
<1>n. /\ Cardinality(Accepted) \in Nat /\ Cardinality(With("done")) \in Nat
      /\ Cardinality(With("rejected")) \in Nat
  BY <1>f, FS_CardinalityType
<1>g. SUFFICES /\ IsFiniteSet(Accepted') /\ IsFiniteSet(With("done")')
               /\ IsFiniteSet(With("rejected")')
               /\ count' + active' = Cardinality(Accepted')
               /\ completed' = Cardinality(With("done")')
               /\ rejected' = Cardinality(With("rejected")')
  BY <1>a DEF Accounts, StatsAgree, With
<1>1. CASE /\ status' = status /\ completed' = completed /\ rejected' = rejected
           /\ count' + active' = count + active
  BY <1>1, <1>f DEF Accepted, With
<1>2. ASSUME NEW t \in Tasks,
             status[t] = "fresh", status' = [status EXCEPT ![t] = "accepted"],
             completed' = completed, rejected' = rejected, count' + active' = count + active + 1
      PROVE  <1>g!1
  <2>1. /\ Accepted' = Accepted \cup {t} /\ t \notin Accepted
        /\ With("done")' = With("done") /\ With("rejected")' = With("rejected")
    BY <1>2, <1>t DEF Accepted, With
  <2> QED
    BY <1>2, <1>f, <1>n, <2>1, FS_AddElement
<1>3. ASSUME NEW t \in Tasks,
             status[t] = "fresh", status' = [status EXCEPT ![t] = "rejected"],
             completed' = completed, rejected' = rejected + 1, count' + active' = count + active
      PROVE  <1>g!1
  <2>1. /\ Accepted' = Accepted /\ With("done")' = With("done")
        /\ With("rejected")' = With("rejected") \cup {t} /\ t \notin With("rejected")
    BY <1>3, <1>t DEF Accepted, With
  <2> QED
    BY <1>3, <1>f, <1>n, <2>1, FS_AddElement
<1>4. ASSUME NEW t \in Tasks,
             status[t] = "accepted", status' = [status EXCEPT ![t] = "done"],
             completed' = completed + 1, rejected' = rejected, count' + active' = count + active - 1
      PROVE  <1>g!1
  <2>1. /\ Accepted' = Accepted \ {t} /\ t \in Accepted
        /\ With("done")' = With("done") \cup {t} /\ t \notin With("done")
        /\ With("rejected")' = With("rejected")
    BY <1>4, <1>t DEF Accepted, With
  <2>2. Cardinality(Accepted') = Cardinality(Accepted) - 1 /\ IsFiniteSet(Accepted')
    BY <1>f, <2>1, FS_RemoveElement
  <2>3. Cardinality(With("done")') = Cardinality(With("done")) + 1 /\ IsFiniteSet(With("done")')
    BY <1>f, <2>1, FS_AddElement
  <2>4. IsFiniteSet(With("rejected")') /\ rejected' = Cardinality(With("rejected")')
    BY <1>4, <1>f, <2>1
  <2>5. count' + active' = Cardinality(Accepted')
    <3>1. count' + active' = Cardinality(Accepted) - 1
      BY <1>4, <1>f, <1>t
    <3> QED
      BY <2>2, <3>1
  <2>6. completed' = Cardinality(With("done")')
    BY <1>4, <1>f, <1>n, <2>3
  <2> QED
    BY <2>2, <2>3, <2>4, <2>5, <2>6
<1> QED
  BY <1>1, <1>2, <1>3, <1>4, StatusStep

(* A caller of nyxj_pool_wait leaves when its tasks are done, and no       *)
(* sooner.                                                                 *)
LEMMA PromisedStep == IInv /\ InOnePlace /\ Accounts /\ Promised /\ [Next]_vars => Promised'
<1> SUFFICES ASSUME IInv, InOnePlace, Accounts, Promised, [Next]_vars PROVE Promised'
  OBVIOUS
<1> USE DEF ring, gauges, setting, clients
<1>t. /\ status \in [Tasks -> {"fresh", "accepted", "rejected", "done"}]
      /\ caller \in [Waiters -> {"out", "check", "wait"}]
      /\ owed \in [Waiters -> SUBSET Tasks]
      /\ count \in Nat /\ active \in Nat
  BY PoolAssumption DEF IInv, TypeOK
<1>s. \A t \in Tasks : /\ status[t] = "done" => status'[t] = "done"
                       /\ status[t] = "accepted" => status'[t] \in {"accepted", "done"}
  BY <1>t, StatusStep
<1>1. ASSUME owed' = owed,
             \A c \in Waiters : caller'[c] = "out" => caller[c] = "out"
      PROVE  Promised'
  BY <1>1, <1>s, <1>t DEF Promised, WaitMeansDone
<1>2. ASSUME NEW c \in Waiters, WaitCall(c) PROVE Promised'
  <2>1. \A d \in Waiters : /\ owed'[d] = IF d = c THEN Accepted ELSE owed[d]
                           /\ caller'[d] = "out" => d # c /\ caller[d] = "out"
    BY <1>2, <1>t DEF WaitCall
  <2>2. \A t \in Accepted : t \in Tasks /\ status'[t] \in {"accepted", "done"}
    BY <1>s DEF Accepted
  <2> QED
    BY <1>s, <1>t, <2>1, <2>2 DEF Promised, WaitMeansDone
<1>3. ASSUME NEW c \in Waiters, WaitReturns(c) PROVE Promised'
  <2>1. count = 0 /\ active = 0
    BY <1>3, <1>t DEF WaitReturns, Busy
  <2>2. Accepted = {}
    BY <2>1, FS_EmptySet DEF Accounts, StatsAgree
  <2>3. \A d \in Waiters : \A t \in owed[d] : status[t] = "done" /\ t \in Tasks
    BY <1>t, <2>2 DEF Promised, Accepted
  <2>4. owed' = owed
    BY <1>3 DEF WaitReturns
  <2> QED
    BY <1>s, <2>3, <2>4 DEF Promised, WaitMeansDone
<1>4. ASSUME NEW w \in Workers, Finish(w) PROVE Promised'
  <2>1. caller' \in {caller, Broadcast(caller)} /\ owed' = owed
    BY <1>4 DEF Finish, TellIdle
  <2>2. \A c \in Waiters : caller'[c] = "out" => caller[c] = "out"
    BY <1>t, <2>1 DEF Broadcast
  <2> QED
    BY <1>1, <2>1, <2>2
<1>5. ASSUME NEW c \in Waiters, WaitBlocks(c) \/ SpuriousIdle(c) PROVE Promised'
  BY <1>1, <1>5, <1>t DEF WaitBlocks, SpuriousIdle
<1>6. CASE \/ \E w \in Workers : CreateThread(w) \/ Sleep(w) \/ Exit(w) \/ Nap(w) \/ NapEnds(w)
                                 \/ SpuriousWork(w) \/ Take(w)
           \/ \E t \in Tasks : SubmitOk(t) \/ SubmitRejected(t)
           \/ \E m \in Requests : SetConcurrency(m)
           \/ CreateReturn \/ Destroy \/ Joined \/ UNCHANGED vars
  <2>1. UNCHANGED <<caller, owed>>
    BY <1>6 DEF CreateThread, Sleep, Exit, Nap, NapEnds, SpuriousWork, Take, SubmitOk,
                SubmitRejected, SetConcurrency, CreateReturn, Destroy, Joined, vars
  <2> QED
    BY <1>1, <2>1
<1> QED
  BY <1>2, <1>3, <1>4, <1>5, <1>6 DEF Next, WorkerStep, WaiterStep

LEMMA LivelyStep == IInv /\ Lively /\ [Next]_vars => Lively'
<1> SUFFICES ASSUME IInv, Lively, [Next]_vars PROVE Lively'
  OBVIOUS
<1> USE DEF ring, gauges, setting, clients
<1>t. count \in Nat /\ nthreads \in Nat
  BY PoolAssumption DEF IInv, TypeOK
<1>1. ASSUME NEW w \in Workers, CreateThread(w) PROVE Lively'
  BY <1>1, <1>t DEF CreateThread, Lively
<1>2. ASSUME NEW w \in Workers, Take(w) PROVE Lively'
  BY <1>2, <1>t DEF Take, Lively
<1>3. ASSUME NEW t \in Tasks, SubmitOk(t) PROVE Lively'
  BY <1>3, <1>t DEF SubmitOk, MayCall, Lively
<1>4. CASE CreateReturn
  BY <1>4, <1>t DEF CreateReturn, Lively, IInv, LifeAgrees
<1>5. CASE Destroy
  BY <1>5 DEF Destroy, Lively
<1>6. CASE Joined
  <2>1. CASE In("exit") = {}
    <3>1. Started = {} /\ life = "closing" /\ nthreads > 0
      BY <1>6, <2>1 DEF Joined, Lively
    <3> QED
      BY <3>1, FS_EmptySet DEF IInv, CountsThreads
  <2>2. CASE In("exit") # {}
    BY <1>6, <2>2 DEF Joined, Lively, IInv, LifeAgrees
  <2> QED
    BY <2>1, <2>2
<1>7. CASE \/ \E w \in Workers : Sleep(w) \/ Exit(w) \/ Nap(w) \/ NapEnds(w) \/ SpuriousWork(w)
                                 \/ Finish(w)
           \/ \E t \in Tasks : SubmitRejected(t)
           \/ \E c \in Waiters : WaitCall(c) \/ WaiterStep(c) \/ SpuriousIdle(c)
           \/ \E m \in Requests : SetConcurrency(m)
           \/ UNCHANGED vars
  <2>1. UNCHANGED <<life, nthreads, count>>
    BY <1>7 DEF Sleep, Exit, Nap, NapEnds, SpuriousWork, Finish, SubmitRejected, WaitCall,
                WaiterStep, WaitBlocks, WaitReturns, SpuriousIdle, SetConcurrency, vars
  <2> QED
    BY <2>1 DEF Lively
<1> QED
  BY <1>1, <1>2, <1>3, <1>4, <1>5, <1>6, <1>7 DEF Next, WorkerStep

LEMMA InitQInv == Init => QInv
<1> SUFFICES ASSUME Init PROVE QInv
  OBVIOUS
<1> USE DEF Init
<1>1. Running = {} /\ Accepted = {} /\ With("done") = {} /\ With("rejected") = {}
  BY DEF Running, In, Accepted, With
<1>2. Queued = {} /\ 0 .. count - 1 = {}
  BY DEF Queued
<1>3. InOnePlace
  BY <1>1, <1>2 DEF InOnePlace
<1>4. Accounts
  <2>1. Cardinality({}) = 0 /\ IsFiniteSet({})
    BY FS_EmptySet
  <2>2. active = Cardinality(Running) /\ count + active = Cardinality(Accepted)
    BY <1>1, <2>1
  <2>3. completed = Cardinality(With("done")) /\ rejected = Cardinality(With("rejected"))
    BY <1>1, <2>1
  <2> QED
    BY <1>1, <2>1, <2>2, <2>3 DEF Accounts, StatsAgree, With
<1> QED
  BY <1>3, <1>4 DEF QInv, Promised, WaitMeansDone, Lively

(* The ring, the tasks and the counters of the pool agree with each other  *)
(* in every behaviour: the invariant the next two theorems follow from.    *)
THEOREM Bookkeeping == Spec => [](IInv /\ QInv)
<1>1. IInv /\ QInv /\ [Next]_vars => QInv'
  BY PlaceStep, AccountsStep, PromisedStep, LivelyStep DEF QInv
<1> QED
  BY Invariance, InitQInv, <1>1, PTL DEF Spec

(* Nothing accepted is lost, duplicated or forgotten; the counters agree;  *)
(* whoever waited finds everything done.                                   *)
THEOREM NothingIsLost == Spec => []NothingLost
<1>1. IInv /\ QInv => NothingLost
  BY DEF IInv, QInv, Accounts, Promised, NothingLost
<1> QED
  BY Bookkeeping, <1>1, PTL

(* The pool drains before it is freed: the workers that have left found    *)
(* the ring empty, and it stays so.                                        *)
THEOREM DrainsFirst == Spec => []DrainedBeforeFreed
<1>1. IInv /\ QInv => DrainedBeforeFreed
  <2> SUFFICES ASSUME IInv, QInv, life = "freed" PROVE Accepted = {}
    BY DEF IInv, LifeAgrees, DrainedBeforeFreed
  <2>1. Started = In("exit") /\ count = 0
    BY DEF IInv, LifeAgrees, QInv, Lively
  <2>2. Running = {}
    BY <2>1 DEF Running, Started, In
  <2>3. active = 0
    BY <2>2, FS_EmptySet DEF IInv, CountsThreads
  <2> QED
    BY <2>1, <2>3, FS_EmptySet DEF QInv, Accounts, StatsAgree
<1> QED
  BY Bookkeeping, <1>1, PTL

-----------------------------------------------------------------------------
(* The refinement: what the users of the pool see of it is a TaskQueue.    *)
Pending == [i \in 1 .. count |-> queue[Slot(i - 1)]]
Phase   == CASE life \in {"creating", "open"} -> "open"
             [] life = "closing" -> "closing"
             [] life = "freed" -> IF nthreads = 0 THEN "open" ELSE "gone"

(* Append and Tail as functions on the positions.                          *)
LEMMA SequenceAsFunction ==
    ASSUME NEW S, NEW q \in Seq(S)
    PROVE  /\ \A e \in S : Append(q, e) = [i \in 1 .. Len(q) + 1 |-> IF i = Len(q) + 1 THEN e ELSE q[i]]
           /\ q # <<>> => Tail(q) = [i \in 1 .. Len(q) - 1 |-> q[i + 1]]
<1>0. Len(q) \in Nat
  BY LenProperties
<1>1. ASSUME NEW e \in S
      PROVE  Append(q, e) = [i \in 1 .. Len(q) + 1 |-> IF i = Len(q) + 1 THEN e ELSE q[i]]
  <2> DEFINE a == Append(q, e)
  <2>1. /\ a \in Seq(S) /\ Len(a) = Len(q) + 1
        /\ \A i \in 1 .. Len(q) : a[i] = q[i]
        /\ a[Len(q) + 1] = e
    BY AppendProperties
  <2>2. a = [i \in 1 .. Len(q) + 1 |-> a[i]]
    BY <2>1, LenProperties
  <2>3. \A i \in 1 .. Len(q) + 1 : a[i] = IF i = Len(q) + 1 THEN e ELSE q[i]
    BY <1>0, <2>1
  <2> QED
    BY <2>2, <2>3
<1>2. ASSUME q # <<>> PROVE Tail(q) = [i \in 1 .. Len(q) - 1 |-> q[i + 1]]
  <2> DEFINE a == Tail(q)
  <2>1. a \in Seq(S) /\ Len(a) = Len(q) - 1 /\ \A i \in 1 .. Len(a) : a[i] = q[i + 1]
    BY <1>2, HeadTailProperties
  <2>2. a = [i \in 1 .. Len(q) - 1 |-> a[i]]
    BY <2>1, LenProperties
  <2> QED
    BY <2>1, <2>2
<1> QED
  BY <1>1, <1>2

(* The ring, read from its head, is a sequence of count tasks.             *)
LEMMA PendingIsSeq ==
    ASSUME TypeOK
    PROVE  /\ Pending \in Seq(Tasks \cup {NoTask}) /\ Len(Pending) = count
           /\ Queued = {Pending[i] : i \in DOMAIN Pending}
<1>t. /\ queue \in [0 .. Cap - 1 -> Tasks \cup {NoTask}]
      /\ head \in 0 .. Cap - 1 /\ count \in 0 .. Cap
  BY DEF TypeOK
<1>1. ASSUME NEW i \in 1 .. count PROVE Slot(i - 1) \in 0 .. Cap - 1
  <2>1. i - 1 \in 0 .. Cap
    BY <1>t, PoolAssumption
  <2> QED
    BY <1>t, <2>1, SlotRange DEF Slot
<1>2. count \in Nat /\ Pending \in [1 .. count -> Tasks \cup {NoTask}]
  BY <1>t, <1>1, PoolAssumption DEF Pending
<1>3. Pending \in Seq(Tasks \cup {NoTask}) /\ Len(Pending) = count
  BY <1>2
<1>4. \A i \in 0 .. count - 1 : i + 1 \in 1 .. count /\ (i + 1) - 1 = i
  BY <1>t, PoolAssumption
<1>5. \A i \in 1 .. count : i - 1 \in 0 .. count - 1
  BY <1>t, PoolAssumption
<1>6. Queued = {Pending[i] : i \in 1 .. count}
  BY <1>4, <1>5 DEF Queued, Pending
<1> QED
  BY <1>2, <1>3, <1>6

LEMMA SubmitAppends ==
    ASSUME IInv, TypeOK', NEW t \in Tasks, SubmitOk(t)
    PROVE  Pending' = Append(Pending, t)
<1>t. count \in Nat
  BY PoolAssumption DEF IInv, TypeOK
<1>1. /\ count' = count + 1
      /\ \A i \in 0 .. count : queue'[Slot(i)'] = IF i = count THEN t ELSE queue[Slot(i)]
  BY SubmitEffect
<1>2. Pending' = [i \in 1 .. count + 1 |-> queue'[Slot(i - 1)']]
  BY <1>1 DEF Pending
<1>3. Pending' = [i \in 1 .. count + 1 |-> IF i = count + 1 THEN t ELSE Pending[i]]
  <2>1. ASSUME NEW i \in 1 .. count + 1
        PROVE  queue'[Slot(i - 1)'] = IF i = count + 1 THEN t ELSE Pending[i]
    <3>1. i - 1 \in 0 .. count /\ (i - 1 = count <=> i = count + 1)
          /\ (i # count + 1 => i \in 1 .. count)
      BY <1>t
    <3> QED
      BY <1>1, <3>1 DEF Pending
  <2> QED
    BY <1>2, <2>1
<1>4. Pending \in Seq(Tasks \cup {NoTask}) /\ Len(Pending) = count
  BY PendingIsSeq DEF IInv
<1>5. Append(Pending, t) = [i \in 1 .. Len(Pending) + 1 |-> IF i = Len(Pending) + 1 THEN t ELSE Pending[i]]
  BY <1>4, SequenceAsFunction
<1> QED
  BY <1>3, <1>4, <1>5

LEMMA TakeTakesHead ==
    ASSUME IInv, NEW w \in Workers, Take(w)
    PROVE  Pending # <<>> /\ Pending' = Tail(Pending) /\ Head(Pending) = queue[Slot(0)]
<1>t. count \in Nat
  BY PoolAssumption DEF IInv, TypeOK
<1>1. /\ count' = count - 1 /\ count > 0
      /\ \A i \in 0 .. count - 2 : queue'[Slot(i)'] = queue[Slot(i + 1)]
  BY TakeEffect
<1>2. Pending \in Seq(Tasks \cup {NoTask}) /\ Len(Pending) = count
  BY PendingIsSeq DEF IInv
<1>3. Pending # <<>> /\ Head(Pending) = queue[Slot(0)]
  BY <1>t, <1>1, <1>2 DEF Pending
<1>4. Pending' = [i \in 1 .. count - 1 |-> queue'[Slot(i - 1)']]
  BY <1>1 DEF Pending
<1>5. ASSUME NEW i \in 1 .. count - 1 PROVE queue'[Slot(i - 1)'] = Pending[i + 1]
  <2>1. i - 1 \in 0 .. count - 2 /\ (i - 1) + 1 = i /\ i + 1 \in 1 .. count /\ (i + 1) - 1 = i
    BY <1>t
  <2> QED
    BY <1>1, <2>1 DEF Pending
<1>6. Pending' = [i \in 1 .. count - 1 |-> Pending[i + 1]]
  BY <1>4, <1>5
<1>7. Tail(Pending) = [i \in 1 .. Len(Pending) - 1 |-> Pending[i + 1]]
  BY <1>2, <1>3, SequenceAsFunction
<1> QED
  BY <1>2, <1>3, <1>6, <1>7

LEMMA InitRefined == Init => Promise!Init
<1> SUFFICES ASSUME Init PROVE Promise!Init
  OBVIOUS
<1>1. Pending = <<>> /\ RunningTasks = {} /\ With("done") = {} /\ With("rejected") = {}
  BY DEF Init, Pending, RunningTasks, Running, In, With
<1>2. Phase = "open"
  BY DEF Init, Phase
<1> QED
  BY <1>1, <1>2 DEF Promise!Init, Pending, RunningTasks, With, Phase

(* A task the queue knows is one that was submitted.                       *)
LEMMA KnownTasks ==
    ASSUME IInv, QInv
    PROVE  \A t \in Promise!Known : t \in Tasks /\ status[t] # "fresh"
<1>1. Promise!Known = Queued \cup RunningTasks \cup With("done") \cup With("rejected")
  BY PendingIsSeq DEF IInv, Promise!Known, Pending, RunningTasks, With
<1>2. Queued \cup RunningTasks = Accepted
  BY DEF QInv, InOnePlace, RunningTasks
<1> QED
  BY <1>1, <1>2 DEF Accepted, With

(* Every step of the pool is one of the queue, or none.                    *)
LEMMA StepRefined ==
    IInv /\ QInv /\ IInv' /\ [Next]_vars => [Promise!Next]_(Promise!queueVars)
<1> DEFINE Stays == UNCHANGED <<Pending, RunningTasks, With("done"), With("rejected"), Phase>>
<1> SUFFICES ASSUME IInv, QInv, IInv', [Next]_vars
             PROVE  Promise!Next \/ Stays
  BY DEF Promise!queueVars, Pending, RunningTasks, With, Phase
<1> USE DEF ring, gauges, setting, clients
<1>t. /\ pc \in [Workers -> Places] /\ task \in [Workers -> Tasks \cup {NoTask}]
      /\ status \in [Tasks -> {"fresh", "accepted", "rejected", "done"}]
      /\ count \in 0 .. Cap /\ Cap \in Nat /\ count \in Nat /\ nthreads \in Nat
      /\ life \in {"creating", "open", "closing", "freed"}
  BY PoolAssumption DEF IInv, TypeOK, Places
<1>r. Running' = Running /\ task' = task => RunningTasks' = RunningTasks
  BY DEF RunningTasks
<1>1. ASSUME NEW w \in Workers, CreateThread(w) \/ Sleep(w) \/ Exit(w) \/ Nap(w) \/ NapEnds(w)
                                \/ SpuriousWork(w)
      PROVE  Stays
  <2>1. Running' = Running
    BY <1>1, <1>t DEF CreateThread, Sleep, Exit, Nap, NapEnds, SpuriousWork, Running, In, Places
  <2>2. UNCHANGED <<queue, head, count, task, status, life>> /\ (nthreads' = nthreads \/ life = "creating")
    BY <1>1 DEF CreateThread, Sleep, Exit, Nap, NapEnds, SpuriousWork
  <2> QED
    BY <1>r, <2>1, <2>2 DEF Pending, Slot, With, Phase
<1>2. ASSUME NEW w \in Workers, Take(w) PROVE Promise!Start
  <2>1. Pending # <<>> /\ Pending' = Tail(Pending) /\ Head(Pending) = queue[Slot(0)]
    BY <1>2, TakeTakesHead
  <2>2. RunningTasks' = RunningTasks \cup {Head(Pending)}
    <3>1. /\ task' = [task EXCEPT ![w] = queue[Slot(0)]]
          /\ Running' = Running \cup {w} /\ w \notin Running
      BY <1>2, TakeEffect
    <3>2. task'[w] = queue[Slot(0)] /\ \A v \in Running : task'[v] = task[v]
      BY <1>t, <3>1 DEF Running, In
    <3> QED
      BY <2>1, <3>1, <3>2 DEF RunningTasks
  <2>3. Cardinality(RunningTasks) < Cardinality(Workers)
    <3> DEFINE f == [v \in Running |-> task[v]]
    <3>1. Running \in SUBSET Workers /\ w \in Workers \ Running
      BY <1>2, <1>t DEF Running, In, Take
    <3>2. IsFiniteSet(Running) /\ IsFiniteSet(Workers)
      BY <3>1, PoolAssumption, FS_Subset
    <3>3. f \in Surjection(Running, RunningTasks)
      BY DEF Surjection, RunningTasks
    <3>4. Cardinality(RunningTasks) <= Cardinality(Running) /\ IsFiniteSet(RunningTasks)
      BY <3>2, <3>3, FS_Surjection
    <3>5. /\ Cardinality(Running) <= Cardinality(Workers)
          /\ Cardinality(Running) # Cardinality(Workers)
      BY <3>1, <3>2, FS_Subset
    <3>6. /\ Cardinality(Running) \in Nat /\ Cardinality(Workers) \in Nat
          /\ Cardinality(RunningTasks) \in Nat
      BY <3>2, <3>4, FS_CardinalityType
    <3> QED
      BY <3>4, <3>5, <3>6
  <2>c. Promise!Cardinality(RunningTasks) = Cardinality(RunningTasks)
    BY DEF Cardinality, Promise!Cardinality
  <2>4. UNCHANGED <<With("done"), With("rejected"), Phase>>
    BY <1>2 DEF Take, With, Phase
  <2> QED
    BY <2>1, <2>2, <2>3, <2>c, <2>4 DEF Promise!Start, Pending, RunningTasks, With, Phase
<1>3. ASSUME NEW w \in Workers, Finish(w) PROVE Promise!Next
  <2>1. Running' = Running \ {w} /\ w \in Running /\ task' = task
    <3> DEFINE f == [pc EXCEPT ![w] = "check"]
    <3>1. f \in [Workers -> Places] /\ (pc' = f \/ pc' \in Signal(f)) /\ pc[w] = "run" /\ task' = task
      BY <1>3, <1>t DEF Finish, PassOn, Places
    <3>2. \A v \in Workers : pc'[v] = f[v] \/ (f[v] = "wait" /\ pc'[v] = "check")
      BY <3>1, AfterSignal
    <3> QED
      BY <1>t, <3>1, <3>2 DEF Running, In, Places
  <2>2. task[w] \in Tasks /\ status[task[w]] = "accepted"
    BY <2>1 DEF QInv, InOnePlace, Accepted
  <2>3. \A v \in Running : task[v] = task[w] => v = w
    BY <2>1 DEF QInv, InOnePlace
  <2>4. task[w] \in RunningTasks /\ RunningTasks' = RunningTasks \ {task[w]}
    BY <2>1, <2>3 DEF RunningTasks
  <2>5. With("done")' = With("done") \cup {task[w]} /\ With("rejected")' = With("rejected")
    BY <1>3, <1>t, <2>2 DEF Finish, With
  <2>6. Pending' = Pending /\ Phase' = Phase
    BY <1>3 DEF Finish, Pending, Slot, Phase
  <2>7. PICK t \in Tasks : t = task[w]
    BY <2>2
  <2>8. Promise!Finish(t)
    BY <2>4, <2>5, <2>6, <2>7 DEF Promise!Finish, Pending, RunningTasks, With, Phase
  <2> QED
    BY <2>8 DEF Promise!Next
<1>4. ASSUME NEW t \in Tasks, SubmitOk(t) PROVE Promise!Accept(t)
  <2>1. Pending' = Append(Pending, t)
    BY <1>4, SubmitAppends DEF IInv
  <2>2. /\ Running' = Running /\ task' = task /\ count < Cap
        /\ status[t] = "fresh" /\ status' = [status EXCEPT ![t] = "accepted"]
    BY <1>4, SubmitEffect
  <2>3. Len(Pending) < Cap
    BY <2>2, PendingIsSeq DEF IInv
  <2>4. t \notin Promise!Known
    BY <2>2, KnownTasks
  <2>5. UNCHANGED <<RunningTasks, With("done"), With("rejected"), Phase>>
    <3>1. UNCHANGED <<life, nthreads>>
      BY <1>4 DEF SubmitOk
    <3> QED
      BY <1>r, <1>t, <2>2, <3>1 DEF With, Phase
  <2>6. Phase = "open"
    BY <1>4 DEF SubmitOk, MayCall, Phase, IInv, LifeAgrees
  <2> QED
    BY <2>1, <2>3, <2>4, <2>5, <2>6 DEF Promise!Accept, Pending, RunningTasks, With, Phase
<1>5. ASSUME NEW t \in Tasks, SubmitRejected(t) PROVE Promise!Refuse(t)
  <2>1. /\ MayCall /\ status[t] = "fresh" /\ (shutdown \/ count = Cap)
        /\ status' = [status EXCEPT ![t] = "rejected"]
        /\ UNCHANGED <<pc, task, queue, head, count, life, nthreads>>
    BY <1>5 DEF SubmitRejected, Full
  <2>2. t \notin Promise!Known
    BY <2>1, KnownTasks
  <2>3. Phase = "closing" \/ (Phase = "open" /\ Len(Pending) = Cap)
    <3>1. Len(Pending) = count
      BY PendingIsSeq DEF IInv
    <3> QED
      BY <2>1, <3>1 DEF MayCall, Phase, IInv, LifeAgrees
  <2>4. UNCHANGED <<Pending, RunningTasks, With("done"), Phase>>
    BY <1>r, <1>t, <2>1 DEF Pending, Slot, Running, In, With, Phase
  <2>5. With("rejected")' = With("rejected") \cup {t}
    BY <1>t, <2>1 DEF With
  <2> QED
    BY <2>2, <2>3, <2>4, <2>5 DEF Promise!Refuse, Pending, RunningTasks, With, Phase
<1>6. ASSUME pc' = Broadcast(pc) \/ pc' = pc, UNCHANGED <<queue, head, count, task, status>>
      PROVE  UNCHANGED <<Pending, RunningTasks, With("done"), With("rejected")>>
  <2>1. Running' = Running
    BY <1>6, <1>t, AfterBroadcast DEF Running, In, Places
  <2> QED
    BY <1>6, <1>r, <2>1 DEF Pending, Slot, With
<1>7. ASSUME NEW m \in Requests, SetConcurrency(m) PROVE Stays
  BY <1>6, <1>7 DEF SetConcurrency, Phase
<1>8. CASE Destroy
  <2>1. UNCHANGED <<Pending, RunningTasks, With("done"), With("rejected")>>
    BY <1>6, <1>8 DEF Destroy
  <2>2. Phase = "open" /\ Phase' = "closing"
    BY <1>8 DEF Destroy, Phase
  <2> QED
    BY <2>1, <2>2 DEF Promise!Next, Promise!Close, Pending, RunningTasks, With, Phase
<1>9. CASE CreateReturn
  <2>1. UNCHANGED <<Pending, RunningTasks, With("done"), With("rejected")>>
    BY <1>6, <1>9 DEF CreateReturn
  <2>2. Phase = "open" /\ Phase' = "open"
    BY <1>9 DEF CreateReturn, Phase
  <2> QED
    BY <2>1, <2>2
<1>10. CASE Joined
  <2>1. UNCHANGED <<Pending, RunningTasks, With("done"), With("rejected")>>
    BY <1>6, <1>10 DEF Joined
  <2>2. life = "closing" /\ life' = "freed" /\ nthreads' = nthreads /\ nthreads > 0
        /\ Started = In("exit") /\ count' = count
    BY <1>10 DEF Joined, QInv, Lively
  <2>3. Phase = "closing" /\ Phase' = "gone"
    BY <1>t, <2>2 DEF Phase
  <2>4. RunningTasks = {}
    BY <2>2 DEF Started, Running, In, RunningTasks
  <2>5. count = 0
    <3>1. In("exit") # {}
      BY <2>2, FS_EmptySet DEF IInv, CountsThreads
    <3> QED
      BY <3>1 DEF IInv, LifeAgrees
  <2>6. Pending = <<>>
    BY <2>5, PendingIsSeq, EmptySeq DEF IInv
  <2> QED
    BY <2>1, <2>3, <2>4, <2>6 DEF Promise!Next, Promise!Vanish, Pending, RunningTasks, With, Phase
<1>11. CASE (\E c \in Waiters : WaitCall(c) \/ WaiterStep(c) \/ SpuriousIdle(c)) \/ UNCHANGED vars
  <2>1. UNCHANGED <<pc, queue, head, count, task, status, life, nthreads>>
    BY <1>11 DEF WaitCall, WaiterStep, WaitBlocks, WaitReturns, SpuriousIdle, vars
  <2> QED
    BY <1>6, <2>1 DEF Phase
<1> QED
  BY <1>1, <1>2, <1>3, <1>4, <1>5, <1>7, <1>8, <1>9, <1>10, <1>11
     DEF Next, WorkerStep, Promise!Next

(* The pool is the queue its users rely on: bounded, in order, each task   *)
(* started once, refused only when full or closing, drained before it is   *)
(* gone. (That it goes on, the fairness of TaskQueue, is left to TLC.)     *)
THEOREM PoolIsATaskQueue == Spec => Promise!SafeSpec
<1>1. Spec => [](IInv /\ QInv) /\ [][Next]_vars
  BY Bookkeeping, PTL DEF Spec
<1> QED
  BY InitRefined, StepRefined, <1>1, PTL DEF Spec, Promise!SafeSpec
=============================================================================
