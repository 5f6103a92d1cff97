------------------------------ MODULE WorkerPool ------------------------------
(***************************************************************************)
(* The thread pool of src/runtime/pool.c: a ring of tasks, a mutex, the    *)
(* condition variables has_work and idle, N worker threads and a           *)
(* concurrency limit that can be moved while the pool runs.                *)
(*                                                                         *)
(* Grain: what a thread does between taking p->lock and releasing it (or   *)
(* waiting on a condition variable) is one step.  A thread whose pc is     *)
(* "check" is on its way to the lock: it was just created, has finished a  *)
(* task, or was woken.  A thread in "wait" sleeps on has_work (workers) or *)
(* idle (callers of nyxj_pool_wait) and leaves it only when signalled or   *)
(* spuriously.  The calls of one client thread are any number of these     *)
(* steps, so every interleaving of clients is covered.                     *)
(***************************************************************************)
EXTENDS Integers, FiniteSets, Sequences

CONSTANTS Workers,    \* threads asked for in nyxj_pool_create
          Waiters,    \* client threads that may call nyxj_pool_wait
          Tasks,      \* task objects, each submitted at most once
          NoTask,     \* content of a ring slot never written
          Cap,        \* queue_capacity
          Requests    \* the arguments given to nyxj_pool_set_concurrency

ASSUME PoolAssumption ==
    /\ IsFiniteSet(Workers) /\ Workers # {}
    /\ NoTask \notin Tasks
    /\ Cap \in Nat \ {0}
    /\ Requests \subseteq Int

VARIABLES
    pc,         \* [Workers -> "unborn" | "check" | "wait" | "nap" | "run" | "exit"]
    task,       \* the task a worker holds in its local variable t
    queue, head, count,                               \* the ring
    active, limit, nthreads, shutdown,
    completed, rejected,
    life,       \* "creating", "open", "closing" (in nyxj_pool_destroy), "freed"
    caller,     \* [Waiters -> "out" | "check" | "wait"]: inside nyxj_pool_wait?
    status,     \* what became of each task, seen by its submitter (history)
    owed        \* tasks accepted and not done when a waiter called (history)

ring    == <<queue, head, count>>
gauges  == <<active, completed>>
setting == <<limit, shutdown>>
clients == <<caller, owed>>
vars == <<pc, task, ring, gauges, setting, nthreads, rejected, life, clients, status>>

In(where)  == {w \in Workers : pc[w] = where}
Running    == In("run")
Awake      == In("check") \cup In("nap")   \* will look at the queue unprompted
Started    == Workers \ In("unborn")
Slot(i)    == (head + i) % Cap             \* of the i-th oldest task in the ring
Queued     == {queue[Slot(i)] : i \in 0 .. count - 1}
Accepted   == {t \in Tasks : status[t] = "accepted"}

-----------------------------------------------------------------------------
(* nyxj_cond_signal wakes one sleeper, if any; nyxj_cond_broadcast all.    *)
NoSignal(f)  == {f}
Signal(f)    == IF \E x \in DOMAIN f : f[x] = "wait"
                THEN {[f EXCEPT ![x] = "check"] : x \in {y \in DOMAIN f : f[y] = "wait"}}
                ELSE {f}
NoBroadcast(f) == f
Broadcast(f) == [x \in DOMAIN f |-> IF f[x] = "wait" THEN "check" ELSE f[x]]

(* The conditions pool.c tests under the lock.  Here and below, a          *)
(* definition no action uses is a plausible mistake in the next one, with  *)
(* which the properties are shown to depend on the code.                   *)
OneTooMany == count > Cap
Full       == count = Cap
OneOver    == active > limit
Throttled  == active >= limit
Busy       == count > 0 \/ active > 0

Newest     == queue[Slot(count - 1)]
Oldest     == queue[head]

Init == /\ pc = [w \in Workers |-> "unborn"]
        /\ task = [w \in Workers |-> NoTask]
        /\ queue = [i \in 0 .. Cap - 1 |-> NoTask] /\ head = 0 /\ count = 0
        /\ active = 0 /\ completed = 0 /\ rejected = 0
        /\ limit = Cardinality(Workers) /\ nthreads = 0 /\ shutdown = FALSE
        /\ life = "creating"
        /\ caller = [c \in Waiters |-> "out"] /\ owed = [c \in Waiters |-> {}]
        /\ status = [t \in Tasks |-> "fresh"]

(* nyxj_pool_create: one more thread starts.                               *)
CreateThread(w) == /\ life = "creating" /\ pc[w] = "unborn"
                   /\ pc' = [pc EXCEPT ![w] = "check"]
                   /\ nthreads' = nthreads + 1
                   /\ UNCHANGED <<task, ring, gauges, setting, rejected, life, clients, status>>

(* The creation loop ends, after all the threads or at the first that      *)
(* could not be created; with none at all the pool is destroyed again.     *)
CreateReturn == /\ life = "creating"
                /\ limit' = nthreads
                /\ shutdown' = (nthreads = 0)
                /\ life' = IF nthreads = 0 THEN "freed" ELSE "open"
                /\ UNCHANGED <<pc, task, ring, gauges, nthreads, rejected, clients, status>>

(* The pool may be called from creation to destruction and, while it is    *)
(* being destroyed, by the tasks that still run.                           *)
MayCall == life = "open" \/ (life = "closing" /\ Running # {})

-----------------------------------------------------------------------------
(* worker(): the waiting loop and the four ways out of it.                 *)
Sleep(w) == /\ pc[w] = "check"
            /\ ~shutdown /\ (count = 0 \/ Throttled)
            /\ pc' = [pc EXCEPT ![w] = "wait"]
            /\ UNCHANGED <<task, ring, gauges, setting, nthreads, rejected, life, clients, status>>

LeaveOnShutdown(w) == /\ pc[w] = "check" /\ shutdown
                      /\ pc' = [pc EXCEPT ![w] = "exit"]
                      /\ UNCHANGED <<task, ring, gauges, setting, nthreads, rejected, life, clients, status>>

Exit(w) == /\ pc[w] = "check"
           /\ shutdown /\ count = 0
           /\ pc' = [pc EXCEPT ![w] = "exit"]
           /\ UNCHANGED <<task, ring, gauges, setting, nthreads, rejected, life, clients, status>>

(* Shutdown while throttled: sleep a millisecond and try again.            *)
Nap(w) == /\ pc[w] = "check"
          /\ shutdown /\ count > 0 /\ Throttled
          /\ pc' = [pc EXCEPT ![w] = "nap"]
          /\ UNCHANGED <<task, ring, gauges, setting, nthreads, rejected, life, clients, status>>

NapEnds(w) == /\ pc[w] = "nap"
              /\ pc' = [pc EXCEPT ![w] = "check"]
              /\ UNCHANGED <<task, ring, gauges, setting, nthreads, rejected, life, clients, status>>

Take(w) == /\ pc[w] = "check"
           /\ count > 0 /\ ~Throttled
           /\ task' = [task EXCEPT ![w] = Oldest]
           /\ head' = Slot(1)
           /\ count' = count - 1
           /\ active' = active + 1
           /\ pc' = [pc EXCEPT ![w] = "run"]
           /\ UNCHANGED <<queue, completed, setting, nthreads, rejected, life, clients, status>>

(* The last worker to finish tells the callers of nyxj_pool_wait; remaining *)
(* work is announced to one more worker.                                   *)
TellIdleBeforeLeaving(left) == IF count = 0 /\ active = 0 THEN Broadcast(caller) ELSE caller
TellIdle(left) == IF count = 0 /\ left = 0 THEN Broadcast(caller) ELSE caller
PassOn(f)      == IF count > 0 THEN Signal(f) ELSE {f}

(* The task returns; the worker retakes the lock and accounts for it.      *)
Finish(w) == /\ pc[w] = "run"
             /\ active' = active - 1
             /\ completed' = completed + 1
             /\ status' = [status EXCEPT ![task[w]] = "done"]
             /\ pc' \in PassOn([pc EXCEPT ![w] = "check"])
             /\ caller' = TellIdle(active - 1)
             /\ UNCHANGED <<task, ring, setting, nthreads, rejected, life, owed>>

-----------------------------------------------------------------------------
(* nyxj_pool_submit *)
SubmitOk(t) == /\ MayCall /\ status[t] = "fresh"
               /\ ~shutdown /\ ~Full
               /\ queue' = [queue EXCEPT ![Slot(count)] = t]
               /\ count' = count + 1
               /\ pc' \in Signal(pc)
               /\ status' = [status EXCEPT ![t] = "accepted"]
               /\ UNCHANGED <<task, head, gauges, setting, nthreads, rejected, life, clients>>

SubmitRejected(t) == /\ MayCall /\ status[t] = "fresh"
                     /\ shutdown \/ Full
                     /\ rejected' = rejected + 1
                     /\ status' = [status EXCEPT ![t] = "rejected"]
                     /\ UNCHANGED <<pc, task, ring, gauges, setting, nthreads, life, clients>>

(* nyxj_pool_wait *)
WaitCall(c) == /\ life = "open" /\ caller[c] = "out"
               /\ caller' = [caller EXCEPT ![c] = "check"]
               /\ owed' = [owed EXCEPT ![c] = Accepted]
               /\ UNCHANGED <<pc, task, ring, gauges, setting, nthreads, rejected, life, status>>

WaitBlocks(c) == /\ caller[c] = "check"
                 /\ Busy
                 /\ caller' = [caller EXCEPT ![c] = "wait"]
                 /\ UNCHANGED <<pc, task, ring, gauges, setting, nthreads, rejected, life, owed, status>>

WaitReturns(c) == /\ caller[c] = "check"
                  /\ ~Busy
                  /\ caller' = [caller EXCEPT ![c] = "out"]
                  /\ UNCHANGED <<pc, task, ring, gauges, setting, nthreads, rejected, life, owed, status>>

(* nyxj_pool_set_concurrency *)
Clamp(m) == IF m <= 0 \/ m > nthreads THEN nthreads ELSE m

SetConcurrency(m) == /\ MayCall
                     /\ limit' = Clamp(m)
                     /\ pc' = Broadcast(pc)
                     /\ UNCHANGED <<task, ring, gauges, shutdown, nthreads, rejected, life, clients, status>>

(* nyxj_pool_destroy, up to the joins.  Its caller must be the last one    *)
(* using the pool, so no client thread is inside nyxj_pool_wait.           *)
Destroy == /\ life = "open"
           /\ \A c \in Waiters : caller[c] = "out"
           /\ shutdown' = TRUE
           /\ limit' = nthreads
           /\ pc' = Broadcast(pc)
           /\ life' = "closing"
           /\ UNCHANGED <<task, ring, gauges, nthreads, rejected, clients, status>>

(* Every thread was joined: the pool is freed.                             *)
Joined == /\ life = "closing"
          /\ Started = In("exit")
          /\ life' = "freed"
          /\ UNCHANGED <<pc, task, ring, gauges, setting, nthreads, rejected, clients, status>>

(* A condition variable may return without a signal.                       *)
SpuriousWork(w) == /\ pc[w] = "wait"
                   /\ pc' = [pc EXCEPT ![w] = "check"]
                   /\ UNCHANGED <<task, ring, gauges, setting, nthreads, rejected, life, clients, status>>

SpuriousIdle(c) == /\ caller[c] = "wait"
                   /\ caller' = [caller EXCEPT ![c] = "check"]
                   /\ UNCHANGED <<pc, task, ring, gauges, setting, nthreads, rejected, life, owed, status>>

-----------------------------------------------------------------------------
WorkerStep(w) == Sleep(w) \/ Exit(w) \/ Nap(w) \/ NapEnds(w) \/ Take(w) \/ Finish(w)
WaiterStep(c) == WaitBlocks(c) \/ WaitReturns(c)

Next == \/ \E w \in Workers : CreateThread(w) \/ WorkerStep(w) \/ SpuriousWork(w)
        \/ \E t \in Tasks : SubmitOk(t) \/ SubmitRejected(t)
        \/ \E c \in Waiters : WaitCall(c) \/ WaiterStep(c) \/ SpuriousIdle(c)
        \/ \E m \in Requests : SetConcurrency(m)
        \/ CreateReturn \/ Destroy \/ Joined

Spec == Init /\ [][Next]_vars

(* Every thread on its way to the lock gets it, every task returns, and    *)
(* the joins return once the threads have exited.  Nothing is assumed of   *)
(* clients: they need not submit, wait, throttle or destroy.               *)
Fairness == /\ \A w \in Workers : WF_vars(WorkerStep(w))
            /\ \A c \in Waiters : WF_vars(WaiterStep(c))
            /\ WF_vars(Joined)

FairSpec == Spec /\ Fairness

-----------------------------------------------------------------------------
TypeOK == /\ pc \in [Workers -> {"unborn", "check", "wait", "nap", "run", "exit"}]
          /\ task \in [Workers -> Tasks \cup {NoTask}]
          /\ queue \in [0 .. Cap - 1 -> Tasks \cup {NoTask}]
          /\ head \in 0 .. Cap - 1 /\ count \in 0 .. Cap
          /\ active \in Nat /\ limit \in Nat /\ nthreads \in Nat
          /\ completed \in Nat /\ rejected \in Nat
          /\ shutdown \in BOOLEAN
          /\ life \in {"creating", "open", "closing", "freed"}
          /\ caller \in [Waiters -> {"out", "check", "wait"}]
          /\ owed \in [Waiters -> SUBSET Tasks]
          /\ status \in [Tasks -> {"fresh", "accepted", "rejected", "done"}]

(* No lost wake-up.  There are at least as many workers that will look at  *)
(* the queue without further prompting as there are tasks that could start *)
(* now: the signal in submit, the broadcasts in set_concurrency and        *)
(* destroy and the loop of worker() never leave runnable work to sleepers. *)
NoLostWakeup == \/ Cardinality(Awake) >= count
                \/ Cardinality(Awake) >= limit - active

(* No caller of nyxj_pool_wait sleeps on an idle pool: the broadcast of    *)
(* the last worker to finish reaches every one of them.                    *)
NoStrandedWaiter == \A c \in Waiters : caller[c] = "wait" => count > 0 \/ active > 0

(* The counters nyxj_pool_stats_get reports agree with what happened.      *)
StatsAgree == /\ active = Cardinality(Running)
              /\ count + active = Cardinality(Accepted)
              /\ completed = Cardinality({t \in Tasks : status[t] = "done"})
              /\ rejected = Cardinality({t \in Tasks : status[t] = "rejected"})

(* Each accepted task is in one place only, in the ring or with a running  *)
(* worker.                                                                 *)
InOnePlace ==
    /\ Accepted = Queued \cup {task[w] : w \in Running}
    /\ \A i, j \in 0 .. count - 1 : queue[Slot(i)] = queue[Slot(j)] => i = j
    /\ \A v, w \in Running : task[v] = task[w] => v = w
    /\ \A w \in Running : task[w] \notin Queued

(* When nyxj_pool_wait returns, all that was accepted before it was called *)
(* has run to its end.                                                     *)
WaitMeansDone == \A c \in Waiters : caller[c] = "out" =>
                     \A t \in owed[c] : status[t] = "done"

(* Nothing accepted is lost, duplicated or forgotten, the counters agree,  *)
(* and whoever waited for the pool finds everything done.                  *)
NothingLost == TypeOK /\ InOnePlace /\ StatsAgree /\ WaitMeansDone

(* A destroyed pool drained first: no worker has left while tasks are in   *)
(* the ring, so nothing accepted is outstanding when the pool is freed,    *)
(* even if a task throttled the pool during the shutdown.                  *)
DrainedBeforeFreed == /\ In("exit") # {} => count = 0
                      /\ life = "freed" => Accepted = {}

(* Throttling: no worker starts a task while the limit is reached, and at  *)
(* most nthreads ever run.                                                 *)
ThrottleRespected == [][active' > active => active' <= limit']_vars

-----------------------------------------------------------------------------
(* Every accepted task runs, however the limit is moved and the pool       *)
(* destroyed.                                                              *)
EveryTaskRuns == \A t \in Tasks : (status[t] = "accepted") ~> (status[t] = "done")

(* nyxj_pool_wait returns (here submissions stop: Tasks is finite), and so *)
(* does nyxj_pool_destroy.                                                 *)
CallsReturn == /\ \A c \in Waiters : (caller[c] # "out") ~> (caller[c] = "out")
               /\ (life = "closing") ~> (life = "freed")

(* The pool implements the queue its users rely on.                        *)
Promise == INSTANCE TaskQueue WITH
    Capacity    <- Cap,
    Parallelism <- Cardinality(Workers),
    pending     <- [i \in 1 .. count |-> queue[Slot(i - 1)]],
    running     <- {task[w] : w \in Running},
    finished    <- {t \in Tasks : status[t] = "done"},
    refused     <- {t \in Tasks : status[t] = "rejected"},
    phase       <- CASE life \in {"creating", "open"} -> "open"
                     [] life = "closing" -> "closing"
                     [] life = "freed" -> IF nthreads = 0 THEN "open" ELSE "gone"

ImplementsTaskQueue == Promise!Spec
=============================================================================
