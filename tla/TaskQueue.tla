------------------------------ MODULE TaskQueue ------------------------------
(***************************************************************************)
(* What a worker pool promises the code that uses it (nyxj_pool.h): a      *)
(* bounded first-in first-out queue of tasks, started in order, at most    *)
(* Parallelism at a time, each started once; a submission is refused only  *)
(* when the queue is full or the pool is shutting down; whatever was       *)
(* accepted has run before the pool is gone.                               *)
(***************************************************************************)
EXTENDS Naturals, Sequences, FiniteSets

CONSTANTS Tasks,        \* the task objects, each submitted at most once
          Capacity,     \* queue_capacity of nyxj_pool_create
          Parallelism   \* the number of worker threads

VARIABLES pending,      \* accepted and not started, oldest first
          running,      \* started and not finished
          finished,     \* ran to their end
          refused,      \* submissions that returned false
          phase         \* "open", then "closing", then "gone"

queueVars == <<pending, running, finished, refused, phase>>

Known == {pending[i] : i \in DOMAIN pending} \cup running \cup finished \cup refused

Init == /\ pending = <<>>
        /\ running = {} /\ finished = {} /\ refused = {}
        /\ phase = "open"

Accept(t) == /\ phase = "open" /\ t \notin Known /\ Len(pending) < Capacity
             /\ pending' = Append(pending, t)
             /\ UNCHANGED <<running, finished, refused, phase>>

Refuse(t) == /\ t \notin Known
             /\ phase = "closing" \/ (phase = "open" /\ Len(pending) = Capacity)
             /\ refused' = refused \cup {t}
             /\ UNCHANGED <<pending, running, finished, phase>>

Start == /\ pending # <<>> /\ Cardinality(running) < Parallelism
         /\ pending' = Tail(pending)
         /\ running' = running \cup {Head(pending)}
         /\ UNCHANGED <<finished, refused, phase>>

Finish(t) == /\ t \in running
             /\ running' = running \ {t}
             /\ finished' = finished \cup {t}
             /\ UNCHANGED <<pending, refused, phase>>

Close == /\ phase = "open"
         /\ phase' = "closing"
         /\ UNCHANGED <<pending, running, finished, refused>>

Vanish == /\ phase = "closing" /\ pending = <<>> /\ running = {}
          /\ phase' = "gone"
          /\ UNCHANGED <<pending, running, finished, refused>>

Next == \/ \E t \in Tasks : Accept(t) \/ Refuse(t) \/ Finish(t)
        \/ Start \/ Close \/ Vanish

Fairness == /\ WF_queueVars(Start)
            /\ WF_queueVars(Vanish)
            /\ \A t \in Tasks : WF_queueVars(Finish(t))

(* What the queue may do, and that it goes on doing it.                    *)
SafeSpec == Init /\ [][Next]_queueVars

Spec == SafeSpec /\ Fairness
=============================================================================
