----------------------------- MODULE AsyncServer -----------------------------
(***************************************************************************)
(* The HTTP server of src/net/app.c: one event loop thread that accepts    *)
(* connections, parses pipelined requests and answers them, and the worker *)
(* pool that runs the handlers of ASYNC routes.  A worker hands a finished *)
(* job back through the done list; the event loop sends its response to    *)
(* the connection the request came from, if it is still there.             *)
(*                                                                         *)
(* Grain: the pool is the queue of TaskQueue (which WorkerPool is shown to *)
(* implement).  A request is dispatched in one step: the event loop is a   *)
(* single thread and shares with the workers only the pool and the done    *)
(* list, each touched once per dispatch.  Worker steps are split where     *)
(* job_run releases done_lock.  A poll of the event loop is any number of  *)
(* connection events followed by drain_done.                               *)
(*                                                                         *)
(* A definition no action uses (ParsesAhead, AllParsed, BarNothing...) is  *)
(* a plausible mistake in the one that follows it.                         *)
(***************************************************************************)
EXTENDS Integers, Sequences, FiniteSets, Functions

CONSTANTS Conns,       \* connections, in the life of the server
          Requests,    \* requests, each sent once
          Origin,      \* [Requests -> Conns]: the connection that sends it
          Async,       \* those whose route is ASYNC
          CloseAfter,  \* those with "Connection: close"
          Huge,        \* those whose Content-Length exceeds max_body_size
          Beats,       \* heartbeat deliveries, also run by the pool
          Capacity,    \* queue_capacity of the pool
          Parallelism, \* its worker threads
          FlushPolls   \* polls after the pool is idle (5 in nyxj_app_run)

ASSUME ServerAssumption ==
    /\ Origin \in [Requests -> Conns]
    /\ Async \cup CloseAfter \cup Huge \subseteq Requests
    /\ Beats \cap Requests = {}
    /\ Capacity \in Nat \ {0} /\ Parallelism \in Nat \ {0} /\ FlushPolls \in Nat \ {0}

VARIABLES
    pending, running, finished, refused, phase,   \* the pool, see TaskQueue
    state,      \* [Conns -> "none" | "open" | "closing" | "closed"]
    recv,       \* requests received and not parsed, per connection
    isResp,     \* c->is_resp: a response is being produced, do not parse
    draining,   \* c->is_draining: close once everything is written
    barred,     \* c->data[0] = 'X': a 413 was sent
    step,       \* where the worker that runs a job is: "none", "handler", "wake"
    memory,     \* the job object: "none", "live", "freed"
    done,       \* the done list, under done_lock
    batch,      \* the local list drain_done detached
    inflight,   \* gauge nyxj_http_requests_in_flight
    overloads,  \* counter nyxj_http_rejected_total
    loop,       \* where the thread of nyxj_app_run / nyxj_app_destroy is
    stage,      \* "serving", "flushing", "destroying"
    flushes, stop,
    asked, wire \* per connection: requests received, responses sent (history)

pool    == <<pending, running, finished, refused, phase>>
conns   == <<state, recv, isResp, draining, barred>>
jobs    == <<step, memory>>
lists   == <<done, batch>>
gauges  == <<inflight, overloads>>
control == <<loop, stage, flushes, stop>>
history == <<asked, wire>>
vars == <<pool, conns, jobs, lists, gauges, control, history>>

Pool == INSTANCE TaskQueue WITH Tasks <- Requests \cup Beats

Live == {r \in Requests : memory[r] = "live"}
Received == UNION {Range(asked[c]) : c \in Conns}

-----------------------------------------------------------------------------
Init == /\ Pool!Init
        /\ state = [c \in Conns |-> "none"] /\ recv = [c \in Conns |-> <<>>]
        /\ isResp = [c \in Conns |-> FALSE] /\ draining = [c \in Conns |-> FALSE]
        /\ barred = [c \in Conns |-> FALSE]
        /\ step = [r \in Requests |-> "none"] /\ memory = [r \in Requests |-> "none"]
        /\ done = <<>> /\ batch = <<>>
        /\ inflight = 0 /\ overloads = 0
        /\ loop = "top" /\ stage = "serving" /\ flushes = 0 /\ stop = FALSE
        /\ asked = [c \in Conns |-> <<>>] /\ wire = [c \in Conns |-> <<>>]

(* Input of the event loop: new connections, bytes, and peers that leave.  *)
Accept(c) == /\ loop = "io" /\ state[c] = "none"
             /\ state' = [state EXCEPT ![c] = "open"]
             /\ UNCHANGED <<pool, recv, isResp, draining, barred, jobs, lists, gauges, control, history>>

Receive(r) == LET c == Origin[r] IN
              /\ loop = "io" /\ state[c] = "open" /\ r \notin Received
              /\ recv' = [recv EXCEPT ![c] = Append(@, r)]
              /\ asked' = [asked EXCEPT ![c] = Append(@, r)]
              /\ UNCHANGED <<pool, state, isResp, draining, barred, jobs, lists, gauges, control, wire>>

(* A connection closes because the peer left or because it was draining    *)
(* and everything is written; MG_EV_CLOSE then parses what is buffered.    *)
CloseStarts(c) == /\ loop = "io" /\ state[c] = "open"
                  /\ state' = [state EXCEPT ![c] = "closing"]
                  /\ UNCHANGED <<pool, recv, isResp, draining, barred, jobs, lists, gauges, control, history>>

AllParsed(c) == recv[c] = <<>>
Exhausted(c) == isResp[c] \/ recv[c] = <<>>

CloseEnds(c) == /\ loop \in {"io", "free"} /\ state[c] = "closing"
                /\ Exhausted(c)
                /\ state' = [state EXCEPT ![c] = "closed"]
                /\ recv' = [recv EXCEPT ![c] = <<>>]
                /\ UNCHANGED <<pool, isResp, draining, barred, jobs, lists, gauges, control, history>>

-----------------------------------------------------------------------------
(* http_cb of Mongoose reaches the next buffered request of c.             *)
ParsesAhead(c) == /\ loop \in {"io", "free"} /\ state[c] \in {"open", "closing"}
                  /\ recv[c] # <<>>
Parses(c) == /\ loop \in {"io", "free"} /\ state[c] \in {"open", "closing"}
             /\ ~isResp[c] /\ recv[c] # <<>>

(* What is written to a connection being closed is never flushed.          *)
Send(c, r, what) == wire' = IF state[c] = "open"
                            THEN [wire EXCEPT ![c] = Append(@, [req |-> r, status |-> what])]
                            ELSE wire

(* The rest of handle_request once a response exists (respond:): is_resp   *)
(* is back to 0; "Connection: close" ends the parsing of this connection.  *)
Respond(c, r, what) ==
    /\ Send(c, r, what)
    /\ draining' = [draining EXCEPT ![c] = @ \/ r \in CloseAfter]
    /\ recv' = [recv EXCEPT ![c] = IF r \in CloseAfter /\ state[c] = "closing" THEN <<>> ELSE Tail(@)]
    /\ UNCHANGED <<state, isResp, barred>>

(* A route that is not ASYNC, or any route once the pool is gone.          *)
DispatchSync(c) ==
    /\ Parses(c) /\ ~barred[c]
    /\ LET r == Head(recv[c]) IN
       /\ r \notin Huge
       /\ r \notin Async \/ phase = "gone"
       /\ Respond(c, r, "ok")
    /\ UNCHANGED <<pool, jobs, lists, gauges, control, asked>>

(* An ASYNC route: the job is queued, the connection parses no further.    *)
DispatchAsync(c) ==
    /\ Parses(c) /\ ~barred[c]
    /\ LET r == Head(recv[c]) IN
       /\ r \in Async \ Huge /\ Pool!Accept(r)
       /\ memory' = [memory EXCEPT ![r] = "live"]
    /\ recv' = [recv EXCEPT ![c] = Tail(@)]
    /\ isResp' = [isResp EXCEPT ![c] = TRUE]
    /\ inflight' = inflight + 1
    /\ UNCHANGED <<state, draining, barred, step, lists, overloads, control, history>>

(* The queue is full: 503.                                                 *)
DispatchRefused(c) ==
    /\ Parses(c) /\ ~barred[c]
    /\ LET r == Head(recv[c]) IN
       /\ r \in Async \ Huge /\ Pool!Refuse(r)
       /\ Respond(c, r, "overloaded")
    /\ overloads' = overloads + 1
    /\ UNCHANGED <<jobs, lists, inflight, control, asked>>

(* MG_EV_HTTP_HDRS: a Content-Length over the limit gets its 413 at once   *)
(* and the connection drains; what is parsed later is ignored with is_resp *)
(* left at 1.                                                              *)
BarNothing(c) == UNCHANGED barred
Bar(c)        == barred' = [barred EXCEPT ![c] = TRUE]

TooLarge(c) ==
    /\ Parses(c) /\ ~barred[c]
    /\ Head(recv[c]) \in Huge
    /\ Send(c, Head(recv[c]), "too large")
    /\ Bar(c)
    /\ draining' = [draining EXCEPT ![c] = TRUE]
    /\ UNCHANGED <<pool, state, recv, isResp, jobs, lists, gauges, control, asked>>

Ignored(c) ==
    /\ Parses(c) /\ barred[c]
    /\ recv' = [recv EXCEPT ![c] = Tail(@)]
    /\ isResp' = [isResp EXCEPT ![c] = TRUE]
    /\ UNCHANGED <<pool, state, draining, barred, jobs, lists, gauges, control, history>>

(* heartbeat_tick hands the delivery to the pool, or drops it.             *)
Heartbeat(b) == /\ loop = "io"
                /\ Pool!Accept(b) \/ Pool!Refuse(b)
                /\ UNCHANGED <<conns, jobs, lists, gauges, control, history>>

-----------------------------------------------------------------------------
(* The worker threads.                                                     *)
Start == /\ Pool!Start
         /\ step' = [r \in Requests |-> IF r = Head(pending) THEN "handler" ELSE step[r]]
         /\ UNCHANGED <<conns, memory, lists, gauges, control, history>>

(* job_run: the handler has run, the job goes on the done list.            *)
HandBack(r) == /\ step[r] = "handler"
               /\ done' = Append(done, r)
               /\ step' = [step EXCEPT ![r] = "wake"]
               /\ UNCHANGED <<pool, conns, memory, batch, gauges, control, history>>

(* After unlocking done_lock, job_run wakes the event loop with            *)
(* j->conn_id and returns to its pool thread.                              *)
Wake(r) == /\ step[r] = "wake"
           /\ Pool!Finish(r)
           /\ step' = [step EXCEPT ![r] = "none"]
           /\ UNCHANGED <<conns, memory, lists, gauges, control, history>>

BeatDone(b) == /\ Pool!Finish(b)
               /\ UNCHANGED <<conns, jobs, lists, gauges, control, history>>

-----------------------------------------------------------------------------
(* nyxj_app_run: while (!app->stop) nyxj_app_poll(app, 100).               *)
LastFlush     == flushes = FlushPolls

Top == /\ loop = "top"
       /\ loop' = CASE stage = "flushing" /\ LastFlush -> "returned"
                    [] stage = "serving" /\ stop -> "wait"
                    [] OTHER -> "io"
       /\ UNCHANGED <<pool, conns, jobs, lists, gauges, stage, flushes, stop, history>>

(* mg_mgr_poll has visited every connection: each parsed all it could.     *)
PollEnds == /\ loop = "io"
            /\ \A c \in Conns : /\ state[c] # "closing"
                                /\ Parses(c) => draining[c]
            /\ loop' = "drain"
            /\ UNCHANGED <<pool, conns, jobs, lists, gauges, stage, flushes, stop, history>>

(* drain_done: detach the list under the lock, then serve it job by job.   *)
DetachKeeps == /\ loop = "drain"
               /\ batch' = done /\ done' = done
               /\ loop' = "deliver"
               /\ UNCHANGED <<pool, conns, jobs, gauges, stage, flushes, stop, history>>

Detach == /\ loop = "drain"
          /\ batch' = done /\ done' = <<>>
          /\ loop' = "deliver"
          /\ UNCHANGED <<pool, conns, jobs, gauges, stage, flushes, stop, history>>

AnswersOnly(c, r) == /\ draining' = [draining EXCEPT ![c] = @ \/ r \in CloseAfter]
                     /\ UNCHANGED isResp
Answers(c, r) == /\ draining' = [draining EXCEPT ![c] = @ \/ r \in CloseAfter]
                 /\ isResp' = [isResp EXCEPT ![c] = FALSE]

(* finish_request, whether the connection is still there or not.           *)
Settled(c) == inflight - 1

Deliver == /\ loop = "deliver" /\ batch # <<>>
           /\ LET r == Head(batch)
                  c == Origin[r]
              IN /\ memory' = [memory EXCEPT ![r] = "freed"]
                 /\ IF stage # "destroying" /\ state[c] = "open"
                    THEN Send(c, r, "ok") /\ Answers(c, r)
                    ELSE UNCHANGED <<wire, draining, isResp>>
                 /\ inflight' = Settled(c)
           /\ batch' = Tail(batch)
           /\ UNCHANGED <<pool, state, recv, barred, step, done, overloads, control, asked>>

DrainEnds == /\ loop = "deliver" /\ batch = <<>>
             /\ loop' = IF stage = "destroying" THEN "free" ELSE "top"
             /\ flushes' = IF stage = "flushing" THEN flushes + 1 ELSE flushes
             /\ state' = [c \in Conns |-> IF stage = "destroying" /\ state[c] = "open"
                                          THEN "closing" ELSE state[c]]
             /\ UNCHANGED <<pool, recv, isResp, draining, barred, jobs, lists, gauges, stage, stop, history>>

(* nyxj_app_stop, from a signal handler or another thread.                 *)
Stop == /\ ~stop /\ stop' = TRUE
        /\ UNCHANGED <<pool, conns, jobs, lists, gauges, loop, stage, flushes, history>>

(* nyxj_pool_wait returns; the flush polls follow.                         *)
PoolIdle == /\ loop = "wait" /\ pending = <<>> /\ running = {}
            /\ loop' = "top" /\ stage' = "flushing"
            /\ UNCHANGED <<pool, conns, jobs, lists, gauges, flushes, stop, history>>

(* nyxj_app_destroy: nyxj_pool_destroy, drain_done(app, false), and        *)
(* mg_mgr_free, which closes every connection in one last poll.            *)
DestroyPool == /\ loop = "returned" /\ Pool!Close
               /\ loop' = "join" /\ stage' = "destroying"
               /\ UNCHANGED <<conns, jobs, lists, gauges, flushes, stop, history>>

PoolJoined == /\ loop = "join" /\ Pool!Vanish
              /\ loop' = "drain"
              /\ UNCHANGED <<conns, jobs, lists, gauges, stage, flushes, stop, history>>

Freed == /\ loop = "free"
         /\ \A c \in Conns : state[c] \in {"none", "closed"}
         /\ loop' = "freed"
         /\ UNCHANGED <<pool, conns, jobs, lists, gauges, stage, flushes, stop, history>>

-----------------------------------------------------------------------------
Dispatch(c) == DispatchSync(c) \/ DispatchAsync(c) \/ DispatchRefused(c) \/ TooLarge(c) \/ Ignored(c)
LoopStep == \/ \E c \in Conns : Dispatch(c) \/ CloseEnds(c)
            \/ Top \/ PollEnds \/ Detach \/ Deliver \/ DrainEnds
            \/ PoolIdle \/ DestroyPool \/ PoolJoined \/ Freed
WorkerStep == \/ Start
              \/ \E r \in Requests : HandBack(r) \/ Wake(r)
              \/ \E b \in Beats : BeatDone(b)

Next == \/ \E c \in Conns : Accept(c) \/ CloseStarts(c)
        \/ \E r \in Requests : Receive(r)
        \/ \E b \in Beats : Heartbeat(b)
        \/ LoopStep \/ WorkerStep \/ Stop

Spec == Init /\ [][Next]_vars

(* The event loop thread never blocks for good (each poll has a timeout    *)
(* and the pool drains), workers keep running and handlers return, and a   *)
(* draining connection is closed: its peer reads what was written.         *)
(* Nothing is assumed of clients, and nobody need stop the server.         *)
Fairness == /\ WF_vars(LoopStep)
            /\ WF_vars(Start)
            /\ \A r \in Requests : WF_vars(HandBack(r)) /\ WF_vars(Wake(r))
            /\ \A b \in Beats : WF_vars(BeatDone(b))
            /\ \A c \in Conns : SF_vars(draining[c] /\ CloseStarts(c))

FairSpec == Spec /\ Fairness

-----------------------------------------------------------------------------
Statuses == {"ok", "overloaded", "too large"}

TypeOK == /\ pending \in Seq(Requests \cup Beats)
          /\ running \cup finished \cup refused \subseteq Requests \cup Beats
          /\ phase \in {"open", "closing", "gone"}
          /\ state \in [Conns -> {"none", "open", "closing", "closed"}]
          /\ recv \in [Conns -> Seq(Requests)]
          /\ isResp \in [Conns -> BOOLEAN] /\ draining \in [Conns -> BOOLEAN]
          /\ barred \in [Conns -> BOOLEAN]
          /\ step \in [Requests -> {"none", "handler", "wake"}]
          /\ memory \in [Requests -> {"none", "live", "freed"}]
          /\ done \in Seq(Requests) /\ batch \in Seq(Requests)
          /\ inflight \in Nat /\ overloads \in Nat
          /\ loop \in {"top", "io", "drain", "deliver", "wait", "returned", "join", "free", "freed"}
          /\ stage \in {"serving", "flushing", "destroying"}
          /\ flushes \in 0 .. FlushPolls /\ stop \in BOOLEAN
          /\ asked \in [Conns -> Seq(Requests)]
          /\ wire \in [Conns -> Seq([req : Requests, status : Statuses])]

(* Pipelining: the responses on a connection are those of its own requests *)
(* in the order they came, one each, whatever the workers finish first.    *)
AnswersInOrder ==
    \A c \in Conns : [i \in DOMAIN wire[c] |-> wire[c][i].req] = SubSeq(asked[c], 1, Len(wire[c]))

(* The gauge of requests in flight counts the jobs not yet delivered, and  *)
(* the counter of rejections the requests that found the queue full.       *)
GaugesAgree == /\ inflight = Cardinality(Live)
               /\ overloads = Cardinality(refused \ Beats)

(* The order of nyxj_app_destroy: when connections are freed no worker can *)
(* touch the application and every job has been released.                  *)
NothingLeftToFree == loop \in {"free", "freed"} =>
    phase = "gone" /\ Live = {} /\ done = <<>> /\ \A r \in Requests : step[r] = "none"

(* Between its submission and its release a job is in exactly one place:   *)
(* waiting in the pool, in a handler, on the done list, or in the batch    *)
(* the event loop delivers; the gauges count the jobs; and none is left    *)
(* when the application goes.                                              *)
EveryJobInOnePlace ==
    /\ TypeOK /\ GaugesAgree /\ NothingLeftToFree
    /\ \A r \in Requests :
        (IF r \in Range(pending) THEN 1 ELSE 0) + (IF step[r] = "handler" THEN 1 ELSE 0)
          + Cardinality({i \in DOMAIN done : done[i] = r})
          + Cardinality({i \in DOMAIN batch : batch[i] = r})
        = (IF r \in Live THEN 1 ELSE 0)

(* An open connection that is not parsed because a response is due really  *)
(* has a job at work, and only one; otherwise it would hang for ever.      *)
BusyMeansJob ==
    \A c \in Conns : stage # "destroying" /\ state[c] = "open" /\ ~barred[c] =>
        Cardinality({r \in Live : Origin[r] = c}) = IF isResp[c] THEN 1 ELSE 0

(* A connection gets at most one 413 ("Reply only once"), as its last      *)
(* response.                                                               *)
ReplyOnlyOnce == \A c \in Conns : \A i \in DOMAIN wire[c] :
    wire[c][i].status = "too large" => i = Len(wire[c])

(* Every request received is answered, unless its connection goes away.    *)
EveryRequestAnswered ==
    \A r \in Requests : r \in Received ~>
        \/ \E i \in DOMAIN wire[Origin[r]] : wire[Origin[r]][i].req = r
        \/ state[Origin[r]] = "closed"

(* nyxj_app_stop leads to the end of nyxj_app_run and of nyxj_app_destroy. *)
StopEnds == stop ~> loop = "freed"

-----------------------------------------------------------------------------
(* DOCUMENTATION.md: "run then finishes in-flight async jobs and returns". *)
RunFinishesJobs == loop = "returned" => Live = {}

(* CONTRIBUTING.md: "runtime modules protect shared state": the job a      *)
(* worker still reads in job_run has not been freed by the event loop.     *)
NoReadAfterFree == \A r \in Requests : step[r] = "wake" => memory[r] # "freed"
=============================================================================
