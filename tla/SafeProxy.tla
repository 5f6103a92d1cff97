------------------------------ MODULE SafeProxy ------------------------------
(* Safe-Gate: src/net/proxy.c puts the gate in front of an upstream        *)
(* service, src/net/client.c asks the upstream. The event loop dispatches  *)
(* the request with the state of the proxy that is in force; a thread of   *)
(* the pool checks the body and runs an event loop of its own, until there *)
(* is an answer, an error or no time left. Several events may come in one  *)
(* poll of that loop, before it looks at the outcome again.                *)
EXTENDS Naturals, FiniteSets

CONSTANTS Requests,
          Policies,     \* the policies the proxy is enabled with, one by one
          Verdict(_, _), \* of a policy on the body of a request: "clean" or why not
          MaxEnables    \* times the proxy is enabled (a bound)

VARIABLES
  proxy,        \* the states made so far: their policies, in order
  pc,           \* "fresh", "queued", "url", "polling", "closing", "replied"
  user,         \* req->user: the state the request was dispatched with
  conn,         \* the connection: "none", "connecting", "open", "failed", "closed"
  recv,         \* what of the response has come: "nothing", "part" or "whole"
  late,         \* the deadline has passed
  done, err,    \* client_state
  body,         \* resp: "none", "part" or "whole"
  response,     \* what the client of the proxy gets
  seen          \* requests the upstream has seen (history)

call == <<conn, recv, late, done, err, body>>
vars == <<proxy, pc, user, call, response, seen>>

Idle(x) == [r \in Requests |-> x]

Init ==
  /\ proxy \in {[i \in {1} |-> p] : p \in Policies}
  /\ pc = Idle("fresh") /\ user = Idle(0) /\ response = Idle("none") /\ seen = {}
  /\ conn = Idle("none") /\ recv = Idle("nothing") /\ late = Idle(FALSE)
  /\ done = Idle(FALSE) /\ err = Idle("ok") /\ body = Idle("none")

Current == Cardinality(DOMAIN proxy)
Set(f, r, x) == f' = [f EXCEPT ![r] = x]
Goto(r, l)   == Set(pc, r, l)

(* nyxj_app_enable_gate_proxy frees the state before it, so a host calls   *)
(* it while no request is in flight.                                       *)
Quiet == \A r \in Requests : pc[r] \notin {"queued", "url"}

Enable(p) ==
  /\ Quiet /\ Current < MaxEnables
  /\ proxy' = [i \in 1 .. Current + 1 |-> IF i > Current THEN p ELSE proxy[i]]
  /\ UNCHANGED <<pc, user, call, response, seen>>

(* The event loop: no route matches, the fallback is ASYNC.                *)
Dispatch(r) ==
  /\ pc[r] = "fresh"
  /\ Set(user, r, Current) /\ Goto(r, "queued")
  /\ UNCHANGED <<proxy, call, response, seen>>

status_for(why) == CASE why = "size_limit" -> "413"
                     [] why \in {"malformed", "empty_or_truncated"} -> "400"
                     [] OTHER -> "422"

Reply(r, answer) == Set(response, r, answer) /\ Goto(r, "replied")

(* nyxj_gate_check of the body, if there is one.                           *)
Check(r) ==
  /\ pc[r] = "queued"
  /\ LET v == Verdict(proxy[user[r]], r)
     IN  IF v = "clean" THEN Goto(r, "url") /\ UNCHANGED response ELSE Reply(r, status_for(v))
  /\ UNCHANGED <<proxy, user, call, seen>>

(* No memory for the URL: the code of an error that was never set decides. *)
NoUrl(r) ==
  /\ pc[r] = "url"
  /\ \E status \in {"502", "504"} : Reply(r, status)
  /\ UNCHANGED <<proxy, user, call, seen>>

-----------------------------------------------------------------------------
(* nyxj_http_request.                                                      *)
Call(r) ==
  /\ pc[r] = "url" /\ Goto(r, "polling")
  /\ \/ Set(conn, r, "connecting") /\ UNCHANGED <<done, err>>
     \/ Set(done, r, TRUE) /\ Set(err, r, "network") /\ UNCHANGED conn
  /\ UNCHANGED <<proxy, user, recv, late, body, response, seen>>

Polls(r) == pc[r] = "polling" /\ conn[r] \in {"connecting", "open"}

(* MG_EV_CONNECT writes the request.                                       *)
Connected(r) ==
  /\ Polls(r) /\ conn[r] = "connecting"
  /\ Set(conn, r, "open") /\ seen' = seen \cup {r}
  /\ UNCHANGED <<proxy, pc, user, recv, late, done, err, body, response>>

(* The upstream answers; part of a response is only buffered.              *)
Arrives(r) ==
  /\ Polls(r) /\ conn[r] = "open" /\ recv[r] = "nothing" /\ ~done[r]
  /\ Set(recv, r, "part")
  /\ UNCHANGED <<proxy, pc, user, conn, late, done, err, body, response, seen>>

(* MG_EV_HTTP_MSG: the copies are made or there is no memory for them.     *)
Message(r, what) ==
  /\ Set(done, r, TRUE)
  /\ \/ Set(body, r, what) /\ UNCHANGED err
     \/ Set(err, r, "memory") /\ UNCHANGED body

Completes(r) ==
  /\ Polls(r) /\ recv[r] = "part"
  /\ Set(recv, r, "whole") /\ Message(r, "whole")
  /\ UNCHANGED <<proxy, pc, user, conn, late, response, seen>>

(* MG_EV_ERROR: no such host, refused, TLS. The connection closes next.    *)
Error(r) ==
  /\ Polls(r)
  /\ Set(conn, r, "failed") /\ Set(done, r, TRUE)
  /\ IF done[r] THEN UNCHANGED err ELSE Set(err, r, "network")
  /\ UNCHANGED <<proxy, pc, user, recv, late, body, response, seen>>

(* The connection ends. Mongoose delivers what is there of a response as a *)
(* message; then MG_EV_CLOSE comes. A mistake: that it does not look       *)
(* whether there was a message.                                            *)
CloseAlways(r) == Set(done, r, TRUE) /\ Set(err, r, "network") /\ UNCHANGED body
OnClose(r) ==
  IF recv[r] = "part" THEN Message(r, "part")
  ELSE /\ Set(done, r, TRUE) /\ UNCHANGED body
       /\ IF done[r] THEN UNCHANGED err ELSE Set(err, r, "network")

Closes(r) ==
  /\ Polls(r) \/ (pc[r] = "polling" /\ conn[r] = "failed")
  /\ Set(conn, r, "closed") /\ OnClose(r)
  /\ UNCHANGED <<proxy, pc, user, recv, late, response, seen>>

Deadline(r) ==
  /\ pc[r] = "polling" /\ ~late[r] /\ Set(late, r, TRUE)
  /\ UNCHANGED <<proxy, pc, user, conn, recv, done, err, body, response, seen>>

(* A mistake: that the loop leaves only with an answer.                    *)
Answered(r) == done[r]
Over(r)     == done[r] \/ late[r]

(* while (!st.done && now < deadline).                                     *)
Leave(r) ==
  /\ pc[r] = "polling" /\ Over(r)
  /\ IF done[r] THEN UNCHANGED err ELSE Set(err, r, "timeout")
  /\ Set(done, r, TRUE) /\ Goto(r, "closing")
  /\ UNCHANGED <<proxy, user, conn, recv, late, body, response, seen>>

(* mg_mgr_free closes the connection, which may deliver a message still.   *)
Outcome(r) == IF err'[r] # "ok" THEN (IF err'[r] = "timeout" THEN "504" ELSE "502") ELSE body'[r]

Return(r) ==
  /\ pc[r] = "closing"
  /\ IF conn[r] \in {"none", "closed"} THEN UNCHANGED <<done, err, body>> ELSE OnClose(r)
  /\ Set(conn, r, "closed") /\ Reply(r, Outcome(r))
  /\ UNCHANGED <<proxy, user, recv, late, seen>>

-----------------------------------------------------------------------------
Work(r) == Check(r) \/ NoUrl(r) \/ Call(r) \/ Leave(r) \/ Return(r)

Next ==
  \/ \E p \in Policies : Enable(p)
  \/ \E r \in Requests :
       \/ Dispatch(r) \/ Work(r) \/ Deadline(r)
       \/ Connected(r) \/ Arrives(r) \/ Completes(r) \/ Error(r) \/ Closes(r)

Spec == Init /\ [][Next]_vars

(* The worker runs and time passes. Nothing is assumed of the upstream.    *)
Fairness == \A r \in Requests : WF_vars(Work(r)) /\ WF_vars(Deadline(r))

FairSpec == Spec /\ Fairness

-----------------------------------------------------------------------------
Refused(r) == Verdict(proxy[user[r]], r) # "clean"

(* What the gate refuses under the policy the request was dispatched with  *)
(* gets 400, 413 or 422 and never reaches the upstream. An answer of the   *)
(* upstream that was there before the loop looked at the clock is given to *)
(* the client, whatever the end of the connection reports afterwards;      *)
(* 504 means that the time was over, and part of an answer is only taken   *)
(* for one when the upstream closed in the middle. (The one exception is   *)
(* the lack of memory.)                                                    *)
GateHolds == \A r \in Requests :
  /\ r \in seen => ~Refused(r)
  /\ pc[r] = "replied" =>
       /\ Refused(r) <=> response[r] \in {"400", "413", "422"}
       /\ response[r] \in {"part", "whole"} => r \in seen /\ response[r] = body[r]
       /\ response[r] = "part" => recv[r] = "part" /\ conn[r] = "closed"
       /\ response[r] = "504" /\ conn[r] # "none" => late[r] /\ body[r] # "whole"
       /\ response[r] = "502" /\ recv[r] = "whole" => err[r] = "memory"

(* A forwarded request ends, whatever the upstream does: the deadline is   *)
(* over the connecting, the sending and the waiting.                       *)
EveryForwardEnds == \A r \in Requests : (pc[r] = "polling") ~> (pc[r] = "replied")
=============================================================================
