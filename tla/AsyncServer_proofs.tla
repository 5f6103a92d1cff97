-------------------------- MODULE AsyncServer_proofs --------------------------
(***************************************************************************)
(* Theorems about AsyncServer, for any connections, requests, routes and   *)
(* workers.  The argument follows one job: from its acceptance to its      *)
(* release it is in one of four places, and the connection it came from    *)
(* waits for it and for no other.  What the connection has been sent, the  *)
(* job it waits for and what it has buffered are, in this order, all it    *)
(* has asked.                                                              *)
(***************************************************************************)
EXTENDS AsyncServer, FiniteSetTheorems, SequenceTheorems, TLAPS

Distinct(s) == \A i, j \in DOMAIN s : s[i] = s[j] => i = j

(* Where the thread of nyxj_app_run and nyxj_app_destroy can be, and what  *)
(* it has left behind by then.                                             *)
LoopAgrees ==
    /\ stage # "destroying" => phase = "open" /\ loop \notin {"join", "free", "freed"}
    /\ stage = "destroying" => \/ loop = "join" /\ phase = "closing"
                               \/ loop \in {"drain", "deliver", "free", "freed"} /\ phase = "gone"
    /\ loop = "wait" => stage = "serving"
    /\ stage = "serving" => flushes = 0
    /\ stage = "flushing" /\ loop \in {"io", "drain", "deliver"} => flushes < FlushPolls
    /\ phase = "gone" => pending = <<>> /\ running = {}
    /\ loop # "deliver" => batch = <<>>
    /\ stage = "destroying" /\ loop \in {"deliver", "free", "freed"} => done = <<>>
    /\ loop \in {"free", "freed"} => \A c \in Conns : state[c] # "open"

(* The pool's four sets do not overlap, and nothing is queued twice.       *)
PoolAgrees ==
    /\ Distinct(pending) /\ Distinct(done) /\ Distinct(batch)
    /\ Range(pending) \cap (running \cup finished \cup refused) = {}
    /\ running \cap (finished \cup refused) = {} /\ finished \cap refused = {}

(* The four places of a job.                                               *)
Placed(r) ==
    /\ step[r] # "none" <=> r \in running
    /\ r \in Live <=> \/ r \in Range(pending) \/ step[r] = "handler"
                      \/ r \in Range(done) \/ r \in Range(batch)
    /\ r \in Range(done) \cup Range(batch) => step[r] = "wake" \/ r \in finished
    /\ ~(r \in Range(done) /\ r \in Range(batch))

Counted == /\ IsFiniteSet(Live) /\ inflight = Cardinality(Live)
           /\ IsFiniteSet(refused) /\ overloads = Cardinality(refused \ Beats)

(* On one connection, a are the requests made, w the responses sent, q the *)
(* requests buffered and b how many are at work: w, the work and q make up *)
(* a; the responses answer the first of them; a 413 is the last of them.   *)
Complete(a, w, b, q) == /\ Len(a) = Len(w) + b + Len(q)
                        /\ \A i \in DOMAIN q : q[i] = a[Len(w) + b + i]
InOrder(a, w)  == Len(w) <= Len(a) /\ \A i \in DOMAIN w : w[i].req = a[i]
From(c, q)     == \A i \in DOMAIN q : Origin[q[i]] = c
NoneBarred(w)  == \A i \in DOMAIN w : w[i].status # "too large"
LastBarred(w)  == \A i \in DOMAIN w : w[i].status = "too large" => i = Len(w)
Idle(c)        == \A r \in Live : Origin[r] # c
Busy(c)        == IF isResp[c] THEN 1 ELSE 0
Serves(c)      == stage # "destroying" /\ state[c] = "open"

Answered(c) ==
    /\ From(c, recv[c]) /\ InOrder(asked[c], wire[c]) /\ LastBarred(wire[c])
    /\ ~barred[c] => NoneBarred(wire[c])
    /\ state[c] = "none" => recv[c] = <<>> /\ asked[c] = <<>> /\ ~isResp[c] /\ ~barred[c] /\ Idle(c)

(* While a connection is open: one job if it is busy and none otherwise,   *)
(* none at all once a 413 was sent.                                        *)
Conversation(c) == Serves(c) =>
    /\ barred[c] => Idle(c)
    /\ ~barred[c] => /\ isResp[c] <=> ~Idle(c)
                     /\ \A r \in Live : Origin[r] = c => r = asked[c][Len(wire[c]) + 1]
                     /\ Complete(asked[c], wire[c], Busy(c), recv[c])

IInv == /\ TypeOK /\ LoopAgrees /\ PoolAgrees /\ Counted
        /\ \A r \in Requests : Placed(r)
        /\ \A c \in Conns : Answered(c) /\ Conversation(c)

-----------------------------------------------------------------------------
(* Queues without duplicates.                                              *)
LEMMA EmptyQueue == Range(<<>>) = {} /\ Distinct(<<>>)
BY DEF Range, Distinct

LEMMA AppendQueue ==
    ASSUME NEW S, NEW s \in Seq(S), NEW e \in S
    PROVE  /\ Range(Append(s, e)) = Range(s) \cup {e}
           /\ Distinct(s) /\ e \notin Range(s) => Distinct(Append(s, e))
<1>1. PICK n \in Nat : n = Len(s) /\ DOMAIN s = 1 .. n
  BY LenProperties
<1> DEFINE a == Append(s, e)
<1>2. /\ DOMAIN a = 1 .. n + 1 /\ a[n + 1] = e
      /\ \A i \in 1 .. n : a[i] = s[i]
  BY <1>1, AppendProperties, LenProperties
<1> HIDE DEF a
<1>3. Range(a) = Range(s) \cup {e}
  <2>1. \A i \in 1 .. n + 1 : i \in 1 .. n \/ i = n + 1
    BY <1>1
  <2>2. n + 1 \in 1 .. n + 1 /\ \A i \in 1 .. n : i \in 1 .. n + 1
    BY <1>1
  <2>3. \A x : x \in Range(a) <=> \E i \in 1 .. n + 1 : x = a[i]
    BY <1>2 DEF Range
  <2>4. \A x : x \in Range(s) <=> \E i \in 1 .. n : x = s[i]
    BY <1>1 DEF Range
  <2> QED
    BY <1>2, <2>1, <2>2, <2>3, <2>4
<1>4. ASSUME Distinct(s), e \notin Range(s) PROVE Distinct(a)
  <2>1. \A i \in 1 .. n + 1 : i \in 1 .. n \/ i = n + 1
    BY <1>1
  <2>2. \A i \in 1 .. n : s[i] # e
    BY <1>1, <1>4 DEF Range
  <2> QED
    BY <1>1, <1>2, <1>4, <2>1, <2>2 DEF Distinct
<1> QED
  BY <1>3, <1>4 DEF a

LEMMA TailQueue ==
    ASSUME NEW S, NEW s \in Seq(S), s # <<>>
    PROVE  /\ Head(s) \in S /\ Head(s) \in Range(s) /\ Tail(s) \in Seq(S)
           /\ Distinct(s) => Range(Tail(s)) = Range(s) \ {Head(s)} /\ Distinct(Tail(s))
<1>1. PICK n \in Nat : n = Len(s) /\ DOMAIN s = 1 .. n /\ n # 0
  BY LenProperties, EmptySeq
<1> DEFINE t == Tail(s)
           h == Head(s)
<1>2. /\ h \in S /\ t \in Seq(S) /\ h = s[1] /\ DOMAIN t = 1 .. n - 1
      /\ \A i \in 1 .. n - 1 : t[i] = s[i + 1]
  BY <1>1, HeadTailProperties, LenProperties
<1>3. h \in Range(s)
  BY <1>1, <1>2 DEF Range
<1> HIDE DEF t, h
<1>4. ASSUME Distinct(s) PROVE Range(t) = Range(s) \ {h} /\ Distinct(t)
  <2>1. \A i \in 1 .. n - 1 : i + 1 \in 1 .. n /\ i + 1 # 1 /\ i \in Int
    BY <1>1
  <2>2. \A i \in 1 .. n : i = 1 \/ (i - 1 \in 1 .. n - 1 /\ (i - 1) + 1 = i)
    BY <1>1
  <2>3. \A x : x \in Range(t) <=> \E i \in 1 .. n - 1 : x = t[i]
    BY <1>2 DEF Range
  <2>4. \A x : x \in Range(s) <=> \E i \in 1 .. n : x = s[i]
    BY <1>1 DEF Range
  <2>5. \A i \in 1 .. n - 1 : t[i] # h
    BY <1>1, <1>2, <1>4, <2>1 DEF Distinct
  <2>6. \A x : x \in Range(t) <=> x \in Range(s) /\ x # h
    <3>1. ASSUME NEW x \in Range(t) PROVE x \in Range(s) /\ x # h
      BY <1>2, <2>1, <2>3, <2>4, <2>5
    <3>2. ASSUME NEW x \in Range(s), x # h PROVE x \in Range(t)
      <4>1. PICK i \in 1 .. n : x = s[i]
        BY <2>4
      <4>2. i # 1
        BY <1>2, <3>2, <4>1
      <4>3. i - 1 \in 1 .. n - 1 /\ t[i - 1] = x
        BY <1>2, <2>2, <4>1, <4>2
      <4> QED
        BY <2>3, <4>3
    <3> QED
      BY <3>1, <3>2
  <2>7. Distinct(t)
    <3> SUFFICES ASSUME NEW i \in 1 .. n - 1, NEW j \in 1 .. n - 1, t[i] = t[j] PROVE i = j
      BY <1>2 DEF Distinct
    <3>1. s[i + 1] = s[j + 1]
      BY <1>2
    <3>2. i + 1 = j + 1
      BY <1>1, <1>4, <2>1, <3>1 DEF Distinct
    <3> QED
      BY <2>1, <3>2
  <2> QED
    BY <2>6, <2>7
<1> QED
  BY <1>2, <1>3, <1>4 DEF t, h

(* What occurs in such a queue occurs once.                                *)
LEMMA Occurrences ==
    ASSUME NEW S, NEW s \in Seq(S), Distinct(s), NEW r
    PROVE  Cardinality({i \in DOMAIN s : s[i] = r}) = IF r \in Range(s) THEN 1 ELSE 0
<1>1. CASE r \in Range(s)
  <2>1. PICK j \in DOMAIN s : s[j] = r
    BY <1>1 DEF Range
  <2>2. {i \in DOMAIN s : s[i] = r} = {j}
    BY <2>1 DEF Distinct
  <2> QED
    BY <1>1, <2>2, FS_Singleton
<1>2. CASE r \notin Range(s)
  <2>1. {i \in DOMAIN s : s[i] = r} = {}
    BY <1>2 DEF Range
  <2> QED
    BY <1>2, <2>1, FS_EmptySet
<1> QED
  BY <1>1, <1>2

-----------------------------------------------------------------------------
LEMMA InitInv == Init => IInv
<1> SUFFICES ASSUME Init PROVE IInv
  OBVIOUS
<1> USE DEF Init, Pool!Init
<1>1. /\ \A S : <<>> \in Seq(S)
      /\ Range(<<>>) = {} /\ Distinct(<<>>) /\ Len(<<>>) = 0 /\ Live = {}
  BY EmptySeq, EmptyQueue DEF Live
<1>2. TypeOK
  <2>1. flushes \in 0 .. FlushPolls
    BY ServerAssumption
  <2> QED
    BY <1>1, <2>1 DEF TypeOK
<1>3. LoopAgrees /\ PoolAgrees
  BY <1>1 DEF LoopAgrees, PoolAgrees
<1>4. Counted
  <2>1. refused \ Beats = {}
    OBVIOUS
  <2> QED
    BY <1>1, <2>1, FS_EmptySet DEF Counted
<1>5. ASSUME NEW r \in Requests PROVE Placed(r)
  BY <1>1 DEF Placed
<1>6. ASSUME NEW c \in Conns PROVE Answered(c) /\ Conversation(c)
  <2>1. Complete(<<>>, <<>>, 0, <<>>) /\ Idle(c)
    BY <1>1 DEF Complete, Idle
  <2> QED
    BY <1>1, <2>1 DEF Answered, Conversation, Serves, Busy, From, InOrder, NoneBarred, LastBarred
<1> QED
  BY <1>2, <1>3, <1>4, <1>5, <1>6 DEF IInv

-----------------------------------------------------------------------------
LEMMA TypeStep == IInv /\ [Next]_vars => TypeOK'
<1> SUFFICES ASSUME IInv, [Next]_vars PROVE TypeOK'
  OBVIOUS
<1> USE ServerAssumption DEF IInv, TypeOK, pool, conns, jobs, lists, gauges, control, history
<1>1. ASSUME NEW c \in Conns, Accept(c) \/ CloseStarts(c) \/ CloseEnds(c) PROVE TypeOK'
  <2>e. <<>> \in Seq(Requests)
    BY EmptySeq
  <2>0. recv' \in {recv, [recv EXCEPT ![c] = <<>>]}
    BY <1>1 DEF Accept, CloseStarts, CloseEnds
  <2>1. recv' \in [Conns -> Seq(Requests)]
    BY <2>e, <2>0, ZenonT(60)
  <2>2. state' \in [Conns -> {"none", "open", "closing", "closed"}]
    BY <1>1 DEF Accept, CloseStarts, CloseEnds
  <2>3. UNCHANGED <<pool, isResp, draining, barred, jobs, lists, gauges, control, history>>
    BY <1>1 DEF Accept, CloseStarts, CloseEnds
  <2> QED
    BY <2>1, <2>2, <2>3
<1>2. ASSUME NEW r \in Requests, Receive(r) PROVE TypeOK'
  <2> DEFINE c == Origin[r]
  <2>1. c \in Conns /\ Append(recv[c], r) \in Seq(Requests) /\ Append(asked[c], r) \in Seq(Requests)
    BY AppendProperties
  <2> QED
    BY <1>2, <2>1 DEF Receive
<1>3. ASSUME NEW c \in Conns, DispatchSync(c) \/ DispatchRefused(c) PROVE TypeOK'
  <2>1. PICK r \in Requests, what \in Statuses :
            /\ r = Head(recv[c]) /\ recv[c] # <<>> /\ Respond(c, r, what)
    BY <1>3, TailQueue DEF DispatchSync, DispatchRefused, Parses, Statuses
  <2>2. Tail(recv[c]) \in Seq(Requests) /\ <<>> \in Seq(Requests)
    BY <2>1, TailQueue, EmptySeq
  <2>3. recv' \in [Conns -> Seq(Requests)] /\ draining' \in [Conns -> BOOLEAN]
    BY <2>1, <2>2 DEF Respond
  <2>4. wire' \in [Conns -> Seq([req : Requests, status : Statuses])]
    BY <2>1, AppendProperties DEF Respond, Send
  <2>5. UNCHANGED <<state, isResp, barred, pending, running, finished, phase, jobs, lists, inflight, control, asked>>
    BY <1>3, <2>1 DEF DispatchSync, DispatchRefused, Respond, Pool!Refuse
  <2>6. refused' \subseteq Requests \cup Beats /\ overloads' \in Nat
    <3>1. CASE DispatchSync(c)
      BY <3>1 DEF DispatchSync
    <3>2. CASE DispatchRefused(c)
      BY <2>1, <3>2 DEF DispatchRefused, Pool!Refuse
    <3> QED
      BY <1>3, <3>1, <3>2
  <2> QED
    BY <2>3, <2>4, <2>5, <2>6
<1>4. ASSUME NEW c \in Conns, DispatchAsync(c) PROVE TypeOK'
  <2>1. PICK r \in Requests : r = Head(recv[c]) /\ recv[c] # <<>> /\ Tail(recv[c]) \in Seq(Requests)
    BY <1>4, TailQueue DEF DispatchAsync, Parses
  <2>2. /\ pending' = Append(pending, r) /\ memory' = [memory EXCEPT ![r] = "live"]
        /\ UNCHANGED <<running, finished, refused, phase>>
    BY <1>4, <2>1 DEF DispatchAsync, Pool!Accept
  <2>3. pending' \in Seq(Requests \cup Beats)
    BY <2>2, AppendProperties
  <2>4. /\ recv' = [recv EXCEPT ![c] = Tail(@)] /\ isResp' = [isResp EXCEPT ![c] = TRUE]
        /\ inflight' = inflight + 1
        /\ UNCHANGED <<state, draining, barred, step, done, batch, overloads, loop, stage, flushes, stop, asked, wire>>
    BY <1>4 DEF DispatchAsync
  <2>5. /\ recv' \in [Conns -> Seq(Requests)] /\ isResp' \in [Conns -> BOOLEAN]
        /\ memory' \in [Requests -> {"none", "live", "freed"}] /\ inflight' \in Nat
    BY <2>1, <2>2, <2>4
  <2> QED
    BY <2>2, <2>3, <2>4, <2>5
<1>5. ASSUME NEW c \in Conns, TooLarge(c) \/ Ignored(c) PROVE TypeOK'
  <2>1. PICK r \in Requests : r = Head(recv[c]) /\ recv[c] # <<>> /\ Tail(recv[c]) \in Seq(Requests)
    BY <1>5, TailQueue DEF TooLarge, Ignored, Parses
  <2>2. CASE TooLarge(c)
    <3>1. wire' \in [Conns -> Seq([req : Requests, status : Statuses])]
      BY <2>1, <2>2, AppendProperties DEF TooLarge, Send, Statuses
    <3> QED
      BY <2>2, <3>1 DEF TooLarge, Bar
  <2>3. CASE Ignored(c)
    BY <2>1, <2>3 DEF Ignored
  <2> QED
    BY <1>5, <2>2, <2>3
<1>6. ASSUME NEW b \in Beats, Heartbeat(b) \/ BeatDone(b) PROVE TypeOK'
  <2>1. CASE Heartbeat(b)
    <3>1. Append(pending, b) \in Seq(Requests \cup Beats)
      BY AppendProperties
    <3>2. /\ pending' \in {pending, Append(pending, b)} /\ refused' \in {refused, refused \cup {b}}
          /\ UNCHANGED <<running, finished, phase>>
      BY <2>1 DEF Heartbeat, Pool!Accept, Pool!Refuse
    <3>3. UNCHANGED <<conns, jobs, lists, gauges, control, history>>
      BY <2>1 DEF Heartbeat
    <3> QED
      BY <3>1, <3>2, <3>3
  <2>2. CASE BeatDone(b)
    BY <2>2 DEF BeatDone, Pool!Finish
  <2> QED
    BY <1>6, <2>1, <2>2
<1>7. CASE Start
  <2>1. /\ pending # <<>> /\ pending' = Tail(pending) /\ running' = running \cup {Head(pending)}
        /\ UNCHANGED <<finished, refused, phase>>
    BY <1>7 DEF Start, Pool!Start
  <2>2. Head(pending) \in Requests \cup Beats /\ Tail(pending) \in Seq(Requests \cup Beats)
    BY <2>1, TailQueue
  <2>3. step' \in [Requests -> {"none", "handler", "wake"}]
    BY <1>7 DEF Start
  <2> QED
    BY <1>7, <2>1, <2>2, <2>3 DEF Start
<1>8. ASSUME NEW r \in Requests, HandBack(r) \/ Wake(r) PROVE TypeOK'
  <2>1. Append(done, r) \in Seq(Requests)
    BY AppendProperties
  <2> QED
    BY <1>8, <2>1, ZenonT(60) DEF HandBack, Wake, Pool!Finish
<1>9. CASE Top \/ PollEnds \/ Stop \/ PoolIdle \/ PoolJoined \/ Freed \/ DestroyPool
  BY <1>9, ZenonT(60) DEF Top, PollEnds, Stop, PoolIdle, PoolJoined, Freed, DestroyPool, Pool!Close, Pool!Vanish
<1>10. CASE Detach \/ DrainEnds
  <2>1. flushes' \in 0 .. FlushPolls
    <3>1. CASE Detach
      BY <3>1 DEF Detach
    <3>2. CASE DrainEnds
      <4>1. loop = "deliver" /\ flushes' = IF stage = "flushing" THEN flushes + 1 ELSE flushes
        BY <3>2 DEF DrainEnds
      <4>2. stage = "flushing" => flushes < FlushPolls
        BY <4>1 DEF LoopAgrees
      <4> QED
        BY <4>1, <4>2
    <3> QED
      BY <1>10, <3>1, <3>2
  <2>2. /\ state' \in [Conns -> {"none", "open", "closing", "closed"}]
        /\ UNCHANGED <<pool, recv, isResp, draining, barred, jobs, gauges, stage, stop, history>>
        /\ loop' \in {"deliver", "free", "top"}
        /\ batch' \in {batch, done} /\ done' \in {done, <<>>}
    BY <1>10 DEF Detach, DrainEnds
  <2>3. done' \in Seq(Requests) /\ batch' \in Seq(Requests)
    <3>1. <<>> \in Seq(Requests)
      BY EmptySeq
    <3> QED
      BY <2>2, <3>1
  <2> QED
    BY <2>1, <2>2, <2>3
<1>11. CASE Deliver
  <2>1. PICK r \in Requests : r = Head(batch) /\ batch # <<>> /\ Tail(batch) \in Seq(Requests)
                              /\ r \in Range(batch)
    BY <1>11, TailQueue DEF Deliver
  <2> DEFINE c == Origin[r]
  <2>2. inflight' \in Nat
    <3>1. r \in Live /\ Cardinality(Live) # 0
      BY <2>1, FS_EmptySet DEF Placed, Counted
    <3> QED
      BY <1>11, <2>1, <3>1, SMTT(30) DEF Deliver, Settled, Counted
  <2>3. wire' \in [Conns -> Seq([req : Requests, status : Statuses])]
    <3>1. PICK e \in [req : Requests, status : Statuses] : e = [req |-> r, status |-> "ok"]
      BY DEF Statuses
    <3>2. c \in Conns /\ Append(wire[c], e) \in Seq([req : Requests, status : Statuses])
      BY AppendProperties
    <3>3. wire' \in {wire, [wire EXCEPT ![c] = Append(@, e)]}
      BY <1>11, <2>1, <3>1 DEF Deliver, Send
    <3> QED
      BY <3>2, <3>3
  <2> QED
    BY <1>11, <2>1, <2>2, <2>3 DEF Deliver, Answers
<1>12. CASE UNCHANGED vars
  BY <1>12 DEF vars
<1> QED
  BY <1>1, <1>2, <1>3, <1>4, <1>5, <1>6, <1>7, <1>8, <1>9, <1>10, <1>11, <1>12
     DEF Next, Dispatch, LoopStep, WorkerStep

-----------------------------------------------------------------------------
LEMMA LoopAgreesStep == IInv /\ [Next]_vars => LoopAgrees'
<1> SUFFICES ASSUME IInv, [Next]_vars PROVE LoopAgrees'
  OBVIOUS
<1> USE DEF pool, conns, jobs, lists, gauges, control, history
<1>i. /\ LoopAgrees /\ flushes \in 0 .. FlushPolls /\ FlushPolls \in Nat \ {0}
      /\ loop \in {"top", "io", "drain", "deliver", "wait", "returned", "join", "free", "freed"}
      /\ stage \in {"serving", "flushing", "destroying"}
      /\ state \in [Conns -> {"none", "open", "closing", "closed"}]
  BY ServerAssumption DEF IInv, TypeOK
<1>1. ASSUME UNCHANGED <<phase, batch, control>>,
             \/ UNCHANGED <<pending, running>>
             \/ phase # "gone"
             \/ pending' = pending /\ running' \subseteq running,
             done' = done \/ phase # "gone",
             \A c \in Conns : state'[c] = "open" => state[c] = "open" \/ loop = "io"
      PROVE  LoopAgrees'
  BY <1>i, <1>1 DEF LoopAgrees
<1>2. ASSUME NEW c \in Conns, Accept(c) \/ CloseStarts(c) \/ CloseEnds(c) PROVE LoopAgrees'
  <2>1. /\ UNCHANGED <<phase, batch, control, pending, running, done>>
        /\ loop = "io" \/ \A d \in Conns : state'[d] = "open" => state[d] = "open"
    BY <1>2, <1>i DEF Accept, CloseStarts, CloseEnds
  <2> QED
    BY <1>1, <2>1
<1>3. ASSUME NEW r \in Requests, Receive(r) PROVE LoopAgrees'
  BY <1>1, <1>3 DEF Receive
<1>4. ASSUME NEW c \in Conns, Dispatch(c) PROVE LoopAgrees'
  <2>1. CASE DispatchSync(c)
    BY <1>1, <2>1 DEF DispatchSync, Respond
  <2>2. CASE DispatchAsync(c)
    BY <1>1, <2>2 DEF DispatchAsync, Pool!Accept
  <2>3. CASE DispatchRefused(c)
    BY <1>1, <2>3 DEF DispatchRefused, Respond, Pool!Refuse
  <2>4. CASE TooLarge(c) \/ Ignored(c)
    BY <1>1, <2>4 DEF TooLarge, Ignored
  <2> QED
    BY <1>4, <2>1, <2>2, <2>3, <2>4 DEF Dispatch
<1>5. ASSUME NEW b \in Beats, Heartbeat(b) PROVE LoopAgrees'
  BY <1>1, <1>5 DEF Heartbeat, Pool!Accept, Pool!Refuse
<1>6. CASE Start
  <2>1. phase # "gone"
    BY <1>6, <1>i DEF Start, Pool!Start, LoopAgrees
  <2> QED
    BY <1>1, <1>6, <2>1 DEF Start, Pool!Start
<1>7. ASSUME NEW r \in Requests, HandBack(r) PROVE LoopAgrees'
  <2>1. phase # "gone"
    BY <1>7, <1>i DEF HandBack, IInv, Placed, LoopAgrees
  <2> QED
    BY <1>1, <1>7, <2>1 DEF HandBack
<1>8. ASSUME NEW t \in Requests \cup Beats, Wake(t) \/ BeatDone(t) PROVE LoopAgrees'
  BY <1>1, <1>8 DEF Wake, BeatDone, Pool!Finish
<1>9. CASE Top \/ PollEnds \/ Stop \/ PoolIdle \/ Freed
  <2>1. UNCHANGED <<pending, running, phase, state, batch, done, flushes>>
    BY <1>9 DEF Top, PollEnds, Stop, PoolIdle, Freed
  <2>2. CASE Top
    <3>1. loop = "top" /\ stage' = stage
      BY <2>2 DEF Top
    <3>2. loop' \in {"returned", "wait", "io"} /\ (loop' = "wait" => stage = "serving")
          /\ (loop' = "io" /\ stage = "flushing" => flushes # FlushPolls)
      BY <1>i, <2>2 DEF Top, LastFlush
    <3> QED
      BY <1>i, <2>1, <3>1, <3>2 DEF LoopAgrees
  <2>3. CASE PollEnds
    BY <1>i, <2>1, <2>3 DEF PollEnds, LoopAgrees
  <2>4. CASE Stop
    BY <1>i, <2>1, <2>4 DEF Stop, LoopAgrees
  <2>5. CASE PoolIdle
    BY <1>i, <2>1, <2>5 DEF PoolIdle, LoopAgrees
  <2>6. CASE Freed
    BY <1>i, <2>1, <2>6 DEF Freed, LoopAgrees
  <2> QED
    BY <1>9, <2>2, <2>3, <2>4, <2>5, <2>6
<1>10. CASE DestroyPool
  <2>1. /\ loop = "returned" /\ phase = "open" /\ phase' = "closing" /\ loop' = "join" /\ stage' = "destroying"
        /\ UNCHANGED <<pending, running, state, batch, done, flushes>>
    BY <1>10 DEF DestroyPool, Pool!Close
  <2> QED
    BY <1>i, <2>1 DEF LoopAgrees
<1>11. CASE PoolJoined
  <2>1. /\ loop = "join" /\ phase' = "gone" /\ loop' = "drain" /\ stage' = stage
        /\ pending = <<>> /\ running = {}
        /\ UNCHANGED <<pending, running, state, batch, done, flushes>>
    BY <1>11 DEF PoolJoined, Pool!Vanish
  <2> QED
    BY <1>i, <2>1 DEF LoopAgrees
<1>12. CASE Detach
  <2>1. /\ loop = "drain" /\ loop' = "deliver" /\ done' = <<>>
        /\ UNCHANGED <<pending, running, phase, state, stage, flushes>>
    BY <1>12 DEF Detach
  <2> QED
    BY <1>i, <2>1 DEF LoopAgrees
<1>13. CASE Deliver
  <2>1. /\ loop = "deliver"
        /\ UNCHANGED <<pending, running, phase, state, done, loop, stage, flushes>>
    BY <1>13 DEF Deliver
  <2> QED
    BY <1>i, <2>1 DEF LoopAgrees
<1>14. CASE DrainEnds
  <2>1. /\ loop = "deliver" /\ batch = <<>> /\ loop' = IF stage = "destroying" THEN "free" ELSE "top"
        /\ flushes' = IF stage = "flushing" THEN flushes + 1 ELSE flushes
        /\ stage = "destroying" => \A c \in Conns : state'[c] # "open"
        /\ UNCHANGED <<pending, running, phase, batch, done, stage>>
    BY <1>14, <1>i DEF DrainEnds
  <2> QED
    BY <1>i, <2>1 DEF LoopAgrees
<1>15. CASE UNCHANGED vars
  BY <1>1, <1>15 DEF vars
<1> QED
  BY <1>2, <1>3, <1>4, <1>5, <1>6, <1>7, <1>8, <1>9, <1>10, <1>11, <1>12, <1>13, <1>14, <1>15
     DEF Next, LoopStep, WorkerStep

-----------------------------------------------------------------------------
Jobs == PoolAgrees /\ Counted /\ \A r \in Requests : Placed(r)

(* A task the pool knows is in one of its four sets.                       *)
LEMMA KnownTasks == Pool!Known = Range(pending) \cup running \cup finished \cup refused
BY DEF Pool!Known, Range

LEMMA SubmitStep ==
    ASSUME IInv, \/ \E c \in Conns : DispatchAsync(c) \/ DispatchRefused(c)
                 \/ \E b \in Beats : Heartbeat(b)
    PROVE  Jobs'
<1> USE DEF pool, conns, jobs, lists, gauges, control, history
<1>i. /\ Jobs /\ pending \in Seq(Requests \cup Beats) /\ memory \in [Requests -> {"none", "live", "freed"}]
      /\ recv \in [Conns -> Seq(Requests)] /\ Beats \cap Requests = {}
      /\ inflight \in Nat /\ overloads \in Nat
  BY ServerAssumption DEF IInv, Jobs, TypeOK
<1>1. ASSUME NEW c \in Conns, DispatchAsync(c) PROVE Jobs'
  <2>1. PICK r \in Requests : r = Head(recv[c])
    BY <1>1, <1>i, TailQueue DEF DispatchAsync, Parses
  <2>2. /\ pending' = Append(pending, r) /\ memory' = [memory EXCEPT ![r] = "live"]
        /\ r \notin Range(pending) \cup running \cup finished \cup refused
        /\ inflight' = inflight + 1
        /\ UNCHANGED <<running, finished, refused, step, done, batch, overloads>>
    BY <1>1, <2>1, KnownTasks DEF DispatchAsync, Pool!Accept
  <2>3. Range(pending') = Range(pending) \cup {r} /\ Distinct(pending')
    BY <1>i, <2>2, AppendQueue DEF Jobs, PoolAgrees
  <2>4. Live' = Live \cup {r} /\ r \notin Live
    BY <1>i, <2>2 DEF Live, Jobs, Placed
  <2>5. PoolAgrees'
    BY <1>i, <2>2, <2>3 DEF Jobs, PoolAgrees
  <2>6. Counted'
    BY <1>i, <2>2, <2>4, FS_AddElement DEF Jobs, Counted
  <2>7. ASSUME NEW q \in Requests PROVE Placed(q)'
    BY <1>i, <2>2, <2>3, <2>4 DEF Jobs, Placed
  <2> QED
    BY <2>5, <2>6, <2>7 DEF Jobs
<1>2. ASSUME NEW c \in Conns, DispatchRefused(c) PROVE Jobs'
  <2>1. PICK r \in Requests : r = Head(recv[c])
    BY <1>2, <1>i, TailQueue DEF DispatchRefused, Parses
  <2>2. /\ refused' = refused \cup {r} /\ overloads' = overloads + 1
        /\ r \notin Range(pending) \cup running \cup finished \cup refused
        /\ UNCHANGED <<pending, running, finished, step, memory, done, batch, inflight>>
    BY <1>2, <2>1, KnownTasks DEF DispatchRefused, Pool!Refuse
  <2>3. Live' = Live
    BY <2>2 DEF Live
  <2>4. refused' \ Beats = (refused \ Beats) \cup {r} /\ r \notin refused \ Beats
    BY <1>i, <2>2
  <2>5. Counted'
    <3>1. IsFiniteSet(refused) /\ IsFiniteSet(refused') /\ IsFiniteSet(refused \ Beats)
      BY <1>i, <2>2, FS_AddElement, FS_Difference DEF Jobs, Counted
    <3>2. Cardinality(refused' \ Beats) = overloads + 1
      BY <1>i, <2>4, <3>1, FS_AddElement DEF Jobs, Counted
    <3> QED
      BY <1>i, <2>2, <2>3, <3>1, <3>2 DEF Jobs, Counted
  <2>6. PoolAgrees'
    BY <1>i, <2>2 DEF Jobs, PoolAgrees
  <2>7. ASSUME NEW q \in Requests PROVE Placed(q)'
    BY <1>i, <2>2, <2>3 DEF Jobs, Placed
  <2> QED
    BY <2>5, <2>6, <2>7 DEF Jobs
<1>3. ASSUME NEW b \in Beats, Heartbeat(b) PROVE Jobs'
  <2>1. /\ b \notin Range(pending) \cup running \cup finished \cup refused
        /\ \/ pending' = Append(pending, b) /\ refused' = refused
           \/ pending' = pending /\ refused' = refused \cup {b}
        /\ UNCHANGED <<running, finished, step, memory, done, batch, inflight, overloads>>
    BY <1>3, KnownTasks DEF Heartbeat, Pool!Accept, Pool!Refuse
  <2>2. \/ /\ Range(pending') = Range(pending) \cup {b} /\ Distinct(pending')
           /\ refused' = refused
        \/ pending' = pending /\ refused' = refused \cup {b}
    <3>1. b \in Requests \cup Beats /\ Distinct(pending) /\ b \notin Range(pending)
      BY <1>i, <2>1 DEF Jobs, PoolAgrees
    <3>2. /\ Range(Append(pending, b)) = Range(pending) \cup {b}
          /\ Distinct(Append(pending, b))
      BY <1>i, <3>1, AppendQueue
    <3> QED
      BY <2>1, <3>2
  <2>3. Live' = Live /\ refused' \ Beats = refused \ Beats
    BY <2>1 DEF Live
  <2>4. Counted'
    <3>1. IsFiniteSet(refused) /\ IsFiniteSet(refused')
      <4>1. IsFiniteSet(refused) /\ IsFiniteSet(refused \cup {b})
        BY <1>i, FS_AddElement DEF Jobs, Counted
      <4>2. refused' = refused \/ refused' = refused \cup {b}
        BY <2>2
      <4> QED
        BY <4>1, <4>2
    <3> QED
      BY <1>i, <2>1, <2>3, <3>1 DEF Jobs, Counted
  <2>5. PoolAgrees'
    <3>1. CASE pending' = pending
      BY <1>i, <2>1, <2>2, <3>1 DEF Jobs, PoolAgrees
    <3>2. CASE pending' # pending
      <4>1. Range(pending') = Range(pending) \cup {b} /\ Distinct(pending') /\ refused' = refused
        BY <2>2, <3>2
      <4> QED
        BY <1>i, <2>1, <4>1 DEF Jobs, PoolAgrees
    <3> QED
      BY <3>1, <3>2
  <2>6. ASSUME NEW q \in Requests PROVE Placed(q)'
    <3>1. q # b /\ (q \in Range(pending') <=> q \in Range(pending))
      BY <1>i, <2>2
    <3> QED
      BY <1>i, <2>1, <2>3, <3>1 DEF Jobs, Placed
  <2> QED
    BY <2>4, <2>5, <2>6 DEF Jobs
<1> QED
  BY <1>1, <1>2, <1>3

LEMMA WorkStep ==
    ASSUME IInv, \/ Start
                 \/ \E r \in Requests : HandBack(r) \/ Wake(r)
                 \/ \E b \in Beats : BeatDone(b)
    PROVE  Jobs'
<1> USE DEF pool, conns, jobs, lists, gauges, control, history
<1>i. /\ Jobs /\ pending \in Seq(Requests \cup Beats) /\ memory \in [Requests -> {"none", "live", "freed"}]
      /\ step \in [Requests -> {"none", "handler", "wake"}] /\ Beats \cap Requests = {}
      /\ done \in Seq(Requests)
  BY ServerAssumption DEF IInv, Jobs, TypeOK
<1>1. CASE Start
  <2>1. PICK t \in Requests \cup Beats : t = Head(pending) /\ t \in Range(pending) /\ pending # <<>>
    BY <1>1, <1>i, TailQueue DEF Start, Pool!Start
  <2>2. /\ pending' = Tail(pending) /\ running' = running \cup {t}
        /\ step' = [r \in Requests |-> IF r = t THEN "handler" ELSE step[r]]
        /\ UNCHANGED <<finished, refused, memory, done, batch, inflight, overloads>>
    BY <1>1, <2>1 DEF Start, Pool!Start
  <2>3. Range(pending') = Range(pending) \ {t} /\ Distinct(pending')
    BY <1>i, <2>1, <2>2, TailQueue DEF Jobs, PoolAgrees
  <2>4. PoolAgrees'
    BY <1>i, <2>1, <2>2, <2>3 DEF Jobs, PoolAgrees
  <2>5. Live' = Live /\ Counted'
    BY <1>i, <2>2 DEF Live, Jobs, Counted
  <2>6. ASSUME NEW q \in Requests PROVE Placed(q)'
    <3>1. CASE q = t
      <4>1. step'[q] = "handler" /\ q \in running' /\ q \in Live /\ q \notin finished
        BY <1>i, <2>1, <2>2, <3>1 DEF Jobs, Placed, PoolAgrees
      <4>2. step[q] = "none"
        BY <1>i, <2>1, <3>1 DEF Jobs, Placed, PoolAgrees
      <4>3. q \notin Range(done) \cup Range(batch)
        BY <1>i, <4>1, <4>2 DEF Jobs, Placed
      <4> QED
        BY <2>2, <2>5, <4>1, <4>3 DEF Placed
    <3>2. CASE q # t
      BY <1>i, <2>2, <2>3, <2>5, <3>2 DEF Jobs, Placed
    <3> QED
      BY <3>1, <3>2
  <2> QED
    BY <2>4, <2>5, <2>6 DEF Jobs
<1>2. ASSUME NEW r \in Requests, HandBack(r) PROVE Jobs'
  <2>1. /\ step[r] = "handler" /\ done' = Append(done, r) /\ step' = [step EXCEPT ![r] = "wake"]
        /\ UNCHANGED <<pending, running, finished, refused, memory, batch, inflight, overloads>>
    BY <1>2 DEF HandBack
  <2>2. r \in running /\ r \notin Range(done) \cup Range(batch) /\ r \notin Range(pending) /\ r \in Live
    BY <1>i, <2>1 DEF Jobs, Placed, PoolAgrees
  <2>3. Range(done') = Range(done) \cup {r} /\ Distinct(done')
    BY <1>i, <2>1, <2>2, AppendQueue DEF Jobs, PoolAgrees
  <2>4. PoolAgrees'
    BY <1>i, <2>1, <2>3 DEF Jobs, PoolAgrees
  <2>5. Live' = Live /\ Counted'
    BY <1>i, <2>1 DEF Live, Jobs, Counted
  <2>6. ASSUME NEW q \in Requests PROVE Placed(q)'
    <3>1. CASE q = r
      BY <1>i, <2>1, <2>2, <2>3, <2>5, <3>1 DEF Jobs, Placed
    <3>2. CASE q # r
      BY <1>i, <2>1, <2>3, <2>5, <3>2 DEF Jobs, Placed
    <3> QED
      BY <3>1, <3>2
  <2> QED
    BY <2>4, <2>5, <2>6 DEF Jobs
<1>3. ASSUME NEW r \in Requests, Wake(r) PROVE Jobs'
  <2>1. /\ step[r] = "wake" /\ step' = [step EXCEPT ![r] = "none"]
        /\ r \in running /\ running' = running \ {r} /\ finished' = finished \cup {r}
        /\ UNCHANGED <<pending, refused, memory, done, batch, inflight, overloads>>
    BY <1>3 DEF Wake, Pool!Finish
  <2>2. PoolAgrees'
    BY <1>i, <2>1 DEF Jobs, PoolAgrees
  <2>3. Live' = Live /\ Counted'
    BY <1>i, <2>1 DEF Live, Jobs, Counted
  <2>4. ASSUME NEW q \in Requests PROVE Placed(q)'
    <3>1. CASE q = r
      BY <1>i, <2>1, <2>3, <3>1 DEF Jobs, Placed
    <3>2. CASE q # r
      BY <1>i, <2>1, <2>3, <3>2 DEF Jobs, Placed
    <3> QED
      BY <3>1, <3>2
  <2> QED
    BY <2>2, <2>3, <2>4 DEF Jobs
<1>4. ASSUME NEW b \in Beats, BeatDone(b) PROVE Jobs'
  <2>1. /\ b \in running /\ running' = running \ {b} /\ finished' = finished \cup {b}
        /\ UNCHANGED <<pending, refused, step, memory, done, batch, inflight, overloads>>
    BY <1>4 DEF BeatDone, Pool!Finish
  <2>2. PoolAgrees'
    BY <1>i, <2>1 DEF Jobs, PoolAgrees
  <2>3. Live' = Live /\ Counted'
    BY <1>i, <2>1 DEF Live, Jobs, Counted
  <2>4. ASSUME NEW q \in Requests PROVE Placed(q)'
    <3>1. q # b
      BY <1>i
    <3> QED
      BY <1>i, <2>1, <2>3, <3>1 DEF Jobs, Placed
  <2> QED
    BY <2>2, <2>3, <2>4 DEF Jobs
<1> QED
  BY <1>1, <1>2, <1>3, <1>4

(* drain_done: the list changes hands, then its jobs are released.         *)
LEMMA ReleaseStep == IInv /\ (Detach \/ Deliver) => Jobs'
<1> SUFFICES ASSUME IInv, Detach \/ Deliver PROVE Jobs'
  OBVIOUS
<1> USE DEF pool, conns, jobs, lists, gauges, control, history
<1>i. /\ Jobs /\ LoopAgrees /\ memory \in [Requests -> {"none", "live", "freed"}]
      /\ batch \in Seq(Requests)
  BY DEF IInv, Jobs, TypeOK
<1>1. CASE Detach
  <2>1. /\ batch = <<>> /\ batch' = done /\ done' = <<>>
        /\ UNCHANGED <<pending, running, finished, refused, step, memory, inflight, overloads>>
    BY <1>1, <1>i DEF Detach, LoopAgrees
  <2>2. /\ Range(done') = {} /\ Range(batch) = {} /\ Range(batch') = Range(done)
        /\ Distinct(done') /\ (Distinct(done) => Distinct(batch'))
    BY <2>1, EmptyQueue
  <2>3. PoolAgrees'
    BY <1>i, <2>1, <2>2 DEF Jobs, PoolAgrees
  <2>4. Live' = Live /\ Counted'
    BY <1>i, <2>1 DEF Live, Jobs, Counted
  <2>5. ASSUME NEW q \in Requests PROVE Placed(q)'
    BY <1>i, <2>1, <2>2, <2>4 DEF Jobs, Placed
  <2> QED
    BY <2>3, <2>4, <2>5 DEF Jobs
<1>2. CASE Deliver
  <2>1. PICK r \in Requests : r = Head(batch) /\ r \in Range(batch) /\ batch # <<>>
    BY <1>2, <1>i, TailQueue DEF Deliver
  <2>2. /\ memory' = [memory EXCEPT ![r] = "freed"] /\ batch' = Tail(batch) /\ inflight' = inflight - 1
        /\ UNCHANGED <<pending, running, finished, refused, step, done, overloads>>
    BY <1>2, <2>1 DEF Deliver, Settled
  <2>3. Range(batch') = Range(batch) \ {r} /\ Distinct(batch')
    BY <1>i, <2>1, <2>2, TailQueue DEF Jobs, PoolAgrees
  <2>4. Live' = Live \ {r} /\ r \in Live
    BY <1>i, <2>1, <2>2 DEF Live, Jobs, Placed
  <2>5. Counted'
    BY <1>i, <2>2, <2>4, FS_RemoveElement DEF Jobs, Counted
  <2>6. PoolAgrees'
    BY <1>i, <2>2, <2>3 DEF Jobs, PoolAgrees
  <2>7. r \notin Range(pending) /\ step[r] # "handler" /\ r \notin Range(done)
    BY <1>i, <2>1 DEF Jobs, Placed, PoolAgrees
  <2>8. ASSUME NEW q \in Requests PROVE Placed(q)'
    BY <1>i, <2>2, <2>3, <2>4, <2>7 DEF Jobs, Placed
  <2> QED
    BY <2>5, <2>6, <2>8 DEF Jobs
<1> QED
  BY <1>1, <1>2

(* No other step touches the jobs.                                         *)
LEMMA JobsStep == IInv /\ [Next]_vars => Jobs'
<1> SUFFICES ASSUME IInv, [Next]_vars PROVE Jobs'
  OBVIOUS
<1> USE DEF pool, conns, jobs, lists, gauges, control, history
<1>1. ASSUME UNCHANGED <<pending, running, finished, refused, jobs, lists, gauges>> PROVE Jobs'
  <2>1. Jobs
    BY DEF IInv, Jobs
  <2>2. Live' = Live
    BY <1>1 DEF Live
  <2>3. PoolAgrees' /\ Counted'
    BY <1>1, <2>1, <2>2 DEF Jobs, PoolAgrees, Counted
  <2>4. ASSUME NEW q \in Requests PROVE Placed(q)'
    BY <1>1, <2>1, <2>2 DEF Jobs, Placed
  <2> QED
    BY <2>3, <2>4 DEF Jobs
<1>2. ASSUME NEW c \in Conns, Accept(c) \/ CloseStarts(c) \/ CloseEnds(c) PROVE Jobs'
  BY <1>1, <1>2 DEF Accept, CloseStarts, CloseEnds
<1>3. ASSUME NEW c \in Conns, DispatchSync(c) \/ TooLarge(c) \/ Ignored(c) PROVE Jobs'
  BY <1>1, <1>3 DEF DispatchSync, TooLarge, Ignored
<1>4. ASSUME NEW r \in Requests, Receive(r) PROVE Jobs'
  BY <1>1, <1>4 DEF Receive
<1>5. CASE Top \/ PollEnds \/ Stop \/ PoolIdle \/ PoolJoined \/ Freed \/ DestroyPool \/ DrainEnds
  BY <1>1, <1>5 DEF Top, PollEnds, Stop, PoolIdle, PoolJoined, Freed, DestroyPool, DrainEnds,
                    Pool!Close, Pool!Vanish
<1>6. CASE UNCHANGED vars
  BY <1>1, <1>6 DEF vars
<1> QED
  BY SubmitStep, WorkStep, ReleaseStep, <1>2, <1>3, <1>4, <1>5, <1>6
     DEF Next, Dispatch, LoopStep, WorkerStep

-----------------------------------------------------------------------------
(* The conversation on one connection, as operations on its sequences.     *)
LEMMA NextBuffered ==
    ASSUME NEW a, NEW w, Len(w) \in Nat, NEW q \in Seq(Requests), q # <<>>,
           Complete(a, w, 0, q)
    PROVE  /\ Head(q) = a[Len(w) + 1] /\ Len(w) < Len(a)
           /\ Complete(a, w, 1, Tail(q))
<1>1. PICK n \in Nat : n = Len(q) /\ DOMAIN q = 1 .. n /\ n # 0
  BY LenProperties, EmptySeq
<1>2. PICK m \in Nat : m = Len(w)
  OBVIOUS
<1>3. /\ Head(q) = q[1] /\ Len(Tail(q)) = n - 1 /\ DOMAIN Tail(q) = 1 .. n - 1
      /\ \A i \in 1 .. n - 1 : Tail(q)[i] = q[i + 1]
  BY <1>1, HeadTailProperties, LenProperties
<1>4. Len(a) = m + n /\ \A i \in 1 .. n : q[i] = a[m + i]
  BY <1>1, <1>2 DEF Complete
<1>5. \A i \in 1 .. n - 1 : i + 1 \in 1 .. n /\ m + (i + 1) = m + 1 + i
  BY <1>1, <1>2
<1>6. 1 \in 1 .. n /\ m + n = m + 1 + (n - 1) /\ m < m + n
  BY <1>1, <1>2
<1> QED
  BY <1>2, <1>3, <1>4, <1>5, <1>6 DEF Complete

LEMMA Sending ==
    ASSUME NEW a, NEW R, NEW w \in Seq(R), NEW e \in R
    PROVE  /\ Len(Append(w, e)) = Len(w) + 1
           /\ \A q : Complete(a, w, 1, q) => Complete(a, Append(w, e), 0, q)
           /\ Len(a) \in Nat /\ InOrder(a, w) /\ Len(w) < Len(a) /\ e.req = a[Len(w) + 1]
                => InOrder(a, Append(w, e))
           /\ NoneBarred(w) => LastBarred(Append(w, e))
           /\ NoneBarred(w) /\ e.status # "too large" => NoneBarred(Append(w, e))
<1>1. PICK n \in Nat : n = Len(w) /\ DOMAIN w = 1 .. n
  BY LenProperties
<1> DEFINE v == Append(w, e)
<1>2. /\ Len(v) = n + 1 /\ DOMAIN v = 1 .. n + 1 /\ v[n + 1] = e
      /\ \A i \in 1 .. n : v[i] = w[i]
  BY <1>1, AppendProperties, LenProperties
<1> HIDE DEF v
<1>3. \A i \in 1 .. n + 1 : i \in 1 .. n \/ i = n + 1
  BY <1>1
<1>4. \A q : Complete(a, w, 1, q) => Complete(a, v, 0, q)
  <2> SUFFICES ASSUME NEW q, Complete(a, w, 1, q) PROVE Complete(a, v, 0, q)
    OBVIOUS
  <2>1. n + 1 = n + 1 + 0
    BY <1>1
  <2> QED
    BY <1>1, <1>2, <2>1 DEF Complete
<1>5. ASSUME Len(a) \in Nat, InOrder(a, w), Len(w) < Len(a), e.req = a[Len(w) + 1] PROVE InOrder(a, v)
  BY <1>1, <1>2, <1>3, <1>5 DEF InOrder
<1>6. NoneBarred(w) => LastBarred(v)
  BY <1>1, <1>2, <1>3 DEF NoneBarred, LastBarred
<1>7. NoneBarred(w) /\ e.status # "too large" => NoneBarred(v)
  BY <1>1, <1>2, <1>3 DEF NoneBarred
<1> QED
  BY <1>1, <1>2, <1>4, <1>5, <1>6, <1>7 DEF v

LEMMA Receiving ==
    ASSUME NEW a \in Seq(Requests), NEW w, Len(w) \in Nat, NEW b \in {0, 1},
           NEW q \in Seq(Requests), NEW r \in Requests, InOrder(a, w)
    PROVE  /\ InOrder(Append(a, r), w)
           /\ Complete(a, w, b, q) => Complete(Append(a, r), w, b, Append(q, r))
           /\ Len(w) < Len(a) => Append(a, r)[Len(w) + 1] = a[Len(w) + 1]
<1>1. PICK k \in Nat, m \in Nat, n \in Nat :
          /\ k = Len(a) /\ DOMAIN a = 1 .. k /\ m = Len(w) /\ n = Len(q) /\ DOMAIN q = 1 .. n
  BY LenProperties
<1> DEFINE x == Append(a, r)
           y == Append(q, r)
<1>2. /\ Len(x) = k + 1 /\ x[k + 1] = r /\ \A i \in 1 .. k : x[i] = a[i]
      /\ Len(y) = n + 1 /\ DOMAIN y = 1 .. n + 1 /\ y[n + 1] = r /\ \A i \in 1 .. n : y[i] = q[i]
  BY <1>1, AppendProperties, LenProperties
<1> HIDE DEF x, y
<1>3. m < k => x[m + 1] = a[m + 1]
  BY <1>1, <1>2
<1>4. InOrder(x, w)
  <2>1. m <= k /\ \A i \in DOMAIN w : w[i].req = a[i]
    BY <1>1 DEF InOrder
  <2> QED
    BY <1>1, <1>2, <2>1 DEF InOrder
<1>5. ASSUME Complete(a, w, b, q) PROVE Complete(x, w, b, y)
  BY <1>1, <1>2, <1>5, SMTT(30) DEF Complete
<1> QED
  BY <1>1, <1>3, <1>4, <1>5 DEF x, y

LEMMA FromHere ==
    ASSUME NEW c, NEW q \in Seq(Requests), From(c, q)
    PROVE  /\ From(c, <<>>)
           /\ q # <<>> => Origin[Head(q)] = c /\ From(c, Tail(q))
           /\ \A r \in Requests : Origin[r] = c => From(c, Append(q, r))
<1>1. PICK n \in Nat : n = Len(q) /\ DOMAIN q = 1 .. n
  BY LenProperties
<1>2. From(c, <<>>)
  BY DEF From
<1>3. ASSUME q # <<>> PROVE Origin[Head(q)] = c /\ From(c, Tail(q))
  <2>1. /\ n # 0 /\ Head(q) = q[1] /\ DOMAIN Tail(q) = 1 .. n - 1
        /\ \A i \in 1 .. n - 1 : Tail(q)[i] = q[i + 1]
    BY <1>1, <1>3, EmptySeq, HeadTailProperties, LenProperties
  <2>2. 1 \in 1 .. n /\ \A i \in 1 .. n - 1 : i + 1 \in 1 .. n
    BY <1>1, <2>1
  <2> QED
    BY <1>1, <2>1, <2>2 DEF From
<1>4. ASSUME NEW r \in Requests, Origin[r] = c PROVE From(c, Append(q, r))
  <2>1. /\ DOMAIN Append(q, r) = 1 .. n + 1 /\ Append(q, r)[n + 1] = r
        /\ \A i \in 1 .. n : Append(q, r)[i] = q[i]
    BY <1>1, AppendProperties, LenProperties
  <2>2. \A i \in 1 .. n + 1 : i \in 1 .. n \/ i = n + 1
    BY <1>1
  <2> QED
    BY <1>1, <1>4, <2>1, <2>2 DEF From
<1> QED
  BY <1>2, <1>3, <1>4

-----------------------------------------------------------------------------
Talk(c) == Answered(c) /\ Conversation(c)

(* A connection that a step leaves alone, or closes.                       *)
LEMMA Undisturbed ==
    ASSUME NEW c \in Conns, Talk(c),
           UNCHANGED <<recv[c], isResp[c], barred[c], asked[c], wire[c]>>,
           state'[c] = state[c] \/ state'[c] \in {"closing", "closed"},
           stage' # "destroying" => stage # "destroying",
           \A r : Origin[r] = c => (r \in Live' <=> r \in Live)
    PROVE  Talk(c)'
<1>1. Idle(c)' <=> Idle(c)
  BY DEF Idle
<1>2. \A r \in Live' : Origin[r] = c => r \in Live
  OBVIOUS
<1>3. Answered(c)'
  BY <1>1 DEF Talk, Answered
<1>4. Conversation(c)'
  <2> SUFFICES ASSUME Serves(c)' PROVE Conversation(c)'
    BY DEF Conversation
  <2>1. Serves(c)
    BY DEF Serves
  <2> QED
    BY <1>1, <1>2, <2>1 DEF Talk, Conversation, Busy
<1> QED
  BY <1>3, <1>4 DEF Talk

(* The steps that change one connection.                                   *)
LEMMA ClientStep ==
    ASSUME IInv, NEW c \in Conns,
           \/ Accept(c) \/ CloseEnds(c)
           \/ \E r \in Requests : Origin[r] = c /\ Receive(r)
    PROVE  Talk(c)'
<1> USE DEF pool, conns, jobs, lists, gauges, control, history
<1>i. /\ Talk(c) /\ recv \in [Conns -> Seq(Requests)] /\ asked \in [Conns -> Seq(Requests)]
      /\ wire \in [Conns -> Seq([req : Requests, status : Statuses])]
      /\ state \in [Conns -> {"none", "open", "closing", "closed"}]
      /\ isResp \in [Conns -> BOOLEAN] /\ barred \in [Conns -> BOOLEAN]
  BY DEF IInv, Talk, TypeOK
<1>1. CASE Accept(c)
  <2>1. /\ state[c] = "none" /\ state'[c] = "open"
        /\ UNCHANGED <<recv, isResp, barred, asked, wire, memory>>
    BY <1>1, <1>i DEF Accept
  <2>2. /\ recv[c] = <<>> /\ asked[c] = <<>> /\ ~isResp[c] /\ ~barred[c] /\ Idle(c)
    BY <1>i, <2>1 DEF Talk, Answered
  <2>3. Live' = Live /\ (Idle(c) <=> Idle(c)')
    BY <2>1 DEF Live, Idle
  <2>4. Complete(asked[c], wire[c], 0, recv[c])
    <3>1. Len(wire[c]) \in Nat /\ Len(wire[c]) <= 0 /\ Len(<<>>) = 0
      BY <1>i, <2>2, LenProperties, EmptySeq DEF Talk, Answered, InOrder
    <3> QED
      BY <2>2, <3>1 DEF Complete
  <2>5. Answered(c)'
    BY <1>i, <2>1 DEF Talk, Answered
  <2>6. Conversation(c)'
    BY <2>1, <2>2, <2>3, <2>4 DEF Conversation, Busy, Idle
  <2> QED
    BY <2>5, <2>6 DEF Talk
<1>2. CASE CloseEnds(c)
  <2>1. /\ state'[c] = "closed" /\ recv'[c] = <<>>
        /\ UNCHANGED <<isResp, barred, asked, wire>>
    BY <1>2, <1>i DEF CloseEnds
  <2>2. From(c, <<>>)
    BY DEF From
  <2>3. Answered(c)'
    BY <1>i, <2>1, <2>2 DEF Talk, Answered, From
  <2> QED
    BY <2>1, <2>3 DEF Talk, Conversation, Serves
<1>3. ASSUME NEW r \in Requests, Origin[r] = c, Receive(r) PROVE Talk(c)'
  <2>1. /\ state[c] = "open" /\ loop = "io"
        /\ recv'[c] = Append(recv[c], r) /\ asked'[c] = Append(asked[c], r)
        /\ UNCHANGED <<state, isResp, barred, wire, memory, stage>>
    BY <1>3, <1>i DEF Receive
  <2>2. Live' = Live /\ (Idle(c) <=> Idle(c)')
    BY <2>1 DEF Live, Idle
  <2>3. PICK a \in Seq(Requests), q \in Seq(Requests), w \in Seq([req : Requests, status : Statuses]), b \in {0, 1} :
            a = asked[c] /\ q = recv[c] /\ w = wire[c] /\ b = Busy(c)
    BY <1>i DEF Busy
  <2>4. Len(w) \in Nat /\ InOrder(a, w) /\ From(c, q)
    BY <1>i, <2>3, LenProperties DEF Talk, Answered
  <2>5. InOrder(Append(a, r), w) /\ From(c, Append(q, r))
    BY <1>3, <2>4, Receiving, FromHere
  <2>6. Answered(c)'
    BY <1>i, <2>1, <2>3, <2>5 DEF Talk, Answered, From
  <2>7. Conversation(c)'
    <3>1. CASE barred[c]
      BY <1>i, <2>1, <2>2, <3>1 DEF Talk, Conversation, Serves
    <3>2. CASE ~barred[c] /\ Serves(c)
      <4>1. /\ isResp[c] <=> ~Idle(c)
            /\ \A x \in Live : Origin[x] = c => x = a[Len(w) + 1]
            /\ Complete(a, w, b, q)
        BY <1>i, <2>3, <3>2 DEF Talk, Conversation
      <4>2. Complete(Append(a, r), w, b, Append(q, r))
        BY <2>4, <4>1, Receiving
      <4>3. ~Idle(c) => Len(w) < Len(a)
        <5>1. Len(a) = Len(w) + b + Len(q) /\ Len(q) \in Nat /\ (~Idle(c) => b = 1)
          BY <2>3, <4>1, LenProperties DEF Complete, Busy
        <5> QED
          BY <2>4, <5>1
      <4>4. \A x \in Live : Origin[x] = c => x = Append(a, r)[Len(w) + 1]
        BY <2>4, <4>1, <4>3, Receiving DEF Idle
      <4> QED
        BY <2>1, <2>2, <2>3, <3>2, <4>1, <4>2, <4>4 DEF Conversation, Busy
    <3>3. CASE ~Serves(c)
      BY <2>1, <3>3 DEF Conversation, Serves
    <3> QED
      BY <3>1, <3>2, <3>3
  <2> QED
    BY <2>6, <2>7 DEF Talk
<1> QED
  BY <1>1, <1>2, <1>3

Responses == [req : Requests, status : Statuses]

(* A connection is parsed: what the next buffered request is.              *)
LEMMA AtHead ==
    ASSUME IInv, NEW c \in Conns, Parses(c)
    PROVE  /\ Head(recv[c]) \in Requests /\ Origin[Head(recv[c])] = c
           /\ From(c, Tail(recv[c])) /\ Tail(recv[c]) \in Seq(Requests)
           /\ state[c] \in {"open", "closing"} /\ ~isResp[c] /\ Busy(c) = 0
           /\ state[c] = "open" => Serves(c)
           /\ state[c] = "open" /\ ~barred[c] =>
                /\ Idle(c) /\ NoneBarred(wire[c])
                /\ Head(recv[c]) = asked[c][Len(wire[c]) + 1] /\ Len(wire[c]) < Len(asked[c])
                /\ Complete(asked[c], wire[c], 1, Tail(recv[c]))
<1>i. /\ Talk(c) /\ LoopAgrees /\ recv[c] \in Seq(Requests)
      /\ wire[c] \in Seq(Responses) /\ Len(wire[c]) \in Nat
      /\ loop \in {"io", "free"} /\ state[c] \in {"open", "closing"} /\ ~isResp[c] /\ recv[c] # <<>>
  BY LenProperties DEF IInv, Talk, TypeOK, Responses, Parses
<1>1. Head(recv[c]) \in Requests /\ Tail(recv[c]) \in Seq(Requests)
  BY <1>i, TailQueue
<1>2. Origin[Head(recv[c])] = c /\ From(c, Tail(recv[c]))
  BY <1>i, FromHere DEF Talk, Answered
<1>3. state[c] = "open" => Serves(c)
  BY <1>i DEF LoopAgrees, Serves
<1>4. Busy(c) = 0
  BY <1>i DEF Busy
<1>5. ASSUME state[c] = "open", ~barred[c]
      PROVE  /\ Idle(c) /\ NoneBarred(wire[c])
             /\ Complete(asked[c], wire[c], 0, recv[c])
  BY <1>i, <1>3, <1>4, <1>5 DEF Talk, Answered, Conversation
<1> QED
  BY <1>i, <1>1, <1>2, <1>3, <1>4, <1>5, NextBuffered

(* What is sent on a connection that no job works for.                     *)
LEMMA SendStep ==
    ASSUME IInv, NEW c \in Conns, Parses(c), ~barred[c], NEW what \in Statuses,
           Send(c, Head(recv[c]), what)
    PROVE  /\ InOrder(asked[c], wire'[c]) /\ LastBarred(wire'[c])
           /\ what # "too large" => NoneBarred(wire'[c])
           /\ state[c] = "open" => Complete(asked[c], wire'[c], 0, Tail(recv[c]))
           /\ \A d \in Conns \ {c} : wire'[d] = wire[d]
<1>i. /\ Talk(c) /\ wire \in [Conns -> Seq(Responses)] /\ asked[c] \in Seq(Requests)
      /\ Len(asked[c]) \in Nat
  BY LenProperties DEF IInv, Talk, TypeOK, Responses
<1>1. CASE state[c] = "open"
  <2>1. PICK e \in Responses : e = [req |-> Head(recv[c]), status |-> what]
    BY AtHead DEF Responses
  <2>2. wire' = [wire EXCEPT ![c] = Append(@, e)] /\ e.req = Head(recv[c]) /\ e.status = what
    BY <1>1, <2>1 DEF Send
  <2>3. PICK w \in Seq(Responses) : w = wire[c] /\ wire'[c] = Append(w, e)
    BY <1>i, <2>2
  <2>4. /\ InOrder(asked[c], w) /\ NoneBarred(w) /\ Len(w) < Len(asked[c])
        /\ e.req = asked[c][Len(w) + 1] /\ Complete(asked[c], w, 1, Tail(recv[c]))
    BY <1>i, <1>1, <2>2, <2>3, AtHead DEF Talk, Answered
  <2>5. /\ InOrder(asked[c], Append(w, e)) /\ LastBarred(Append(w, e))
        /\ what # "too large" => NoneBarred(Append(w, e))
        /\ Complete(asked[c], Append(w, e), 0, Tail(recv[c]))
    BY <1>i, <2>2, <2>4, Sending
  <2> QED
    BY <1>1, <1>i, <2>2, <2>3, <2>5
<1>2. CASE state[c] # "open"
  BY <1>2, <1>i DEF Send, Talk, Answered
<1> QED
  BY <1>1, <1>2

LEMMA DispatchStep ==
    ASSUME IInv, NEW c \in Conns, Dispatch(c)
    PROVE  Talk(c)'
<1> USE DEF pool, conns, jobs, lists, gauges, control, history
<1>i. /\ Talk(c) /\ recv \in [Conns -> Seq(Requests)] /\ memory \in [Requests -> {"none", "live", "freed"}]
      /\ isResp \in [Conns -> BOOLEAN] /\ barred \in [Conns -> BOOLEAN]
      /\ state[c] = "open" \/ state[c] = "closing"
      /\ Parses(c)
  BY DEF IInv, Talk, TypeOK, Dispatch, DispatchSync, DispatchAsync, DispatchRefused, TooLarge, Ignored, Parses
<1>h. /\ Head(recv[c]) \in Requests /\ Origin[Head(recv[c])] = c
      /\ From(c, Tail(recv[c])) /\ ~isResp[c] /\ Busy(c) = 0 /\ From(c, <<>>)
      /\ state[c] = "open" => Serves(c)
  BY <1>i, AtHead DEF From
<1>1. CASE DispatchSync(c) \/ DispatchRefused(c)
  <2>1. PICK what \in Statuses \ {"too large"} : Respond(c, Head(recv[c]), what) /\ ~barred[c]
    BY <1>1 DEF DispatchSync, DispatchRefused, Statuses
  <2>2. /\ recv'[c] \in {<<>>, Tail(recv[c])} /\ (state[c] = "open" => recv'[c] = Tail(recv[c]))
        /\ Send(c, Head(recv[c]), what)
        /\ UNCHANGED <<state, isResp, barred, memory, asked>>
        /\ UNCHANGED stage
    BY <1>1, <1>i, <2>1 DEF DispatchSync, DispatchRefused, Respond
  <2>3. /\ InOrder(asked[c], wire'[c]) /\ LastBarred(wire'[c]) /\ NoneBarred(wire'[c])
        /\ state[c] = "open" => Complete(asked[c], wire'[c], 0, Tail(recv[c]))
    BY <1>i, <2>1, <2>2, SendStep
  <2>4. Live' = Live /\ (Idle(c) <=> Idle(c)')
    BY <2>2 DEF Live, Idle
  <2>5. From(c, recv'[c])
    BY <1>h, <2>2
  <2>6. Answered(c)'
    BY <1>i, <2>2, <2>3, <2>5 DEF Answered, From
  <2>7. ASSUME state[c] = "open" PROVE Conversation(c)'
    <3>1. Idle(c) /\ Idle(c)' /\ Busy(c)' = 0 /\ ~isResp'[c] /\ ~barred'[c]
      BY <1>i, <1>h, <2>1, <2>2, <2>4, <2>7, AtHead DEF Busy
    <3>2. Complete(asked'[c], wire'[c], 0, recv'[c])
      BY <2>2, <2>3, <2>7
    <3> QED
      BY <3>1, <3>2 DEF Conversation, Idle
  <2> QED
    BY <1>i, <2>2, <2>6, <2>7 DEF Talk, Conversation, Serves
<1>2. CASE DispatchAsync(c)
  <2>1. /\ memory' = [memory EXCEPT ![Head(recv[c])] = "live"] /\ recv'[c] = Tail(recv[c])
        /\ isResp'[c] = TRUE /\ ~barred[c]
        /\ UNCHANGED <<state, barred, stage, asked, wire>>
    BY <1>2, <1>i DEF DispatchAsync
  <2>2. Live' = Live \cup {Head(recv[c])}
    BY <1>i, <1>h, <2>1 DEF Live
  <2>3. Answered(c)'
    BY <1>i, <1>h, <2>1 DEF Talk, Answered, From
  <2>4. ASSUME state[c] = "open" PROVE Conversation(c)'
    <3>1. /\ Idle(c) /\ Head(recv[c]) = asked[c][Len(wire[c]) + 1]
          /\ Complete(asked[c], wire[c], 1, Tail(recv[c]))
      BY <1>i, <2>1, <2>4, AtHead
    <3>2. ~Idle(c)' /\ Busy(c)' = 1
      BY <1>h, <2>1, <2>2 DEF Idle, Busy
    <3>3. \A x \in Live' : Origin[x] = c => x = asked[c][Len(wire[c]) + 1]
      BY <2>2, <3>1 DEF Idle
    <3> QED
      BY <2>1, <3>1, <3>2, <3>3 DEF Conversation
  <2> QED
    BY <1>i, <2>1, <2>3, <2>4 DEF Talk, Conversation, Serves
<1>3. CASE TooLarge(c)
  <2>1. /\ Send(c, Head(recv[c]), "too large") /\ barred'[c] /\ ~barred[c]
        /\ UNCHANGED <<state, recv, isResp, memory, stage, asked>>
    BY <1>3, <1>i DEF TooLarge, Bar
  <2>2. InOrder(asked[c], wire'[c]) /\ LastBarred(wire'[c])
    BY <1>i, <2>1, SendStep DEF Statuses
  <2>3. Live' = Live /\ (Idle(c) <=> Idle(c)')
    BY <2>1 DEF Live, Idle
  <2>4. Answered(c)'
    BY <1>i, <2>1, <2>2 DEF Talk, Answered, From
  <2>5. state[c] = "open" => Idle(c)
    BY <1>i, <2>1, AtHead
  <2> QED
    BY <1>i, <2>1, <2>3, <2>4, <2>5 DEF Talk, Conversation, Serves
<1>4. CASE Ignored(c)
  <2>1. /\ recv'[c] = Tail(recv[c]) /\ barred[c]
        /\ UNCHANGED <<state, barred, memory, stage, asked, wire>>
    BY <1>4, <1>i DEF Ignored
  <2>2. Live' = Live /\ (Idle(c) <=> Idle(c)')
    BY <2>1 DEF Live, Idle
  <2>3. Answered(c)'
    BY <1>i, <1>h, <2>1 DEF Talk, Answered, From
  <2> QED
    BY <1>i, <2>1, <2>2, <2>3 DEF Talk, Conversation, Serves
<1> QED
  BY <1>1, <1>2, <1>3, <1>4 DEF Dispatch

(* The event loop delivers a job: of all connections only the one it came  *)
(* from is told, and it waits for this job.                                *)
LEMMA DeliverStep == IInv /\ Deliver => \A c \in Conns : Talk(c)'
<1> SUFFICES ASSUME IInv, Deliver, NEW c \in Conns PROVE Talk(c)'
  OBVIOUS
<1> USE DEF pool, conns, jobs, lists, gauges, control, history
<1>i. /\ Talk(c) /\ batch \in Seq(Requests) /\ memory \in [Requests -> {"none", "live", "freed"}]
      /\ wire \in [Conns -> Seq(Responses)] /\ isResp \in [Conns -> BOOLEAN]
      /\ asked[c] \in Seq(Requests) /\ Len(asked[c]) \in Nat
      /\ Origin \in [Requests -> Conns]
  BY ServerAssumption, LenProperties DEF IInv, Talk, TypeOK, Responses
<1>1. PICK r \in Requests : r = Head(batch) /\ r \in Range(batch)
  BY <1>i, TailQueue DEF Deliver
<1>2. /\ memory' = [memory EXCEPT ![r] = "freed"]
      /\ UNCHANGED <<state, recv, barred, stage, asked>>
      /\ IF stage # "destroying" /\ state[Origin[r]] = "open"
         THEN Send(Origin[r], r, "ok") /\ isResp' = [isResp EXCEPT ![Origin[r]] = FALSE]
         ELSE UNCHANGED <<wire, isResp>>
  BY <1>1 DEF Deliver, Answers
<1>3. Live' = Live \ {r} /\ r \in Live
  BY <1>i, <1>1, <1>2 DEF Live, IInv, Placed
<1>4. CASE Origin[r] # c
  <2>1. wire'[c] = wire[c] /\ isResp'[c] = isResp[c]
    BY <1>i, <1>2, <1>4 DEF Send
  <2>2. \A x : Origin[x] = c => (x \in Live' <=> x \in Live)
    BY <1>3, <1>4
  <2> QED
    BY <1>i, <1>2, <2>1, <2>2, Undisturbed
<1>5. CASE Origin[r] = c /\ Serves(c)
  <2>1. PICK e \in Responses : e = [req |-> r, status |-> "ok"]
    BY DEF Responses, Statuses
  <2>2. /\ wire' = [wire EXCEPT ![c] = Append(@, e)] /\ ~isResp'[c]
        /\ e.req = r /\ e.status = "ok"
    BY <1>i, <1>2, <1>5, <2>1 DEF Send, Serves
  <2>3. ~barred[c] /\ isResp[c] /\ Busy(c) = 1 /\ Busy(c)' = 0
    BY <1>i, <1>3, <1>5, <2>2 DEF Talk, Conversation, Idle, Busy
  <2>4. PICK w \in Seq(Responses) : w = wire[c] /\ wire'[c] = Append(w, e)
    BY <1>i, <2>2
  <2>5. /\ InOrder(asked[c], w) /\ NoneBarred(w) /\ r = asked[c][Len(w) + 1]
        /\ \A x \in Live : Origin[x] = c => x = r
        /\ Complete(asked[c], w, 1, recv[c])
    BY <1>i, <1>3, <1>5, <2>3, <2>4 DEF Talk, Answered, Conversation
  <2>6. Len(w) \in Nat /\ Len(w) < Len(asked[c])
    <3>1. recv[c] \in Seq(Requests)
      BY DEF IInv, TypeOK
    <3>2. PICK m \in Nat, n \in Nat : m = Len(w) /\ n = Len(recv[c])
      BY <3>1, LenProperties
    <3>3. Len(asked[c]) = m + 1 + n
      BY <2>5, <3>2 DEF Complete
    <3>4. m < m + 1 + n
      OBVIOUS
    <3> QED
      BY <3>2, <3>3, <3>4
  <2>7. /\ InOrder(asked[c], wire'[c]) /\ LastBarred(wire'[c]) /\ NoneBarred(wire'[c])
        /\ Complete(asked[c], wire'[c], 0, recv[c])
    BY <1>i, <2>2, <2>4, <2>5, <2>6, Sending
  <2>8. Idle(c)'
    BY <1>3, <2>5 DEF Idle
  <2>9. Answered(c)'
    BY <1>i, <1>2, <1>5, <2>3, <2>7 DEF Talk, Answered, Serves
  <2>10. Conversation(c)'
    BY <1>2, <2>2, <2>3, <2>7, <2>8 DEF Conversation, Idle
  <2> QED
    BY <2>9, <2>10 DEF Talk
<1>6. CASE Origin[r] = c /\ ~Serves(c)
  <2>1. UNCHANGED <<wire, isResp>>
    BY <1>2, <1>6 DEF Serves
  <2>2. Idle(c) => Idle(c)'
    BY <1>3 DEF Idle
  <2>3. Answered(c)'
    BY <1>i, <1>2, <2>1, <2>2 DEF Talk, Answered
  <2> QED
    BY <1>2, <1>6, <2>3 DEF Talk, Conversation, Serves
<1> QED
  BY <1>4, <1>5, <1>6

(* Everything else leaves the conversations alone.                         *)
LEMMA TalkStep == IInv /\ [Next]_vars => \A c \in Conns : Talk(c)'
<1> SUFFICES ASSUME IInv, [Next]_vars, NEW c \in Conns PROVE Talk(c)'
  OBVIOUS
<1> USE DEF pool, conns, jobs, lists, gauges, control, history
<1>i. /\ Talk(c) /\ state \in [Conns -> {"none", "open", "closing", "closed"}]
      /\ recv \in [Conns -> Seq(Requests)] /\ isResp \in [Conns -> BOOLEAN]
      /\ barred \in [Conns -> BOOLEAN] /\ asked \in [Conns -> Seq(Requests)]
      /\ wire \in [Conns -> Seq(Responses)] /\ Origin \in [Requests -> Conns]
      /\ memory \in [Requests -> {"none", "live", "freed"}]
  BY ServerAssumption DEF IInv, Talk, TypeOK, Responses
<1>1. ASSUME UNCHANGED <<recv[c], isResp[c], barred[c], asked[c], wire[c], memory>>,
             state'[c] = state[c] \/ state'[c] \in {"closing", "closed"},
             stage' # "destroying" => stage # "destroying"
      PROVE  Talk(c)'
  <2>1. Live' = Live
    BY <1>1 DEF Live
  <2> QED
    BY <1>i, <1>1, <2>1, Undisturbed
<1>2. ASSUME NEW d \in Conns, Accept(d) \/ CloseStarts(d) \/ CloseEnds(d) PROVE Talk(c)'
  <2>1. CASE d = c /\ (Accept(d) \/ CloseEnds(d))
    BY <2>1, ClientStep
  <2>2. CASE d # c \/ CloseStarts(d)
    BY <1>i, <1>1, <1>2, <2>2 DEF Accept, CloseStarts, CloseEnds
  <2> QED
    BY <1>2, <2>1, <2>2
<1>3. ASSUME NEW r \in Requests, Receive(r) PROVE Talk(c)'
  <2>1. CASE Origin[r] = c
    BY <1>3, <2>1, ClientStep
  <2>2. CASE Origin[r] # c
    BY <1>i, <1>1, <1>3, <2>2 DEF Receive
  <2> QED
    BY <2>1, <2>2
<1>4. ASSUME NEW d \in Conns, Dispatch(d) PROVE Talk(c)'
  <2>1. CASE d = c
    BY <1>4, <2>1, DispatchStep
  <2>2. ASSUME d # c PROVE Talk(c)'
    <3>1. PICK r \in Requests : r = Head(recv[d]) /\ Origin[r] = d
      BY <1>4, AtHead DEF Dispatch, DispatchSync, DispatchAsync, DispatchRefused, TooLarge, Ignored
    <3>2. /\ recv'[c] = recv[c] /\ isResp'[c] = isResp[c] /\ barred'[c] = barred[c]
          /\ wire'[c] = wire[c] /\ UNCHANGED <<state, asked, stage>>
          /\ memory' \in {memory, [memory EXCEPT ![r] = "live"]}
      <4>1. CASE DispatchSync(d) \/ DispatchRefused(d)
        BY <1>i, <2>2, <4>1 DEF DispatchSync, DispatchRefused, Respond, Send
      <4>2. CASE DispatchAsync(d)
        BY <1>i, <2>2, <3>1, <4>2 DEF DispatchAsync
      <4>3. CASE TooLarge(d) \/ Ignored(d)
        BY <1>i, <2>2, <4>3 DEF TooLarge, Ignored, Bar, Send
      <4> QED
        BY <1>4, <4>1, <4>2, <4>3 DEF Dispatch
    <3>3. \A x : Origin[x] = c => (x \in Live' <=> x \in Live)
      BY <1>i, <2>2, <3>1, <3>2 DEF Live
    <3> QED
      BY <1>i, <3>2, <3>3, Undisturbed
  <2> QED
    BY <2>1, <2>2
<1>5. ASSUME NEW b \in Beats, Heartbeat(b) \/ BeatDone(b) PROVE Talk(c)'
  BY <1>1, <1>5 DEF Heartbeat, BeatDone
<1>6. ASSUME NEW r \in Requests, HandBack(r) \/ Wake(r) PROVE Talk(c)'
  BY <1>1, <1>6 DEF HandBack, Wake
<1>7. CASE Start \/ Top \/ PollEnds \/ Detach \/ Freed \/ Stop \/ PoolJoined \/ UNCHANGED vars
  BY <1>1, <1>7 DEF Start, Top, PollEnds, Detach, Freed, Stop, PoolJoined, vars
<1>8. CASE PoolIdle \/ DestroyPool
  <2>1. stage # "destroying" /\ UNCHANGED <<conns, jobs, lists, gauges, history>>
    BY <1>8 DEF PoolIdle, DestroyPool, Pool!Close, IInv, LoopAgrees
  <2> QED
    BY <1>1, <2>1
<1>9. CASE DrainEnds
  BY <1>i, <1>1, <1>9 DEF DrainEnds
<1>10. CASE Deliver
  BY <1>10, DeliverStep
<1> QED
  BY <1>2, <1>3, <1>4, <1>5, <1>6, <1>7, <1>8, <1>9, <1>10 DEF Next, LoopStep, WorkerStep

-----------------------------------------------------------------------------
(* No job is lost or doubled on its way, and each connection's conversation *)
(* stays in order: the invariant all the theorems below follow from.       *)
THEOREM Invariance == Spec => []IInv
<1>1. IInv /\ [Next]_vars => IInv'
  <2> SUFFICES ASSUME IInv, [Next]_vars PROVE IInv'
    OBVIOUS
  <2>1. TypeOK' /\ LoopAgrees' /\ Jobs' /\ \A c \in Conns : Talk(c)'
    BY TypeStep, LoopAgreesStep, JobsStep, TalkStep
  <2> QED
    BY <2>1 DEF IInv, Jobs, Talk
<1> QED
  BY InitInv, <1>1, PTL DEF Spec

(* Between its submission and its release a job is in exactly one place,   *)
(* the gauges count the jobs, and none is left when the application goes.  *)
THEOREM JobsAreNeverLost == Spec => []EveryJobInOnePlace
<1>1. ASSUME IInv PROVE EveryJobInOnePlace
  <2>1. GaugesAgree
    BY <1>1 DEF IInv, Counted, GaugesAgree
  <2>2. NothingLeftToFree
    <3> SUFFICES ASSUME loop \in {"free", "freed"}
                 PROVE  phase = "gone" /\ Live = {} /\ done = <<>> /\ \A r \in Requests : step[r] = "none"
      BY DEF NothingLeftToFree
    <3>1. /\ phase = "gone" /\ pending = <<>> /\ running = {} /\ done = <<>> /\ batch = <<>>
      BY <1>1 DEF IInv, LoopAgrees
    <3>2. Range(pending) = {} /\ Range(done) = {} /\ Range(batch) = {}
      BY <3>1, EmptyQueue
    <3>3. \A r \in Requests : step[r] = "none" /\ r \notin Live
      BY <1>1, <3>1, <3>2 DEF IInv, Placed
    <3>4. Live = {}
      BY <3>3 DEF Live
    <3> QED
      BY <3>1, <3>3, <3>4
  <2>3. ASSUME NEW r \in Requests
        PROVE  (IF r \in Range(pending) THEN 1 ELSE 0) + (IF step[r] = "handler" THEN 1 ELSE 0)
                 + Cardinality({i \in DOMAIN done : done[i] = r})
                 + Cardinality({i \in DOMAIN batch : batch[i] = r})
               = (IF r \in Live THEN 1 ELSE 0)
    <3>1. /\ Cardinality({i \in DOMAIN done : done[i] = r}) = IF r \in Range(done) THEN 1 ELSE 0
          /\ Cardinality({i \in DOMAIN batch : batch[i] = r}) = IF r \in Range(batch) THEN 1 ELSE 0
      BY <1>1, Occurrences DEF IInv, TypeOK, PoolAgrees
    <3>2. /\ r \in Range(pending) => r \notin running \cup finished /\ step[r] = "none"
          /\ step[r] = "handler" => r \in running /\ r \notin finished
      BY <1>1 DEF IInv, Placed, PoolAgrees
    <3>3. /\ r \in Live <=> \/ r \in Range(pending) \/ step[r] = "handler"
                            \/ r \in Range(done) \/ r \in Range(batch)
          /\ r \in Range(done) \cup Range(batch) => step[r] = "wake" \/ r \in finished
          /\ ~(r \in Range(done) /\ r \in Range(batch))
      BY <1>1 DEF IInv, Placed
    <3> QED
      BY <3>1, <3>2, <3>3
  <2> QED
    BY <1>1, <2>1, <2>2, <2>3 DEF EveryJobInOnePlace, IInv
<1> QED
  BY Invariance, <1>1, PTL

(* The responses on a connection are those of its own requests, in the     *)
(* order they came, one each, whatever the workers finish first.           *)
THEOREM PipeliningIsInOrder == Spec => []AnswersInOrder
<1>1. ASSUME IInv PROVE AnswersInOrder
  <2> SUFFICES ASSUME NEW c \in Conns
               PROVE  [i \in DOMAIN wire[c] |-> wire[c][i].req] = SubSeq(asked[c], 1, Len(wire[c]))
    BY DEF AnswersInOrder
  <2>1. /\ wire[c] \in Seq(Responses) /\ asked[c] \in Seq(Requests)
        /\ InOrder(asked[c], wire[c])
    BY <1>1 DEF IInv, TypeOK, Answered, Responses
  <2>2. PICK n \in Nat : n = Len(wire[c]) /\ DOMAIN wire[c] = 1 .. n
    BY <2>1, LenProperties
  <2>3. Len(asked[c]) \in Nat /\ n <= Len(asked[c])
    BY <2>1, <2>2, LenProperties DEF InOrder
  <2>4. \A i \in 1 .. n : asked[c][i] \in Requests
    BY <2>1, <2>2, <2>3, ElementOfSeq
  <2>5. \A i \in 1 .. n : wire[c][i].req = asked[c][i]
    BY <2>1, <2>2 DEF InOrder
  <2> DEFINE s == SubSeq(asked[c], 1, n)
             u == [i \in 1 .. n |-> wire[c][i].req]
  <2>6. s \in Seq(Requests) /\ Len(s) = n /\ \A i \in 1 .. n : s[i] = asked[c][i]
    <3>1. /\ s \in Seq(Requests) /\ Len(s) = IF 1 <= n THEN n - 1 + 1 ELSE 0
          /\ \A i \in 1 .. n - 1 + 1 : s[i] = asked[c][1 + i - 1]
      BY <2>4, SubSeqProperties
    <3> HIDE DEF s
    <3> QED
      BY <2>2, <3>1
  <2>7. u \in [1 .. n -> Requests] /\ \A i \in 1 .. n : u[i] = asked[c][i]
    BY <2>4, <2>5
  <2>8. u \in Seq(Requests) /\ Len(u) = n
    BY <2>2, <2>7
  <2> HIDE DEF s, u
  <2>9. u = s
    BY <2>6, <2>7, <2>8, SeqEqual
  <2> QED
    BY <2>2, <2>9 DEF s, u
<1> QED
  BY Invariance, <1>1, PTL

(* A connection that is not parsed because a response is due has one job   *)
(* at work, and no other.                                                  *)
THEOREM BusyConnectionsHaveAJob == Spec => []BusyMeansJob
<1>1. ASSUME IInv PROVE BusyMeansJob
  <2> SUFFICES ASSUME NEW c \in Conns, stage # "destroying", state[c] = "open", ~barred[c]
               PROVE  Cardinality({r \in Live : Origin[r] = c}) = IF isResp[c] THEN 1 ELSE 0
    BY DEF BusyMeansJob
  <2>1. /\ isResp[c] <=> ~Idle(c)
        /\ \A r \in Live : Origin[r] = c => r = asked[c][Len(wire[c]) + 1]
    BY <1>1 DEF IInv, Conversation, Serves
  <2>2. CASE Idle(c)
    <3>1. {r \in Live : Origin[r] = c} = {}
      BY <2>2 DEF Idle
    <3> QED
      BY <2>1, <2>2, <3>1, FS_EmptySet
  <2>3. CASE ~Idle(c)
    <3>1. PICK r \in Live : Origin[r] = c
      BY <2>3 DEF Idle
    <3>2. {q \in Live : Origin[q] = c} = {r}
      BY <2>1, <3>1
    <3> QED
      BY <2>1, <2>3, <3>2, FS_Singleton
  <2> QED
    BY <2>2, <2>3
<1> QED
  BY Invariance, <1>1, PTL

(* A connection gets at most one 413, as its last response.                *)
THEOREM RepliesOnlyOnce == Spec => []ReplyOnlyOnce
<1>1. IInv => ReplyOnlyOnce
  BY DEF IInv, Answered, LastBarred, ReplyOnlyOnce
<1> QED
  BY Invariance, <1>1, PTL
=============================================================================
