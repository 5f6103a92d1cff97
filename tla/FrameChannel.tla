---------------------------- MODULE FrameChannel ----------------------------
(***************************************************************************)
(* What the shared memory ring of nyxj_ipc.h promises: a one-way channel   *)
(* that hands every message it accepted to the consumer, whole, once, and  *)
(* in the order of the writes.                                             *)
(***************************************************************************)
EXTENDS Sequences

CONSTANT Messages

VARIABLES queue,      \* accepted and not yet read, oldest first
          received    \* what the reads returned

channelVars == <<queue, received>>

Init == queue = <<>> /\ received = <<>>

Send(m) == queue' = Append(queue, m) /\ UNCHANGED received

Receive == /\ queue # <<>>
           /\ received' = Append(received, Head(queue))
           /\ queue' = Tail(queue)

Next == Receive \/ \E m \in Messages : Send(m)

Spec == Init /\ [][Next]_channelVars

FairSpec == Spec /\ WF_channelVars(Receive)
=============================================================================
