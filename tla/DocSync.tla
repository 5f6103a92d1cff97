------------------------------- MODULE DocSync -------------------------------
(* A document and its copy, kept alike by deltas: a server edits its       *)
(* document and sends nyxj_diff or nyxj_merge_diff from the last version   *)
(* it sent; a client applies what arrives, in order, one operation of a    *)
(* patch at a time. Once in a while a patch comes that must be refused.    *)
(* (DOCUMENTATION.md, chapter 15, describes this use.)                     *)
EXTENDS DocPatch, FiniteSets, Bags

CONSTANTS
  Docs,         \* the documents a server may put in place of its own
  Edits,        \* the operations a server may apply to it
  Fresh,        \* what the memory of a new buffer may hold
  MaxChanges,   \* the changes the server makes (a bound)
  MaxChannel    \* the deltas under way (a bound)

VARIABLES
  server,       \* the document
  sent,         \* the version the last delta leads to
  versions,     \* all versions so far (history)
  channel,      \* deltas under way, oldest first
  client,       \* the copy
  call          \* patch_apply of the client: work and the operations to do

vars == <<server, sent, versions, channel, client, call>>

Idle == [work |-> None, todo |-> <<>>]

Init ==
  /\ server \in Docs /\ sent = server /\ versions = <<server>>
  /\ channel = <<>> /\ client = server /\ call = Idle

Changed(d) == server' = d /\ versions' = Append(versions, d) /\ UNCHANGED <<sent, channel, client, call>>

Replace(d) == Len(versions) <= MaxChanges /\ d # server /\ Changed(d)

Edit(o) ==
  /\ Len(versions) <= MaxChanges
  /\ LET Alters(d) == d \notin {None, server} /\ Changed(d) IN Alters(apply_one(server, o))

Send(message) == Len(channel) < MaxChannel /\ channel' = Append(channel, message) /\ UNCHANGED <<server, versions, client, call>>

Patch(ops) == [ops |-> ops, merge |-> None]

SendDiff(fresh) == sent # server /\ Send(Patch(diff(sent, server, fresh))) /\ sent' = server

SendMerge == sent # server /\ Send([ops |-> <<>>, merge |-> merge_diff(sent, server)]) /\ sent' = server

(* A patch whose last operation tests for a value that is not there.       *)
SendWrong(fresh) ==
  /\ ~equals(sent, server)
  /\ Send(Patch(Append(diff(sent, server, fresh), Op("test", <<>>, sent))))
  /\ UNCHANGED sent

(* nyxj_patch_apply clones the document,                                   *)
Begin ==
  /\ call = Idle /\ channel # <<>> /\ Head(channel).merge = None
  /\ call' = [work |-> client, todo |-> Head(channel).ops]
  /\ channel' = Tail(channel)
  /\ UNCHANGED <<server, sent, versions, client>>

(* applies one operation after the other to the clone, which it drops at   *)
(* the first that fails (a mistake would be to do it in place),            *)
Applied(next) ==
  /\ call' = IF next = None THEN Idle ELSE [work |-> next, todo |-> Tail(call.todo)]
  /\ UNCHANGED <<server, sent, versions, channel>>

OperationInPlace ==
  /\ call # Idle /\ call.todo # <<>>
  /\ Applied(apply_one(call.work, Head(call.todo)))
  /\ client' = call.work

Operation ==
  /\ call # Idle /\ call.todo # <<>>
  /\ Applied(apply_one(call.work, Head(call.todo)))
  /\ UNCHANGED client

(* and puts it in the place of the document at the end.                    *)
Finish ==
  /\ call # Idle /\ call.todo = <<>>
  /\ client' = call.work /\ call' = Idle
  /\ UNCHANGED <<server, sent, versions, channel>>

Merge ==
  /\ call = Idle /\ channel # <<>> /\ Head(channel).merge # None
  /\ client' = merge_patch(client, Head(channel).merge)
  /\ channel' = Tail(channel)
  /\ UNCHANGED <<server, sent, versions, call>>

Next ==
  \/ \E d \in Docs : Replace(d)
  \/ \E o \in Edits : Edit(o)
  \/ \E fresh \in Fresh : SendDiff(fresh)
  \/ SendMerge
  \/ \E fresh \in Fresh : SendWrong(fresh)
  \/ Begin \/ Operation \/ Finish \/ Merge

Spec == Init /\ [][Next]_vars

-----------------------------------------------------------------------------
RECURSIVE Leaves(_)
Leaves(v) ==
  IF IsArr(v) THEN FlattenSeq([i \in 1 .. Len(v[2]) |-> Leaves(v[2][i])])
  ELSE IF IsObj(v) THEN FlattenSeq([i \in 1 .. Len(Pairs(v)) |-> Leaves(Pairs(v)[i][2])])
  ELSE <<v>>

Counts(s)   == [x \in Range(s) |-> Cardinality({i \in 1 .. Len(s) : s[i] = x})]
Count(v)    == Counts(Leaves(v))
KeysOnce(v) == IsObj(v) => \A i, j \in 1 .. Len(Pairs(v)) : Pairs(v)[i][1] = Pairs(v)[j][1] => i = j

(* What the client shows is always a version the server had: no refused    *)
(* patch and no unfinished one leaves a trace, though the versions of the  *)
(* client may order members in another way than the patches were made      *)
(* from. (patch_apply works on a clone; diff emits removals of elements    *)
(* from the end.)                                                          *)
ClientShowsAVersion == \E i \in 1 .. Len(versions) : equals(client, versions[i])

(* Once all that was sent is applied or refused, the client has the        *)
(* version that was sent last: the composition of the deltas, JSON patches *)
(* and merge patches, is the difference of the versions.                   *)
ClientCatchesUp == channel = <<>> /\ call = Idle => equals(client, sent) /\ equals(sent, client)

(* What a move or a copy to a free place does to the values.               *)
Keeps(o, after) ==
  /\ o.op = "move" => Count(after) = Count(server)
  /\ o.op = "copy" => Count(after) = Count(server) (+) Count(pointer_get(server, o.from))

IsFree(path, parent) == path # <<>> /\ (IsArr(parent) \/ pointer_get(server, path) = None)

(* Whatever the patches do, an object never gets a key twice, a move into  *)
(* a place that was free loses and doubles nothing, and a copy adds what   *)
(* it copies: the element that moves is taken out before the place is      *)
(* found. (patch.c: move detaches, then adds.)                             *)
MovesLoseNothing ==
  /\ KeysOnce(client) /\ (call # Idle => KeysOnce(call.work))
  /\ \A o \in Edits :
       LET Then(after) == after # None /\ IsFree(o.path, resolve_parent(server, Tokens(o.path))) => Keeps(o, after)
       IN  Then(apply_one(server, o))

(* A patch made by nyxj_diff leads from the one document to the other,     *)
(* whatever their roots are and whatever the memory held.                  *)
DiffTurnsFromIntoTo ==
  \A fresh \in Fresh :
    LET Reached(end) == end # None /\ equals(end, server) IN Reached(apply_all(sent, diff(sent, server, fresh)))
=============================================================================
