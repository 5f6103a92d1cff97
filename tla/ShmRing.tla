------------------------------- MODULE ShmRing -------------------------------
(***************************************************************************)
(* The shared memory ring of src/runtime/ipc.c: bytes in a ring, a cursor  *)
(* of the producer (tail) and one of the consumer (head), both counting    *)
(* bytes for ever.  A frame is a length of Header bytes and a body; either *)
(* may wrap around the end of the ring.                                    *)
(*                                                                         *)
(* Grain: each access to the other side's cursor and each copy is a step.  *)
(* The copies are not atomic in the program; NoRace says that the cells    *)
(* they touch are out of the other side's reach meanwhile, so that cutting *)
(* them finer would show nothing more.                                     *)
(***************************************************************************)
EXTENDS Integers, Sequences, FiniteSets

CONSTANTS Frames,      \* the messages to write, each accepted at most once
          Size,        \* [Frames -> Nat]: their lengths in bytes
          Cap,         \* capacity of the ring in bytes
          Header,      \* bytes of the length, 4 in the code
          MaxCrashes   \* bound on the deaths of the consumer

ASSUME RingAssumption ==
    /\ Size \in [Frames -> Nat]
    /\ Header \in Nat \ {0}
    /\ Cap \in Nat /\ Cap >= Header
    /\ MaxCrashes \in Nat

VARIABLES
    stage,                    \* of nyxj_shm_create: "absent", "mapped", "magic", "ready", "unlinked"
    data, head, tail,         \* the segment
    wpc, frame, seenHead,     \* nyxj_shm_write: where, what, its copy of head
    rpc, length, out, seenTail,  \* nyxj_shm_read: where, n32, buffer, its copy of tail
    crashes,
    todo, flight, got         \* frames not accepted; accepted and unread; read (history)

segment  == <<data, head, tail>>
producer == <<wpc, frame, seenHead>>
consumer == <<rpc, length, out, seenTail>>
history  == <<todo, flight, got>>
vars == <<stage, segment, producer, consumer, crashes, history>>

Cells   == 0 .. Cap - 1
Need(f) == Header + Size[f]

(* The bytes of a frame: those of its length, then those of its body.      *)
Length(n) == [k \in 0 .. Header - 1 |-> <<"length", n, k>>]
Body(f)   == [k \in 0 .. Size[f] - 1 |-> <<"body", f, k>>]
Bytes(f)  == [k \in 0 .. Need(f) - 1 |-> IF k < Header THEN Length(Size[f])[k] ELSE Body(f)[k - Header]]
Blank     == <<"blank", 0, 0>>

(* The part of n bytes at position pos that fits before the end of the     *)
(* ring.                                                                   *)
Offset(pos) == pos % Cap
OneShort(pos, n) == IF n < Cap - Offset(pos) THEN n ELSE Cap - Offset(pos) - 1
First(pos, n)    == IF n < Cap - Offset(pos) THEN n ELSE Cap - Offset(pos)

(* ring_copy_in and ring_copy_out: two memcpy each.                        *)
CopyIn(pos, src, n) ==
    [c \in Cells |-> IF Offset(pos) <= c /\ c < Offset(pos) + First(pos, n) THEN src[c - Offset(pos)]
                     ELSE IF c < n - First(pos, n) THEN src[c + First(pos, n)]
                     ELSE data[c]]
CopyOut(pos, n) ==
    [k \in 0 .. n - 1 |-> IF k < First(pos, n) THEN data[Offset(pos) + k] ELSE data[k - First(pos, n)]]

(* What the length at a position may be read as; bytes that are not those  *)
(* of one length could read as anything.                                   *)
LengthsAt(pos) ==
    LET whole == {n \in {Size[f] : f \in Frames} : CopyOut(pos, Header) = Length(n)}
    IN  IF whole # {} THEN whole ELSE 0 .. Cap

Init == /\ stage = "absent"
        /\ data = [c \in Cells |-> Blank] /\ head = 0 /\ tail = 0
        /\ wpc = "idle" /\ frame \in Frames /\ seenHead = 0
        /\ rpc = "detached" /\ length = 0 /\ out = <<>> /\ seenTail = 0
        /\ crashes = 0
        /\ todo = Frames /\ flight = <<>> /\ got = <<>>

-----------------------------------------------------------------------------
(* nyxj_shm_create: the segment is zeroed and visible, then its magic is   *)
(* written, then its capacity and cursors.                                 *)
Create == /\ \/ stage = "absent" /\ stage' = "mapped"
             \/ stage = "mapped" /\ stage' = "magic"
             \/ stage = "magic"  /\ stage' = "ready"
          /\ UNCHANGED <<segment, producer, consumer, crashes, history>>

(* nyxj_shm_open succeeds on a segment with its magic.                     *)
Open == /\ rpc = "detached" /\ stage \in {"magic", "ready"}
        /\ rpc' = "idle"
        /\ UNCHANGED <<stage, segment, producer, length, out, seenTail, crashes, history>>

(* nyxj_shm_close by the producer unlinks the segment; so does the          *)
(* nyxj_shm_create of its successor when it died, be it in mid write.  The *)
(* consumer's mapping stays.                                               *)
LeaveProducer == /\ stage = "ready"
                 /\ stage' = "unlinked" /\ wpc' = "gone"
                 /\ UNCHANGED <<segment, frame, seenHead, consumer, crashes, history>>

(* The consumer dies, or closes its mapping, at any point.                 *)
CrashConsumer == /\ rpc # "detached" /\ crashes < MaxCrashes
                 /\ rpc' = "detached" /\ crashes' = crashes + 1
                 /\ UNCHANGED <<stage, segment, producer, length, out, seenTail, history>>

-----------------------------------------------------------------------------
(* nyxj_shm_write: load head, test the room, copy the length, copy the     *)
(* body, store tail.                                                       *)
BodyOnly  == Cap - (tail - seenHead) >= Size[frame]
Room      == Cap - (tail - seenHead) >= Need(frame)

LoadHead(f) == /\ stage = "ready" /\ wpc = "idle" /\ f \in todo
               /\ wpc' = "room" /\ frame' = f /\ seenHead' = head
               /\ UNCHANGED <<stage, segment, consumer, crashes, history>>

Full == /\ wpc = "room" /\ ~Room
        /\ wpc' = "idle"
        /\ UNCHANGED <<stage, segment, frame, seenHead, consumer, crashes, history>>

PutLength == /\ wpc = "room" /\ Room
             /\ data' = CopyIn(tail, Length(Size[frame]), Header)
             /\ wpc' = "body"
             /\ UNCHANGED <<stage, head, tail, frame, seenHead, consumer, crashes, history>>

PutBody == /\ wpc = "body"
           /\ data' = CopyIn(tail + Header, Body(frame), Size[frame])
           /\ wpc' = "publish"
           /\ UNCHANGED <<stage, head, tail, frame, seenHead, consumer, crashes, history>>

Publish == /\ wpc = "publish"
           /\ tail' = tail + Need(frame)
           /\ wpc' = "idle"
           /\ todo' = todo \ {frame}
           /\ flight' = Append(flight, [frame |-> frame, at |-> tail])
           /\ UNCHANGED <<stage, data, head, frame, seenHead, consumer, crashes, got>>

-----------------------------------------------------------------------------
(* nyxj_shm_read: load tail, copy the length, copy the body, store head.   *)
LoadTail == /\ rpc = "idle"
            /\ rpc' = "loaded" /\ seenTail' = tail
            /\ UNCHANGED <<stage, segment, producer, length, out, crashes, history>>

Empty == /\ rpc = "loaded" /\ head = seenTail
         /\ rpc' = "idle"
         /\ UNCHANGED <<stage, segment, producer, length, out, seenTail, crashes, history>>

(* "Corrupted header": the frame cannot be where it says it is.            *)
AlsoExact(n) == n + Header >= seenTail - head
Corrupted(n) == n + Header > seenTail - head

GetLength == /\ rpc = "loaded" /\ head # seenTail
             /\ \E n \in LengthsAt(head) :
                    IF Corrupted(n) THEN rpc' = "idle" /\ UNCHANGED length
                                    ELSE rpc' = "body" /\ length' = n
             /\ UNCHANGED <<stage, segment, producer, out, seenTail, crashes, history>>

(* malloc fails, or the body is copied.                                    *)
OutOfMemory == /\ rpc = "body"
               /\ rpc' = "idle"
               /\ UNCHANGED <<stage, segment, producer, length, out, seenTail, crashes, history>>

GetBody == /\ rpc = "body"
           /\ out' = CopyOut(head + Header, length)
           /\ rpc' = "advance"
           /\ UNCHANGED <<stage, segment, producer, length, seenTail, crashes, history>>

BeyondBody   == head + length
BeyondFrame  == head + Header + length

Advance == /\ rpc = "advance"
           /\ head' = BeyondFrame
           /\ rpc' = "idle"
           /\ flight' = Tail(flight)
           /\ got' = Append(got, out)
           /\ UNCHANGED <<stage, data, tail, producer, length, out, seenTail, crashes, todo>>

-----------------------------------------------------------------------------
Write == Full \/ PutLength \/ PutBody \/ Publish
Read  == LoadTail \/ Empty \/ GetLength \/ OutOfMemory \/ GetBody \/ Advance

Next == \/ Create \/ Open \/ LeaveProducer \/ CrashConsumer
        \/ \E f \in Frames : LoadHead(f)
        \/ Write \/ Read

Spec == Init /\ [][Next]_vars

(* A write that began goes on, and the consumer reads on and on; when it   *)
(* dies it is started again, when malloc fails it succeeds later.          *)
Fairness == WF_vars(Write) /\ WF_vars(Open) /\ WF_vars(LoadTail)
            /\ WF_vars(Empty) /\ WF_vars(GetLength) /\ SF_vars(GetBody) /\ WF_vars(Advance)

FairSpec == Spec /\ Fairness

-----------------------------------------------------------------------------
Byte == {Blank} \cup UNION {{Bytes(f)[k] : k \in 0 .. Need(f) - 1} : f \in Frames}

TypeOK == /\ stage \in {"absent", "mapped", "magic", "ready", "unlinked"}
          /\ data \in [Cells -> Byte]
          /\ head \in Nat /\ tail \in Nat /\ seenHead \in Nat /\ seenTail \in Nat
          /\ wpc \in {"idle", "room", "body", "publish", "gone"} /\ frame \in Frames
          /\ rpc \in {"detached", "idle", "loaded", "body", "advance"} /\ length \in Nat
          /\ crashes \in 0 .. MaxCrashes
          /\ todo \subseteq Frames
          /\ flight \in Seq([frame : Frames, at : Nat])
          /\ got \in Seq({Body(f) : f \in Frames})

(* The producer writes only where nothing unread is: whatever the consumer *)
(* does meanwhile, the two never touch the same cell, although each works  *)
(* with an old copy of the other's cursor.                                 *)
Span(pos, n) == {Offset(pos + k) : k \in 0 .. n - 1}
Writing      == IF wpc \in {"body", "publish"} \/ (wpc = "room" /\ Room) THEN Span(tail, Need(frame)) ELSE {}
NoRace       == TypeOK /\ Writing \cap Span(head, tail - head) = {}

(* The check for a "Corrupted header" in nyxj_shm_read never fires: what   *)
(* is read as a length is always the length of a frame published in full.  *)
LengthAlwaysWhole ==
    rpc = "loaded" /\ head # seenTail => \A n \in LengthsAt(head) : ~Corrupted(n)

(* The ring implements the channel of whole messages in order, whatever    *)
(* cells they wrapped over and whenever the consumer died.                 *)
Channel == INSTANCE FrameChannel WITH
    Messages <- {Body(f) : f \in Frames},
    queue    <- [i \in DOMAIN flight |-> Body(flight[i].frame)],
    received <- got

ImplementsChannel == Channel!Spec

(* An accepted message is read, unless the consumer died and the producer  *)
(* has closed the ring since.                                              *)
EveryMessageArrives ==
    \A f \in Frames :
        f \notin todo ~> (\E i \in DOMAIN got : got[i] = Body(f))
                           \/ (stage = "unlinked" /\ rpc = "detached")
=============================================================================
