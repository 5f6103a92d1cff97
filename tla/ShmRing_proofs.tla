---------------------------- MODULE ShmRing_proofs ----------------------------
(***************************************************************************)
(* Theorems about ShmRing, for any messages, any capacity that holds a     *)
(* header and any number of crashes of the consumer.  The cursors count    *)
(* for ever, so the argument is about positions, not cells: the frames in  *)
(* flight lie end to end from head to tail, each holds its bytes, and a    *)
(* copy of the producer stays within head + Cap, because the head it has   *)
(* seen is never ahead of the head there is.                               *)
(***************************************************************************)
EXTENDS ShmRing, SequenceTheorems, TLAPS

End(i) == flight[i].at + Need(flight[i].frame)

(* The first n bytes of f are in the ring at position p.                   *)
Holds(p, f, n) == \A k \in 0 .. n - 1 : data[Offset(p + k)] = Bytes(f)[k]

(* The frames in flight lie end to end between the two cursors.            *)
Layout == /\ head <= tail /\ tail <= head + Cap
          /\ flight = <<>> => head = tail
          /\ flight # <<>> => flight[1].at = head /\ End(Len(flight)) = tail
          /\ \A i \in DOMAIN flight : head <= flight[i].at /\ End(i) <= tail
          /\ \A i, j \in DOMAIN flight : i < j => End(i) <= flight[j].at
          /\ \A i, j \in DOMAIN flight : j = i + 1 => flight[j].at = End(i)

Contents == \A i \in DOMAIN flight : Holds(flight[i].at, flight[i].frame, Need(flight[i].frame))

(* What the producer has written and not published.                        *)
Draft == /\ seenHead <= head
         /\ wpc \in {"body", "publish"} => Room
         /\ wpc = "body" => Holds(tail, frame, Header)
         /\ wpc = "publish" => Holds(tail, frame, Need(frame))

(* What the consumer has seen is the end of a frame, what it reads is the  *)
(* first one.                                                              *)
Reading == /\ rpc = "loaded" /\ head # seenTail => flight # <<>> /\ End(1) <= seenTail
           /\ rpc \in {"body", "advance"} => flight # <<>> /\ length = Size[flight[1].frame]
           /\ rpc = "advance" => out = Body(flight[1].frame)

IInv == TypeOK /\ Layout /\ Contents /\ Draft /\ Reading

-----------------------------------------------------------------------------
(* Positions and cells.                                                    *)
LEMMA OffsetRange ==
    ASSUME NEW p \in Nat
    PROVE  Offset(p) \in Cells
BY RingAssumption DEF Offset, Cells

LEMMA ModUnique ==
    ASSUME NEW q \in Int, NEW r \in 0 .. Cap - 1, NEW n \in Nat, n = Cap * q + r
    PROVE  n % Cap = r
BY RingAssumption

LEMMA OffsetAdd ==
    ASSUME NEW p \in Nat, NEW k \in 0 .. Cap
    PROVE  Offset(p + k) = IF Offset(p) + k < Cap THEN Offset(p) + k ELSE Offset(p) + k - Cap
<1> DEFINE q == p \div Cap
           r == p % Cap
<1>1. q \in Int /\ r \in 0 .. Cap - 1 /\ p = Cap * q + r
  BY RingAssumption
<1>2. CASE r + k < Cap
  <2>1. p + k = Cap * q + (r + k) /\ r + k \in 0 .. Cap - 1 /\ p + k \in Nat
    BY <1>1, <1>2, RingAssumption
  <2> QED
    BY <1>1, <1>2, <2>1, ModUnique DEF Offset
<1>3. CASE r + k >= Cap
  <2>1. Cap * (q + 1) = Cap * q + Cap /\ q + 1 \in Int
    BY <1>1, RingAssumption
  <2>2. p + k = Cap * (q + 1) + (r + k - Cap) /\ r + k - Cap \in 0 .. Cap - 1 /\ p + k \in Nat
    BY <1>1, <1>3, <2>1, RingAssumption
  <2>3. (p + k) % Cap = r + k - Cap
    BY <2>1, <2>2, ModUnique
  <2> QED
    BY <1>1, <1>3, <2>3, RingAssumption DEF Offset
<1> QED
  BY <1>1, <1>2, <1>3, RingAssumption

(* Less than a round apart, two positions have different cells.            *)
LEMMA OffsetDistinct ==
    ASSUME NEW p \in Nat, NEW q \in Nat, p < q, q < p + Cap
    PROVE  Offset(p) # Offset(q)
<1>1. q - p \in 0 .. Cap /\ p + (q - p) = q /\ q - p # 0 /\ q - p # Cap
  BY RingAssumption
<1>2. Offset(p) \in Cells
  BY OffsetRange
<1>3. Offset(q) = IF Offset(p) + (q - p) < Cap THEN Offset(p) + (q - p) ELSE Offset(p) + (q - p) - Cap
  BY <1>1, OffsetAdd
<1> QED
  BY <1>1, <1>2, <1>3, RingAssumption DEF Cells

-----------------------------------------------------------------------------
(* The two copies of ring_copy_out read n bytes from a position on.        *)
LEMMA CopyOutReads ==
    ASSUME NEW p \in Nat, NEW n \in 0 .. Cap
    PROVE  CopyOut(p, n) = [k \in 0 .. n - 1 |-> data[Offset(p + k)]]
<1>1. Offset(p) \in 0 .. Cap - 1
  BY OffsetRange DEF Cells
<1>2. ASSUME NEW k \in 0 .. n - 1
      PROVE  (IF k < First(p, n) THEN data[Offset(p) + k] ELSE data[k - First(p, n)]) = data[Offset(p + k)]
  <2>1. k \in 0 .. Cap /\ k < n /\ k \in Int /\ n \in Int /\ n <= Cap
    BY RingAssumption
  <2>2. Offset(p + k) = IF Offset(p) + k < Cap THEN Offset(p) + k ELSE Offset(p) + k - Cap
    BY <2>1, OffsetAdd
  <2>3. CASE n < Cap - Offset(p)
    BY <1>1, <2>1, <2>2, <2>3, RingAssumption DEF First
  <2>4. CASE ~(n < Cap - Offset(p))
    <3>1. First(p, n) = Cap - Offset(p)
      BY <2>4 DEF First
    <3>2. k < First(p, n) <=> Offset(p) + k < Cap
      BY <1>1, <2>1, <3>1, RingAssumption
    <3>3. k - First(p, n) = Offset(p) + k - Cap
      BY <1>1, <2>1, <3>1, RingAssumption
    <3> QED
      BY <2>2, <3>2, <3>3
  <2> QED
    BY <2>3, <2>4
<1> QED
  BY <1>2 DEF CopyOut

(* Those of ring_copy_in write the n bytes there and nothing else.         *)
LEMMA CopyInWrites ==
    ASSUME NEW p \in Nat, NEW n \in 0 .. Cap, NEW src,
           NEW q \in Nat, p <= q, q < p + Cap
    PROVE  CopyIn(p, src, n)[Offset(q)] = IF q < p + n THEN src[q - p] ELSE data[Offset(q)]
<1> DEFINE o == Offset(p)
           c == Offset(q)
           k == q - p
<1>1. o \in 0 .. Cap - 1 /\ c \in 0 .. Cap - 1 /\ c \in Cells
  BY OffsetRange DEF Cells
<1>2. k \in 0 .. Cap - 1 /\ k \in 0 .. Cap /\ p + k = q /\ (q < p + n <=> k < n)
  BY RingAssumption
<1>3. c = IF o + k < Cap THEN o + k ELSE o + k - Cap
  BY <1>2, OffsetAdd
<1>4. CopyIn(p, src, n)[c] = IF o <= c /\ c < o + First(p, n) THEN src[c - o]
                             ELSE IF c < n - First(p, n) THEN src[c + First(p, n)] ELSE data[c]
  BY <1>1 DEF CopyIn
<1> HIDE DEF o, c, k
<1>5. CASE n < Cap - o
  <2>1. First(p, n) = n
    BY <1>5 DEF First, o
  <2>2. ~(c < n - n)
    BY <1>1, RingAssumption
  <2>3. (o <= c /\ c < o + n) <=> k < n
    BY <1>1, <1>2, <1>3, <1>5, RingAssumption
  <2>4. k < n => c - o = k
    BY <1>1, <1>2, <1>3, <1>5, RingAssumption
  <2> QED
    BY <1>2, <1>4, <2>1, <2>2, <2>3, <2>4 DEF c, k
<1>6. CASE ~(n < Cap - o)
  <2>1. First(p, n) = Cap - o
    BY <1>6 DEF First, o
  <2>2. CASE o + k < Cap
    <3>1. c = o + k /\ o <= c /\ c < o + (Cap - o) /\ c - o = k /\ k < n
      BY <1>1, <1>2, <1>3, <1>6, <2>2, RingAssumption
    <3> QED
      BY <1>2, <1>4, <2>1, <3>1 DEF c, k
  <2>3. CASE ~(o + k < Cap)
    <3>1. c = o + k - Cap /\ ~(o <= c) /\ c + (Cap - o) = k /\ (c < n - (Cap - o) <=> k < n)
      BY <1>1, <1>2, <1>3, <1>6, <2>3, RingAssumption
    <3> QED
      BY <1>2, <1>4, <2>1, <3>1 DEF c, k
  <2> QED
    BY <2>2, <2>3
<1> QED
  BY <1>5, <1>6

(* Different lengths have different bytes, from the first on.              *)
LEMMA LengthInjective ==
    ASSUME NEW m, NEW n, Length(m) = Length(n)
    PROVE  m = n
<1>1. 0 \in 0 .. Header - 1
  BY RingAssumption
<1>2. Length(m)[0] = <<"length", m, 0>> /\ Length(n)[0] = <<"length", n, 0>>
  BY <1>1 DEF Length
<1> QED
  BY <1>2

(* The bytes of a frame are those of its length, then those of its body.   *)
LEMMA BytesOfFrame ==
    ASSUME NEW f \in Frames
    PROVE  /\ Size[f] \in Nat /\ Need(f) \in Nat /\ Need(f) = Header + Size[f]
           /\ \A k \in 0 .. Header - 1 : Bytes(f)[k] = Length(Size[f])[k]
           /\ \A k \in 0 .. Size[f] - 1 : Bytes(f)[Header + k] = Body(f)[k]
           /\ \A k \in 0 .. Need(f) - 1 : Bytes(f)[k] \in Byte
<1>1. Size[f] \in Nat /\ Need(f) \in Nat /\ Need(f) = Header + Size[f]
  BY RingAssumption DEF Need
<1>2. ASSUME NEW k \in 0 .. Header - 1 PROVE Bytes(f)[k] = Length(Size[f])[k]
  <2>1. k \in 0 .. Need(f) - 1 /\ k < Header
    BY <1>1, RingAssumption
  <2> QED
    BY <2>1 DEF Bytes
<1>3. ASSUME NEW k \in 0 .. Size[f] - 1 PROVE Bytes(f)[Header + k] = Body(f)[k]
  <2>1. Header + k \in 0 .. Need(f) - 1 /\ ~(Header + k < Header) /\ (Header + k) - Header = k
    BY <1>1, RingAssumption
  <2> QED
    BY <2>1 DEF Bytes
<1>4. \A k \in 0 .. Need(f) - 1 : Bytes(f)[k] \in Byte
  BY DEF Byte
<1> QED
  BY <1>1, <1>2, <1>3, <1>4

(* A copy leaves alone what is behind it, up to a round before its end.    *)
LEMMA CopyInKeeps ==
    ASSUME NEW p \in Nat, NEW n \in 0 .. Cap, NEW src,
           NEW x \in Nat, x < p, p + n <= x + Cap
    PROVE  CopyIn(p, src, n)[Offset(x)] = data[Offset(x)]
<1>1. x + Cap \in Nat /\ p <= x + Cap /\ x + Cap < p + Cap /\ ~(x + Cap < p + n)
  BY RingAssumption
<1>2. Offset(x + Cap) = Offset(x)
  <2>1. Offset(x) \in 0 .. Cap - 1
    BY OffsetRange DEF Cells
  <2>2. Cap \in 0 .. Cap
    BY RingAssumption
  <2> QED
    BY <2>1, <2>2, OffsetAdd, RingAssumption
<1>3. CopyIn(p, src, n)[Offset(x + Cap)] = data[Offset(x + Cap)]
  BY <1>1, CopyInWrites
<1> QED
  BY <1>2, <1>3

LEMMA CopyInType ==
    ASSUME NEW p \in Nat, NEW n \in 0 .. Cap, NEW src,
           data \in [Cells -> Byte], \A k \in 0 .. n - 1 : src[k] \in Byte
    PROVE  CopyIn(p, src, n) \in [Cells -> Byte]
<1>1. SUFFICES ASSUME NEW c \in Cells PROVE CopyIn(p, src, n)[c] \in Byte
  BY DEF CopyIn
<1>2. Offset(p) \in 0 .. Cap - 1 /\ c \in 0 .. Cap - 1 /\ n \in Int
  BY OffsetRange DEF Cells
<1>3. First(p, n) \in Int /\ First(p, n) >= 0 /\ First(p, n) <= n
  BY <1>2, RingAssumption DEF First
<1>4. CASE Offset(p) <= c /\ c < Offset(p) + First(p, n)
  <2>1. c - Offset(p) \in 0 .. n - 1
    BY <1>2, <1>3, <1>4
  <2> QED
    BY <1>4, <2>1 DEF CopyIn
<1>5. CASE ~(Offset(p) <= c /\ c < Offset(p) + First(p, n)) /\ c < n - First(p, n)
  <2>1. c + First(p, n) \in 0 .. n - 1
    BY <1>2, <1>3, <1>5
  <2> QED
    BY <1>5, <2>1 DEF CopyIn
<1>6. CASE ~(Offset(p) <= c /\ c < Offset(p) + First(p, n)) /\ ~(c < n - First(p, n))
  BY <1>6 DEF CopyIn
<1> QED
  BY <1>4, <1>5, <1>6

-----------------------------------------------------------------------------
FlightRecord == [frame : Frames, at : Nat]

(* What the invariant says of the frames in flight, with their types.      *)
LEMMA InFlight ==
    ASSUME TypeOK, Layout
    PROVE  /\ flight \in Seq(FlightRecord) /\ Len(flight) \in Nat
           /\ DOMAIN flight = 1 .. Len(flight)
           /\ \A i \in DOMAIN flight : /\ flight[i].frame \in Frames /\ flight[i].at \in Nat
                                       /\ End(i) \in Nat
                                       /\ head <= flight[i].at /\ End(i) <= tail
                                       /\ End(i) = flight[i].at + Need(flight[i].frame)
                                       /\ Need(flight[i].frame) >= Header
<1>1. flight \in Seq(FlightRecord)
  BY DEF TypeOK, FlightRecord
<1>2. Len(flight) \in Nat /\ DOMAIN flight = 1 .. Len(flight)
  BY <1>1, LenProperties
<1>3. \A i \in DOMAIN flight : flight[i] \in FlightRecord
  BY <1>1, <1>2, ElementOfSeq
<1>4. \A i \in DOMAIN flight : flight[i].frame \in Frames /\ flight[i].at \in Nat
  BY <1>3 DEF FlightRecord
<1>5. \A i \in DOMAIN flight : Need(flight[i].frame) \in Nat /\ Need(flight[i].frame) >= Header
  BY <1>4, RingAssumption DEF Need
<1> QED
  BY <1>1, <1>2, <1>4, <1>5 DEF End, Layout

(* Room for a frame: it ends within a round of the head.                   *)
LEMMA RoomIsThere ==
    ASSUME TypeOK, Layout, seenHead <= head, Room
    PROVE  /\ Need(frame) \in Nat /\ Need(frame) = Header + Size[frame] /\ Size[frame] \in Nat
           /\ tail + Need(frame) <= head + Cap /\ Need(frame) <= Cap
<1>1. Size[frame] \in Nat /\ Need(frame) = Header + Size[frame]
  BY RingAssumption DEF TypeOK, Need
<1>2. head \in Nat /\ tail \in Nat /\ seenHead \in Nat
  BY DEF TypeOK
<1> QED
  BY <1>1, <1>2, RingAssumption DEF Room, Layout

LEMMA InitInv == Init => IInv
<1> SUFFICES ASSUME Init PROVE IInv
  OBVIOUS
<1> USE DEF Init
<1>1. flight = <<>> /\ DOMAIN flight = {} /\ flight \in Seq(FlightRecord) /\ got \in Seq({Body(f) : f \in Frames})
  BY EmptySeq
<1>2. data \in [Cells -> Byte]
  BY DEF Byte
<1>3. TypeOK
  BY <1>1, <1>2, RingAssumption DEF TypeOK, FlightRecord
<1>4. Layout /\ Contents
  BY <1>1, RingAssumption DEF Layout, Contents
<1>5. Draft /\ Reading
  BY RingAssumption DEF Draft, Reading
<1> QED
  BY <1>3, <1>4, <1>5 DEF IInv

-----------------------------------------------------------------------------
(* The bytes of the frames in flight survive a copy of the producer.       *)
LEMMA ContentsKept ==
    ASSUME TypeOK, Layout, Contents, UNCHANGED <<head, tail, flight>>,
           NEW p \in Nat, NEW n \in 0 .. Cap, NEW src,
           tail <= p, p + n <= head + Cap, data' = CopyIn(p, src, n)
    PROVE  Contents'
<1>1. SUFFICES ASSUME NEW i \in DOMAIN flight, NEW k \in 0 .. Need(flight[i].frame) - 1
               PROVE  data'[Offset(flight[i].at + k)] = Bytes(flight[i].frame)[k]
  BY DEF Contents, Holds, Offset
<1>2. /\ flight[i].at \in Nat /\ head <= flight[i].at /\ Need(flight[i].frame) \in Nat
      /\ flight[i].at + Need(flight[i].frame) <= tail
  BY InFlight, BytesOfFrame
<1>3. head \in Nat /\ tail \in Nat
  BY DEF TypeOK
<1> DEFINE x == flight[i].at + k
<1>4. x \in Nat /\ x < p /\ p + n <= x + Cap
  BY <1>2, <1>3, RingAssumption
<1>5. data'[Offset(x)] = data[Offset(x)]
  BY <1>4, CopyInKeeps
<1> QED
  BY <1>5 DEF Contents, Holds

(* nyxj_shm_write, up to the store of tail.                                *)
LEMMA PutLengthStep == IInv /\ PutLength => IInv'
<1> SUFFICES ASSUME IInv, PutLength PROVE IInv'
  OBVIOUS
<1> USE DEF IInv, segment, producer, consumer, history
<1>1. /\ wpc = "room" /\ Room /\ data' = CopyIn(tail, Length(Size[frame]), Header) /\ wpc' = "body"
      /\ UNCHANGED <<stage, head, tail, frame, seenHead, consumer, crashes, history>>
  BY DEF PutLength
<1>2. /\ head \in Nat /\ tail \in Nat /\ frame \in Frames /\ seenHead <= head
      /\ data \in [Cells -> Byte] /\ Header \in 0 .. Cap
  BY RingAssumption DEF TypeOK, Draft
<1>3. /\ Need(frame) = Header + Size[frame] /\ Size[frame] \in Nat
      /\ tail + Need(frame) <= head + Cap
  BY <1>1, <1>2, RoomIsThere
<1>4. \A k \in 0 .. Header - 1 : /\ Length(Size[frame])[k] = Bytes(frame)[k]
                                 /\ Length(Size[frame])[k] \in Byte
  <2>1. \A k \in 0 .. Header - 1 : k \in 0 .. Need(frame) - 1
    BY <1>3, RingAssumption
  <2> QED
    BY <1>2, <2>1, BytesOfFrame
<1>5. data' \in [Cells -> Byte]
  BY <1>1, <1>2, <1>4, CopyInType
<1>6. TypeOK'
  BY <1>1, <1>5 DEF TypeOK
<1>7. Layout'
  BY <1>1 DEF Layout, End
<1>8. Contents'
  BY <1>1, <1>2, <1>3, ContentsKept, RingAssumption
<1>9. ASSUME NEW k \in 0 .. Header - 1 PROVE data'[Offset(tail + k)] = Bytes(frame)[k]
  <2>1. tail + k \in Nat /\ tail <= tail + k /\ tail + k < tail + Cap /\ tail + k < tail + Header
        /\ (tail + k) - tail = k
    BY <1>2, RingAssumption
  <2>2. data'[Offset(tail + k)] = Length(Size[frame])[k]
    BY <1>1, <1>2, <2>1, CopyInWrites
  <2> QED
    BY <1>4, <2>2
<1>10. Holds(tail, frame, Header)'
  BY <1>1, <1>9 DEF Holds, Offset
<1>11. Draft'
  BY <1>1, <1>10 DEF Draft, Room
<1>12. Reading'
  BY <1>1 DEF Reading, End
<1> QED
  BY <1>6, <1>7, <1>8, <1>11, <1>12

LEMMA PutBodyStep == IInv /\ PutBody => IInv'
<1> SUFFICES ASSUME IInv, PutBody PROVE IInv'
  OBVIOUS
<1> USE DEF IInv, segment, producer, consumer, history
<1>1. /\ wpc = "body" /\ data' = CopyIn(tail + Header, Body(frame), Size[frame]) /\ wpc' = "publish"
      /\ UNCHANGED <<stage, head, tail, frame, seenHead, consumer, crashes, history>>
  BY DEF PutBody
<1>2. /\ head \in Nat /\ tail \in Nat /\ frame \in Frames /\ seenHead <= head /\ Room
      /\ data \in [Cells -> Byte] /\ Header \in 0 .. Cap
      /\ \A k \in 0 .. Header - 1 : data[Offset(tail + k)] = Bytes(frame)[k]
  BY <1>1, RingAssumption DEF TypeOK, Draft, Holds
<1>3. /\ Need(frame) = Header + Size[frame] /\ Size[frame] \in Nat
      /\ tail + Need(frame) <= head + Cap /\ Need(frame) <= Cap
  BY <1>2, RoomIsThere
<1>4. /\ tail + Header \in Nat /\ Size[frame] \in 0 .. Cap
      /\ tail <= tail + Header /\ (tail + Header) + Size[frame] <= head + Cap
  BY <1>2, <1>3, RingAssumption
<1>5. \A k \in 0 .. Size[frame] - 1 : Body(frame)[k] \in Byte
  <2>1. \A k \in 0 .. Size[frame] - 1 : Header + k \in 0 .. Need(frame) - 1
    BY <1>3, RingAssumption
  <2> QED
    BY <1>2, <2>1, BytesOfFrame
<1>6. data' \in [Cells -> Byte]
  BY <1>1, <1>2, <1>4, <1>5, CopyInType
<1>7. TypeOK'
  BY <1>1, <1>6 DEF TypeOK
<1>8. Layout'
  BY <1>1 DEF Layout, End
<1>9. Contents'
  BY <1>1, <1>4, ContentsKept
<1>10. ASSUME NEW k \in 0 .. Need(frame) - 1 PROVE data'[Offset(tail + k)] = Bytes(frame)[k]
  <2>1. CASE k < Header
    <3>1. /\ tail + k \in Nat /\ tail + k < tail + Header
          /\ (tail + Header) + Size[frame] <= (tail + k) + Cap /\ k \in 0 .. Header - 1
      BY <1>2, <1>3, <2>1, RingAssumption
    <3>2. data'[Offset(tail + k)] = data[Offset(tail + k)]
      BY <1>1, <1>4, <3>1, CopyInKeeps
    <3> QED
      BY <1>2, <3>1, <3>2
  <2>2. CASE k >= Header
    <3>1. /\ tail + k \in Nat /\ tail + Header <= tail + k /\ tail + k < (tail + Header) + Cap
          /\ tail + k < (tail + Header) + Size[frame] /\ (tail + k) - (tail + Header) = k - Header
          /\ k - Header \in 0 .. Size[frame] - 1 /\ Header + (k - Header) = k
      BY <1>2, <1>3, <2>2, RingAssumption
    <3>2. data'[Offset(tail + k)] = Body(frame)[k - Header]
      BY <1>1, <1>4, <3>1, CopyInWrites
    <3> QED
      BY <1>2, <3>1, <3>2, BytesOfFrame
  <2> QED
    BY <2>1, <2>2, RingAssumption, <1>3
<1>11. Holds(tail, frame, Need(frame))'
  BY <1>1, <1>10 DEF Holds, Offset, Need
<1>12. Draft'
  BY <1>1, <1>2, <1>11 DEF Draft, Room
<1>13. Reading'
  BY <1>1 DEF Reading, End
<1> QED
  BY <1>7, <1>8, <1>9, <1>12, <1>13

(* The store of tail: one more frame in flight.                            *)
LEMMA PublishStep == IInv /\ Publish => IInv'
<1> SUFFICES ASSUME IInv, Publish PROVE IInv'
  OBVIOUS
<1> USE DEF IInv, segment, producer, consumer, history
<1> DEFINE r == [frame |-> frame, at |-> tail]
<1>0. PICK n \in Nat : n = Len(flight)
  BY InFlight
<1>1. /\ wpc = "publish" /\ tail' = tail + Need(frame) /\ wpc' = "idle"
      /\ todo' = todo \ {frame} /\ flight' = Append(flight, r)
      /\ UNCHANGED <<stage, data, head, frame, seenHead, consumer, crashes, got>>
  BY DEF Publish
<1>2. /\ head \in Nat /\ tail \in Nat /\ frame \in Frames /\ seenHead <= head /\ Room
      /\ Holds(tail, frame, Need(frame)) /\ head <= tail
  BY <1>1 DEF TypeOK, Draft, Layout
<1>3. Need(frame) \in Nat /\ Need(frame) >= Header /\ tail + Need(frame) <= head + Cap
  BY <1>2, RoomIsThere, RingAssumption
<1>4. /\ flight \in Seq(FlightRecord) /\ n \in Nat /\ DOMAIN flight = 1 .. n
      /\ \A i \in DOMAIN flight : /\ flight[i].frame \in Frames /\ flight[i].at \in Nat
                                  /\ End(i) \in Nat /\ head <= flight[i].at /\ End(i) <= tail
  BY <1>0, InFlight
<1>5. /\ flight' \in Seq(FlightRecord) /\ Len(flight') = n + 1 /\ DOMAIN flight' = 1 .. n + 1
      /\ \A i \in 1 .. n : flight'[i] = flight[i]
      /\ flight'[n + 1] = r
  <2>1. r \in FlightRecord
    BY <1>2 DEF FlightRecord
  <2> QED
    BY <1>0, <1>1, <1>4, <2>1, AppendProperties, LenProperties
<1>6. /\ \A i \in 1 .. n : End(i)' = End(i)
      /\ End(n + 1)' = tail' /\ flight'[n + 1].at = tail /\ flight'[n + 1].frame = frame
  BY <1>1, <1>5 DEF End, Need
<1>7. TypeOK'
  BY <1>1, <1>2, <1>3, <1>5 DEF TypeOK, FlightRecord
<1>8. Layout'
  <2>1. \A i \in 1 .. n + 1 : i \in 1 .. n \/ i = n + 1
    BY <1>4
  <2>2. head' <= tail' /\ tail' <= head' + Cap
    BY <1>1, <1>2, <1>3
  <2>3. flight' # <<>> /\ flight'[1].at = head' /\ End(Len(flight))' = tail'
    <3>1. CASE n = 0
      <4>1. flight = <<>>
        BY <1>0, <1>4, <3>1, EmptySeq
      <4> QED
        BY <1>1, <1>4, <1>5, <1>6, <3>1, <4>1 DEF Layout, End
    <3>2. CASE n # 0
      <4>1. flight # <<>> /\ 1 \in 1 .. n
        BY <1>0, <1>4, <3>2, EmptySeq
      <4> QED
        BY <1>1, <1>4, <1>5, <1>6, <4>1 DEF Layout, End
    <3> QED
      BY <3>1, <3>2
  <2>4. ASSUME NEW i \in 1 .. n + 1 PROVE head' <= flight'[i].at /\ End(i)' <= tail'
    <3>1. CASE i \in 1 .. n
      BY <1>1, <1>2, <1>3, <1>4, <1>5, <1>6, <3>1
    <3>2. CASE i = n + 1
      <4>1. flight'[i].at = tail /\ End(i)' = tail'
        BY <1>6, <3>2
      <4>2. tail' \in Nat /\ head' = head
        BY <1>1, <1>2, <1>3
      <4> QED
        BY <1>2, <4>1, <4>2
    <3> QED
      BY <2>1, <3>1, <3>2
  <2>5. ASSUME NEW i \in 1 .. n + 1, NEW j \in 1 .. n + 1, i < j
        PROVE  End(i)' <= flight'[j].at
    <3>1. i \in 1 .. n
      BY <1>4, <2>5
    <3>2. CASE j \in 1 .. n
      BY <1>4, <1>5, <1>6, <2>5, <3>1, <3>2 DEF Layout
    <3>3. CASE j = n + 1
      BY <1>4, <1>6, <3>1, <3>3
    <3> QED
      BY <2>1, <3>2, <3>3
  <2>6. ASSUME NEW i \in 1 .. n + 1, NEW j \in 1 .. n + 1, j = i + 1
        PROVE  flight'[j].at = End(i)'
    <3>1. i \in 1 .. n
      BY <1>4, <2>6
    <3>2. CASE j \in 1 .. n
      BY <1>4, <1>5, <1>6, <2>6, <3>1, <3>2, ZenonT(60) DEF Layout
    <3>3. CASE j = n + 1
      <4>1. i = n /\ flight # <<>>
        BY <1>0, <1>4, <2>6, <3>1, <3>3, EmptySeq
      <4> QED
        BY <1>0, <1>5, <1>6, <3>1, <3>3, <4>1 DEF Layout
    <3> QED
      BY <2>1, <3>2, <3>3
  <2> QED
    BY <1>5, <2>2, <2>3, <2>4, <2>5, <2>6 DEF Layout
<1>9. Contents'
  <2>1. SUFFICES ASSUME NEW i \in 1 .. n + 1,
                        NEW k \in 0 .. Need(flight'[i].frame) - 1
                 PROVE  data[Offset(flight'[i].at + k)] = Bytes(flight'[i].frame)[k]
    BY <1>1, <1>5 DEF Contents, Holds, Offset
  <2>2. CASE i \in 1 .. n
    <3>1. Holds(flight[i].at, flight[i].frame, Need(flight[i].frame))
      BY <1>4, <2>2 DEF Contents
    <3>2. flight'[i] = flight[i]
      BY <1>5, <2>2
    <3> HIDE DEF IInv
    <3> QED
      BY <3>1, <3>2 DEF Holds
  <2>3. CASE i = n + 1
    BY <1>2, <1>6, <2>3 DEF Holds
  <2> QED
    BY <1>4, <2>2, <2>3
<1>10. Draft'
  BY <1>1, <1>2 DEF Draft
<1>11. flight # <<>> => 1 \in 1 .. n /\ flight' # <<>>
  BY <1>0, <1>4, <1>5, EmptySeq
<1>12. Reading'
  BY <1>1, <1>5, <1>6, <1>11 DEF Reading
<1> QED
  BY <1>7, <1>8, <1>9, <1>10, <1>12

-----------------------------------------------------------------------------
(* What is read as a length is that of the first frame in flight.          *)
LEMMA LengthIsWhole ==
    ASSUME IInv, rpc = "loaded", head # seenTail
    PROVE  /\ flight # <<>> /\ flight[1].frame \in Frames
           /\ LengthsAt(head) = {Size[flight[1].frame]}
           /\ ~Corrupted(Size[flight[1].frame])
<1> USE DEF IInv
<1> DEFINE f == flight[1].frame
<1>1. flight # <<>> /\ End(1) <= seenTail
  BY DEF Reading
<1>2. 1 \in DOMAIN flight
  BY <1>1, InFlight, EmptySeq
<1>3. /\ f \in Frames /\ flight[1].at = head /\ End(1) = head + Need(f) /\ head \in Nat
      /\ seenTail \in Nat
  BY <1>1, <1>2, InFlight DEF Layout, TypeOK
<1>4. Size[f] \in Nat /\ Need(f) = Header + Size[f] /\ Header \in 0 .. Cap
  BY <1>3, BytesOfFrame, RingAssumption
<1>5. \A k \in 0 .. Header - 1 : data[Offset(head + k)] = Length(Size[f])[k]
  <2>1. \A k \in 0 .. Need(f) - 1 : data[Offset(head + k)] = Bytes(f)[k]
    BY <1>2, <1>3 DEF Contents, Holds
  <2>2. \A k \in 0 .. Header - 1 : k \in 0 .. Need(f) - 1
    BY <1>4, RingAssumption
  <2> QED
    BY <1>3, <2>1, <2>2, BytesOfFrame
<1>6. CopyOut(head, Header) = Length(Size[f])
  <2>1. CopyOut(head, Header) = [k \in 0 .. Header - 1 |-> data[Offset(head + k)]]
    BY <1>3, <1>4, CopyOutReads
  <2>2. Length(Size[f]) = [k \in 0 .. Header - 1 |-> Length(Size[f])[k]]
    BY DEF Length
  <2> QED
    BY <1>5, <2>1, <2>2
<1>7. {n \in {Size[g] : g \in Frames} : CopyOut(head, Header) = Length(n)} = {Size[f]}
  BY <1>3, <1>6, LengthInjective
<1>8. LengthsAt(head) = {Size[f]}
  BY <1>7 DEF LengthsAt
<1>9. ~Corrupted(Size[f])
  BY <1>1, <1>3, <1>4, RingAssumption DEF Corrupted
<1> QED
  BY <1>1, <1>3, <1>8, <1>9

LEMMA GetLengthStep == IInv /\ GetLength => IInv'
<1> SUFFICES ASSUME IInv, GetLength PROVE IInv'
  OBVIOUS
<1> USE DEF segment, producer, history
<1>1. /\ rpc = "loaded" /\ head # seenTail
      /\ UNCHANGED <<stage, data, head, tail, wpc, frame, seenHead, out, seenTail, crashes, todo, flight, got>>
  BY DEF GetLength
<1>2. /\ flight # <<>> /\ flight[1].frame \in Frames
      /\ LengthsAt(head) = {Size[flight[1].frame]} /\ ~Corrupted(Size[flight[1].frame])
  BY <1>1, LengthIsWhole
<1>3. rpc' = "body" /\ length' = Size[flight[1].frame]
  BY <1>2 DEF GetLength
<1>4. length' \in Nat
  BY <1>2, <1>3, BytesOfFrame
<1>5. TypeOK'
  BY <1>1, <1>3, <1>4 DEF IInv, TypeOK
<1>6. Layout' /\ Contents' /\ Draft'
  BY <1>1 DEF IInv, Layout, Contents, Draft, Holds, End, Offset, Room
<1>7. Reading'
  BY <1>1, <1>2, <1>3 DEF Reading
<1> QED
  BY <1>5, <1>6, <1>7 DEF IInv

LEMMA GetBodyStep == IInv /\ GetBody => IInv'
<1> SUFFICES ASSUME IInv, GetBody PROVE IInv'
  OBVIOUS
<1> USE DEF segment, producer, history
<1> DEFINE f == flight[1].frame
<1>1. /\ rpc = "body" /\ out' = CopyOut(head + Header, length) /\ rpc' = "advance"
      /\ UNCHANGED <<stage, data, head, tail, wpc, frame, seenHead, length, seenTail, crashes, todo, flight, got>>
  BY DEF GetBody
<1>2. flight # <<>> /\ length = Size[f]
  BY <1>1 DEF IInv, Reading
<1>3. 1 \in DOMAIN flight
  BY <1>2, InFlight, EmptySeq DEF IInv
<1>4. /\ f \in Frames /\ flight[1].at = head /\ End(1) = head + Need(f) /\ head \in Nat
      /\ tail \in Nat /\ End(1) <= tail /\ tail <= head + Cap
  BY <1>2, <1>3, InFlight DEF IInv, Layout, TypeOK
<1>5. Size[f] \in Nat /\ Need(f) = Header + Size[f]
  BY <1>4, BytesOfFrame
<1>6. length \in 0 .. Cap /\ head + Header \in Nat
  BY <1>2, <1>4, <1>5, RingAssumption
<1>7. out' = [k \in 0 .. length - 1 |-> data[Offset((head + Header) + k)]]
  BY <1>1, <1>6, CopyOutReads
<1>8. ASSUME NEW k \in 0 .. length - 1
      PROVE  data[Offset((head + Header) + k)] = Body(f)[k]
  <2> HIDE DEF f
  <2>1. k \in Nat /\ k < length /\ length = Size[f] /\ Header \in Nat /\ head \in Nat
    BY <1>2, <1>4, <1>6, RingAssumption
  <2>2. (head + Header) + k = head + (Header + k)
    BY <2>1
  <2>3. Header + k \in Nat /\ Header + k < Need(f)
    BY <1>5, <2>1
  <2>4. Header + k \in 0 .. Need(f) - 1 /\ (head + Header) + k = head + (Header + k)
    BY <1>5, <2>1, <2>2, <2>3
  <2> USE DEF f
  <2>5. data[Offset(head + (Header + k))] = Bytes(f)[Header + k]
    BY <1>3, <1>4, <2>4 DEF IInv, Contents, Holds
  <2> QED
    BY <1>2, <1>4, <2>4, <2>5, BytesOfFrame
<1>9. out' = Body(f)
  <2>1. Body(f) = [k \in 0 .. length - 1 |-> Body(f)[k]]
    BY <1>2 DEF Body
  <2> QED
    BY <1>7, <1>8, <2>1
<1>10. TypeOK'
  BY <1>1 DEF IInv, TypeOK
<1>11. Layout' /\ Contents' /\ Draft'
  BY <1>1 DEF IInv, Layout, Contents, Draft, Holds, End, Offset, Room
<1>12. Reading'
  BY <1>1, <1>2, <1>9 DEF Reading
<1> QED
  BY <1>10, <1>11, <1>12 DEF IInv

(* The store of head: the first frame is no longer in flight.              *)
LEMMA AdvanceStep == IInv /\ Advance => IInv'
<1> SUFFICES ASSUME IInv, Advance PROVE IInv'
  OBVIOUS
<1> USE DEF IInv, segment, producer, consumer, history
<1> DEFINE f == flight[1].frame
<1>1. /\ rpc = "advance" /\ head' = head + Header + length /\ rpc' = "idle"
      /\ flight' = Tail(flight) /\ got' = Append(got, out)
      /\ UNCHANGED <<stage, data, tail, wpc, frame, seenHead, length, out, seenTail, crashes, todo>>
  BY DEF Advance, BeyondFrame
<1>2. flight # <<>> /\ length = Size[f] /\ out = Body(f)
  BY <1>1 DEF Reading
<1>3. PICK n \in Nat : n = Len(flight)
  BY InFlight
<1>4. /\ flight \in Seq(FlightRecord) /\ DOMAIN flight = 1 .. n /\ 1 \in 1 .. n
      /\ \A i \in 1 .. n : /\ flight[i].frame \in Frames /\ flight[i].at \in Nat
                           /\ End(i) \in Nat /\ head <= flight[i].at /\ End(i) <= tail
                           /\ End(i) = flight[i].at + Need(flight[i].frame)
                           /\ Need(flight[i].frame) >= Header
  BY <1>2, <1>3, InFlight, EmptySeq
<1>5. /\ head \in Nat /\ tail \in Nat /\ seenHead \in Nat /\ seenHead <= head
      /\ f \in Frames /\ flight[1].at = head /\ tail <= head + Cap
  BY <1>2, <1>4 DEF TypeOK, Layout, Draft
<1>6. Need(f) = Header + Size[f] /\ Size[f] \in Nat
  BY <1>5, BytesOfFrame
<1>7. head' = End(1) /\ head' \in Nat /\ head <= head'
  <2>1. End(1) = head + (Header + Size[f])
    BY <1>4, <1>5, <1>6
  <2>2. head' = head + Header + Size[f]
    BY <1>1, <1>2
  <2> QED
    BY <1>5, <1>6, <2>1, <2>2, RingAssumption
<1>8. /\ flight' \in Seq(FlightRecord) /\ Len(flight') = n - 1 /\ DOMAIN flight' = 1 .. n - 1
      /\ \A i \in 1 .. n - 1 : flight'[i] = flight[i + 1]
  BY <1>1, <1>2, <1>3, <1>4, HeadTailProperties, LenProperties
<1>9. /\ \A i \in 1 .. n - 1 : i + 1 \in 1 .. n /\ i + 1 > 1
      /\ \A i \in 1 .. n - 1 : End(i)' = End(i + 1)
  BY <1>3, <1>8 DEF End, Need
<1>10. TypeOK'
  <2>1. got' \in Seq({Body(g) : g \in Frames})
    BY <1>1, <1>2, <1>5, AppendProperties DEF TypeOK
  <2> QED
    BY <1>1, <1>7, <1>8, <2>1 DEF TypeOK, FlightRecord
<1>11. Layout'
  <2>1. head' <= tail' /\ tail' <= head' + Cap
    BY <1>1, <1>4, <1>5, <1>7, RingAssumption
  <2>2. CASE n = 1
    <3>1. flight' = <<>>
      BY <1>8, <2>2, EmptySeq
    <3>2. End(1) = tail
      BY <1>2, <1>3, <2>2 DEF Layout
    <3> QED
      BY <1>1, <1>7, <1>8, <2>1, <2>2, <3>1, <3>2 DEF Layout
  <2>3. CASE n # 1
    <3>1. n - 1 \in Nat /\ n - 1 >= 1 /\ 1 \in 1 .. n - 1 /\ n - 1 \in 1 .. n - 1 /\ (n - 1) + 1 = n
      BY <1>3, <1>4, <2>3
    <3>2. flight' # <<>>
      BY <1>8, <3>1, EmptySeq
    <3>3. flight'[1].at = head'
      <4>1. flight[2].at = End(1) /\ 2 \in 1 .. n
        BY <1>3, <1>4, <3>1 DEF Layout
      <4> QED
        BY <1>7, <1>8, <3>1, <4>1
    <3>4. End(Len(flight))' = tail'
      <4>1. End(n) = tail
        BY <1>2, <1>3 DEF Layout
      <4>2. End(n - 1)' = End(n)
        BY <1>9, <3>1
      <4> QED
        BY <1>1, <1>8, <4>1, <4>2 DEF End
    <3>5. ASSUME NEW i \in 1 .. n - 1 PROVE head' <= flight'[i].at /\ End(i)' <= tail'
      <4>1. End(1) <= flight[i + 1].at
        BY <1>4, <1>9 DEF Layout
      <4> QED
        BY <1>1, <1>4, <1>7, <1>8, <1>9, <4>1
    <3>6. ASSUME NEW i \in 1 .. n - 1, NEW j \in 1 .. n - 1, i < j
          PROVE  End(i)' <= flight'[j].at
      <4>1. i + 1 \in 1 .. n /\ j + 1 \in 1 .. n /\ i + 1 < j + 1
        BY <1>3, <3>6
      <4>2. End(i + 1) <= flight[j + 1].at
        BY <1>4, <4>1 DEF Layout
      <4> QED
        BY <1>8, <1>9, <4>2
    <3>7. ASSUME NEW i \in 1 .. n - 1, NEW j \in 1 .. n - 1, j = i + 1
          PROVE  flight'[j].at = End(i)'
      <4>1. i + 1 \in 1 .. n /\ j + 1 \in 1 .. n /\ j + 1 = (i + 1) + 1
        BY <1>3, <3>7
      <4>2. flight[j + 1].at = End(i + 1)
        BY <1>4, <4>1 DEF Layout
      <4> QED
        BY <1>8, <1>9, <4>2
    <3> QED
      BY <1>8, <2>1, <3>2, <3>3, <3>4, <3>5, <3>6, <3>7 DEF Layout
  <2> QED
    BY <2>2, <2>3
<1>12. Contents'
  <2>1. SUFFICES ASSUME NEW i \in 1 .. n - 1,
                        NEW k \in 0 .. Need(flight'[i].frame) - 1
                 PROVE  data[Offset(flight'[i].at + k)] = Bytes(flight'[i].frame)[k]
    BY <1>1, <1>8 DEF Contents, Holds, Offset
  <2>2. i + 1 \in 1 .. n
    BY <1>3
  <2>3. Holds(flight[i + 1].at, flight[i + 1].frame, Need(flight[i + 1].frame))
    BY <1>4, <2>2 DEF Contents
  <2>4. flight'[i] = flight[i + 1]
    BY <1>8
  <2> HIDE DEF IInv
  <2> QED
    BY <2>3, <2>4 DEF Holds
<1>13. Draft'
  <2>1. seenHead' <= head'
    BY <1>1, <1>5, <1>7
  <2> QED
    BY <1>1, <2>1 DEF Draft, Holds, Offset, Room
<1>14. Reading'
  BY <1>1 DEF Reading
<1> QED
  BY <1>10, <1>11, <1>12, <1>13, <1>14

(* The other steps touch neither the ring nor the frames in flight.        *)
LEMMA OtherSteps ==
    ASSUME IInv,
           \/ Create \/ Open \/ LeaveProducer \/ CrashConsumer \/ Full \/ LoadTail \/ Empty
           \/ OutOfMemory \/ \E f \in Frames : LoadHead(f)
           \/ UNCHANGED vars
    PROVE  IInv'
<1> USE DEF IInv, segment, producer, consumer, history
<1>1. UNCHANGED <<data, head, tail, flight, got>>
  BY DEF Create, Open, LeaveProducer, CrashConsumer, Full, LoadTail, Empty, OutOfMemory, LoadHead, vars
<1>2. Layout' /\ Contents'
  BY <1>1 DEF Layout, Contents, Holds, End, Offset
<1>3. head \in Nat /\ tail \in Nat
  BY DEF TypeOK
<1>4. CASE Create \/ Open \/ LeaveProducer \/ Full \/ Empty \/ OutOfMemory \/ UNCHANGED vars
  <2>1. TypeOK'
    BY <1>4 DEF TypeOK, Create, Open, LeaveProducer, Full, Empty, OutOfMemory, vars
  <2>2. /\ UNCHANGED <<frame, seenHead, length, out, seenTail>>
        /\ wpc' \in {wpc, "idle", "gone"} /\ rpc' \in {rpc, "idle"}
    BY <1>4 DEF Create, Open, LeaveProducer, Full, Empty, OutOfMemory, vars
  <2>3. Draft'
    BY <1>1, <2>2 DEF Draft, Holds, Offset, Room
  <2>4. Reading'
    BY <1>1, <2>2 DEF Reading, End
  <2> QED
    BY <1>2, <2>1, <2>3, <2>4
<1>5. CASE CrashConsumer
  <2>1. TypeOK'
    BY <1>5, RingAssumption DEF TypeOK, CrashConsumer
  <2>2. UNCHANGED <<frame, seenHead, wpc>> /\ rpc' = "detached"
    BY <1>5 DEF CrashConsumer
  <2>3. Draft' /\ Reading'
    BY <1>1, <2>2 DEF Draft, Holds, Offset, Room, Reading
  <2> QED
    BY <1>2, <2>1, <2>3
<1>6. ASSUME NEW f \in Frames, LoadHead(f) PROVE IInv'
  <2>1. /\ wpc' = "room" /\ frame' = f /\ seenHead' = head
        /\ UNCHANGED <<stage, data, head, tail, rpc, length, out, seenTail, crashes, todo, flight, got>>
    BY <1>6 DEF LoadHead
  <2>2. TypeOK'
    BY <2>1 DEF TypeOK
  <2>3. Draft'
    BY <1>3, <2>1 DEF Draft
  <2>4. Reading'
    BY <2>1 DEF Reading, End
  <2> QED
    BY <1>2, <2>2, <2>3, <2>4
<1>7. CASE LoadTail
  <2>1. /\ rpc' = "loaded" /\ seenTail' = tail
        /\ UNCHANGED <<stage, data, head, tail, wpc, frame, seenHead, length, out, crashes, todo, flight, got>>
    BY <1>7 DEF LoadTail
  <2>2. TypeOK'
    BY <2>1 DEF TypeOK
  <2>3. Draft'
    BY <2>1 DEF Draft, Holds, Offset, Room
  <2>4. head # tail => flight # <<>> /\ End(1) <= tail
    <3>1. flight # <<>> => 1 \in DOMAIN flight
      BY InFlight, EmptySeq
    <3> QED
      BY <3>1 DEF Layout
  <2>5. Reading'
    BY <2>1, <2>4 DEF Reading, End
  <2> QED
    BY <1>2, <2>2, <2>3, <2>5
<1> QED
  BY <1>4, <1>5, <1>6, <1>7

(* The frames lie end to end between the cursors and hold their bytes,     *)
(* whatever each side has seen of the other's cursor.                      *)
THEOREM Invariance == Spec => []IInv
<1>1. IInv /\ [Next]_vars => IInv'
  BY PutLengthStep, PutBodyStep, PublishStep, GetLengthStep, GetBodyStep, AdvanceStep, OtherSteps
     DEF Next, Write, Read
<1> QED
  BY InitInv, <1>1, PTL DEF Spec

(* The producer never touches a cell the consumer has yet to read, with    *)
(* however old a copy of the cursor it works.                              *)
THEOREM NobodyRaces == Spec => []NoRace
<1>1. IInv => NoRace
  <2> SUFFICES ASSUME IInv,
                      NEW j \in 0 .. Need(frame) - 1, NEW k \in 0 .. (tail - head) - 1,
                      wpc \in {"body", "publish"} \/ (wpc = "room" /\ Room)
               PROVE  Offset(tail + j) # Offset(head + k)
    BY DEF IInv, NoRace, Writing, Span
  <2>1. head \in Nat /\ tail \in Nat /\ head <= tail /\ Room
    BY DEF IInv, TypeOK, Layout, Draft
  <2>2. Need(frame) \in Nat /\ tail + Need(frame) <= head + Cap
    BY <2>1, RoomIsThere DEF IInv, Draft
  <2>3. /\ head + k \in Nat /\ tail + j \in Nat /\ head + k < tail + j
        /\ tail + j < (head + k) + Cap
    BY <2>1, <2>2, RingAssumption
  <2> QED
    BY <2>3, OffsetDistinct
<1> QED
  BY Invariance, <1>1, PTL

(* The check for a "Corrupted header" in nyxj_shm_read never fires.        *)
THEOREM LengthsAreWhole == Spec => []LengthAlwaysWhole
<1>1. IInv => LengthAlwaysWhole
  BY LengthIsWhole DEF LengthAlwaysWhole
<1> QED
  BY Invariance, <1>1, PTL

-----------------------------------------------------------------------------
(* The refinement: the ring is a channel of whole messages in order.       *)
Bodies  == {Body(f) : f \in Frames}
Waiting == [i \in DOMAIN flight |-> Body(flight[i].frame)]

LEMMA WaitingIsSeq ==
    ASSUME IInv
    PROVE  /\ Waiting \in Seq(Bodies) /\ Len(Waiting) = Len(flight)
           /\ flight # <<>> => Waiting # <<>>
<1>1. /\ Len(flight) \in Nat /\ DOMAIN flight = 1 .. Len(flight)
      /\ \A i \in DOMAIN flight : flight[i].frame \in Frames
      /\ flight \in Seq(FlightRecord)
  BY InFlight DEF IInv
<1>2. PICK n \in Nat : n = Len(flight)
  BY <1>1
<1>3. Waiting = [i \in 1 .. n |-> Body(flight[i].frame)]
  BY <1>1, <1>2 DEF Waiting
<1>4. Waiting \in [1 .. n -> Bodies]
  BY <1>1, <1>2, <1>3 DEF Bodies
<1>5. Waiting \in Seq(Bodies) /\ Len(Waiting) = n
  BY <1>4
<1>6. flight # <<>> => n # 0
  BY <1>1, <1>2, EmptySeq
<1> QED
  BY <1>2, <1>5, <1>6, EmptySeq

LEMMA PublishSends == IInv /\ IInv' /\ Publish => Channel!Send(Body(frame))
<1> SUFFICES ASSUME IInv, IInv', Publish PROVE Channel!Send(Body(frame))
  OBVIOUS
<1> DEFINE r == [frame |-> frame, at |-> tail]
<1>1. flight' = Append(flight, r) /\ got' = got /\ frame \in Frames /\ r \in FlightRecord
  BY DEF Publish, IInv, TypeOK, FlightRecord
<1>2. PICK n \in Nat : n = Len(flight)
  BY InFlight DEF IInv
<1>3. flight \in Seq(FlightRecord) /\ DOMAIN flight = 1 .. n
  BY <1>2, InFlight DEF IInv
<1>4. /\ DOMAIN flight' = 1 .. n + 1
      /\ \A i \in 1 .. n : flight'[i] = flight[i]
      /\ flight'[n + 1].frame = frame
  BY <1>1, <1>2, <1>3, AppendProperties, LenProperties
<1>5. Waiting \in Seq(Bodies) /\ Len(Waiting) = n /\ Body(frame) \in Bodies
  BY <1>1, <1>2, WaitingIsSeq DEF Bodies
<1>6. Waiting' \in Seq(Bodies) /\ Len(Waiting') = n + 1
  <2>1. \A i \in 1 .. n : flight[i].frame \in Frames
    BY <1>3, InFlight DEF IInv
  <2>2. \A i \in 1 .. n + 1 : flight'[i].frame \in Frames
    BY <1>1, <1>2, <1>4, <2>1
  <2>3. Waiting' = [i \in 1 .. n + 1 |-> Body(flight'[i].frame)]
    BY <1>4 DEF Waiting, Body
  <2>4. Waiting' \in [1 .. n + 1 -> Bodies] /\ n + 1 \in Nat
    BY <1>2, <2>2, <2>3 DEF Bodies
  <2> QED
    BY <2>4
<1>7. \A i \in 1 .. n + 1 : Waiting'[i] = IF i = n + 1 THEN Body(frame) ELSE Waiting[i]
  <2>1. \A i \in 1 .. n + 1 : Waiting'[i] = Body(flight'[i].frame)
    BY <1>4 DEF Waiting
  <2>2. \A i \in 1 .. n : Waiting[i] = Body(flight[i].frame)
    BY <1>3 DEF Waiting
  <2> QED
    BY <1>4, <2>1, <2>2
<1>8. Waiting' = Append(Waiting, Body(frame))
  <2> DEFINE a == Append(Waiting, Body(frame))
  <2>1. /\ a \in Seq(Bodies) /\ Len(a) = n + 1
        /\ \A i \in 1 .. n : a[i] = Waiting[i] 
        /\ a[n + 1] = Body(frame)
    BY <1>5, AppendProperties
  <2>2. \A i \in 1 .. n + 1 : Waiting'[i] = a[i]
    BY <1>7, <2>1
  <2> QED
    BY <1>6, <2>1, <2>2, SeqEqual
<1> QED
  BY <1>1, <1>8 DEF Channel!Send, Waiting

LEMMA AdvanceReceives == IInv /\ IInv' /\ Advance => Channel!Receive
<1> SUFFICES ASSUME IInv, IInv', Advance PROVE Channel!Receive
  OBVIOUS
<1>1. /\ flight' = Tail(flight) /\ got' = Append(got, out)
      /\ flight # <<>> /\ out = Body(flight[1].frame)
  BY DEF Advance, IInv, Reading
<1>2. PICK n \in Nat : n = Len(flight)
  BY InFlight DEF IInv
<1>3. flight \in Seq(FlightRecord) /\ DOMAIN flight = 1 .. n
  BY <1>2, InFlight DEF IInv
<1>4. /\ DOMAIN flight' = 1 .. n - 1 /\ Len(flight') = n - 1
      /\ \A i \in 1 .. n - 1 : flight'[i] = flight[i + 1]
  BY <1>1, <1>2, <1>3, HeadTailProperties, LenProperties
<1>5. Waiting \in Seq(Bodies) /\ Len(Waiting) = n /\ Waiting # <<>> /\ n >= 1
  BY <1>1, <1>2, <1>3, WaitingIsSeq, EmptySeq
<1>6. Waiting' \in Seq(Bodies) /\ Len(Waiting') = n - 1
  <2>1. \A i \in 1 .. n : flight[i].frame \in Frames
    BY <1>3, InFlight DEF IInv
  <2>2. \A i \in 1 .. n - 1 : flight'[i].frame \in Frames
    BY <1>2, <1>4, <2>1
  <2>3. Waiting' = [i \in 1 .. n - 1 |-> Body(flight'[i].frame)]
    BY <1>4 DEF Waiting, Body
  <2>4. Waiting' \in [1 .. n - 1 -> Bodies] /\ n - 1 \in Nat
    BY <1>2, <1>5, <2>2, <2>3 DEF Bodies
  <2> QED
    BY <2>4
<1>7. \A i \in 1 .. n - 1 : Waiting'[i] = Waiting[i + 1]
  <2>1. \A i \in 1 .. n - 1 : Waiting'[i] = Body(flight'[i].frame) /\ i + 1 \in 1 .. n
    BY <1>4 DEF Waiting
  <2>2. \A i \in 1 .. n : Waiting[i] = Body(flight[i].frame)
    BY <1>3 DEF Waiting
  <2> QED
    BY <1>4, <2>1, <2>2
<1>8. Waiting' = Tail(Waiting)
  <2> DEFINE a == Tail(Waiting)
  <2>1. a \in Seq(Bodies) /\ Len(a) = n - 1 /\ \A i \in 1 .. Len(a) : a[i] = Waiting[i + 1]
    BY <1>5, HeadTailProperties
  <2>2. \A i \in 1 .. n - 1 : Waiting'[i] = a[i]
    BY <1>7, <2>1
  <2> QED
    BY <1>6, <2>1, <2>2, SeqEqual
<1>9. Head(Waiting) = out
  <2>1. Head(Waiting) = Waiting[1] /\ 1 \in DOMAIN flight
    BY <1>3, <1>5
  <2> QED
    BY <1>1, <2>1 DEF Waiting
<1> QED
  BY <1>1, <1>5, <1>8, <1>9 DEF Channel!Receive, Waiting

(* Every step of the ring is one of the channel, or none: what was         *)
(* accepted is handed over whole, once and in order.                       *)
THEOREM RingIsAChannel == Spec => ImplementsChannel
<1>1. Init => Channel!Init
  <2> SUFFICES ASSUME Init PROVE Waiting = <<>> /\ got = <<>>
    BY DEF Channel!Init, Waiting
  <2>1. DOMAIN flight = {}
    BY DEF Init
  <2> QED
    BY <2>1 DEF Init, Waiting
<1>2. IInv /\ IInv' /\ [Next]_vars => [Channel!Next]_(Channel!channelVars)
  <2> SUFFICES ASSUME IInv, IInv', [Next]_vars
               PROVE  Channel!Next \/ UNCHANGED <<Waiting, got>>
    BY DEF Channel!channelVars, Waiting
  <2>1. CASE Publish
    <3>1. PICK m \in Bodies : m = Body(frame)
      BY DEF Bodies, IInv, TypeOK
    <3>2. Channel!Send(m)
      BY <2>1, <3>1, PublishSends DEF Channel!Send
    <3> QED
      BY <3>2 DEF Channel!Next, Bodies
  <2>2. CASE Advance
    BY <2>2, AdvanceReceives DEF Channel!Next
  <2>3. CASE ~Publish /\ ~Advance
    <3>1. UNCHANGED <<flight, got>>
      BY <2>3 DEF Next, Write, Read, Create, Open, LeaveProducer, CrashConsumer, LoadHead, Full,
                  PutLength, PutBody, LoadTail, Empty, GetLength, OutOfMemory, GetBody, vars, history
    <3> QED
      BY <3>1 DEF Waiting
  <2> QED
    BY <2>1, <2>2, <2>3
<1> QED
  BY Invariance, <1>1, <1>2, PTL DEF Spec, ImplementsChannel, Channel!Spec
=============================================================================
