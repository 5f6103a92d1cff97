-------------------------- MODULE KvSnapshot_proofs --------------------------
(***************************************************************************)
(* Theorems about KvSnapshot, for any keys, values and times to live, any  *)
(* number of crashes, and one thread that saves to the path, as the        *)
(* server does.  (Two of them share the temporary file.)                   *)
(*                                                                         *)
(* A file is never torn because the one being written is never the one     *)
(* under the snapshot's name; a time to live does not grow from one save   *)
(* to the next because an entry either was there when the save read the    *)
(* clock or was stored while it waited for the lock.                       *)
(***************************************************************************)
EXTENDS KvSnapshot, FiniteSetTheorems, TLAPS

(* What may be stored at a time, or written, when no save has waited for   *)
(* the lock for longer than d.                                             *)
GoodEntries(es, t, d) ==
    /\ DOMAIN es \subseteq Keys
    /\ \A k \in DOMAIN es :
         /\ es[k] \in [value : Values, expires : Nat]
         /\ IF es[k].value \in Mortal THEN es[k].expires \in 1 .. t + TTL + d
                                      ELSE es[k].expires = 0

GoodText(x, d) ==
    /\ DOMAIN x \subseteq Keys
    /\ \A k \in DOMAIN x :
         /\ x[k] \in [value : Values, ttl : Nat]
         /\ IF x[k].value \in Mortal THEN x[k].ttl \in 1 .. TTL + d ELSE x[k].ttl = 0

Types ==
    /\ up \in BOOLEAN /\ crashes \in 0 .. MaxCrashes /\ clock \in 0 .. MaxClock
    /\ pc \in [Savers -> {"idle", "copy", "open", "first", "rest", "remove", "rename"}]
    /\ now \in [Savers -> 0 .. MaxClock]
    /\ DOMAIN text = Savers
    /\ file \in [Savers -> Inodes \cup {None}]
    /\ path \in Inodes \cup {None} /\ tmp \in Inodes \cup {None}
    /\ DOMAIN disk = Inodes
    /\ \A i \in Inodes : disk[i] = [first |-> disk[i].first, rest |-> disk[i].rest]
    /\ saved \in BOOLEAN /\ gone \in BOOLEAN /\ delay \in 0 .. MaxClock

(* Which file the saver has open, and how far it has written it.           *)
Writing(s) ==
    /\ pc[s] \in {"first", "rest"} => tmp # None /\ file[s] = tmp
    /\ pc[s] \notin {"first", "rest"} => file[s] = None
    /\ pc[s] = "rest" => disk[tmp].first = {text[s]}
    /\ pc[s] \in {"remove", "rename"} => tmp # None /\ Whole(disk[tmp])
    /\ pc[s] = "rename" => path = None

Files ==
    /\ path # None => path # tmp /\ Whole(disk[path])
    /\ \A s \in Savers : Writing(s)

Missing == saved /\ path = None => gone \/ \E s \in Savers : pc[s] = "rename"

(* Nobody saves while the program is down.                                 *)
Quiet == ~up => \A s \in Savers : pc[s] = "idle"

(* Times to live.                                                          *)
Texts ==
    /\ \A s \in Savers : GoodText(text[s], delay)
    /\ \A i \in Inodes : \A x \in disk[i].first \cup disk[i].rest : GoodText(x, delay)

Waiting == \A s \in Savers : pc[s] = "copy" =>
    /\ now[s] <= clock
    /\ \A k \in DOMAIN entries : entries[k].value \in Mortal =>
         entries[k].expires <= now[s] + TTL + delay \/ entries[k].expires <= clock + TTL

IInv == Types /\ Files /\ Missing /\ Quiet /\ GoodEntries(entries, clock, delay) /\ Texts /\ Waiting
-----------------------------------------------------------------------------
(* One saver; the constants are what SnapshotAssumption says.              *)
One(s) == SnapshotAssumption /\ Savers = {s}

LEMMA ConstantFacts ==
    ASSUME NEW s, One(s)
    PROVE  /\ TTL \in Nat \ {0} /\ MaxClock \in Nat /\ MaxCrashes \in Nat
           /\ Inodes = 1 .. 2 /\ None \notin Inodes /\ None = 0 /\ s \in Savers
<1>1. Cardinality(Savers) = 1
  BY FS_Singleton DEF One
<1> QED
  BY <1>1 DEF One, SnapshotAssumption, Inodes, None

(* A longer wait allows more.                                              *)
LEMMA TextGrows ==
    ASSUME NEW x, NEW d \in Nat, NEW e \in Nat, d <= e, TTL \in Nat, GoodText(x, d)
    PROVE  GoodText(x, e)
BY DEF GoodText

LEMMA EntriesGrow ==
    ASSUME NEW es, NEW t \in Nat, NEW u \in Nat, NEW d \in Nat, NEW e \in Nat,
           t <= u, d <= e, TTL \in Nat, GoodEntries(es, t, d)
    PROVE  GoodEntries(es, u, e)
BY DEF GoodEntries

(* The store.                                                              *)
LEMMA SetStep ==
    ASSUME NEW s, One(s), IInv, NEW k \in Keys, NEW v \in Values, Set(k, v)
    PROVE  IInv'
<1>1. PICK e : e = [value |-> v, expires |-> IF v \in Mortal THEN clock + TTL ELSE 0]
  OBVIOUS
<1>2. /\ entries' = [x \in DOMAIN entries \cup {k} |-> IF x = k THEN e ELSE entries[x]]
      /\ UNCHANGED <<up, crashes, clock, pc, now, text, file, disk, path, tmp, saved, gone, delay>>
  BY <1>1 DEF Set, Put, process, saver, files, history
<1>3. clock \in Nat /\ delay \in Nat /\ TTL \in Nat \ {0}
  BY ConstantFacts DEF IInv, Types
<1>4. /\ e \in [value : Values, expires : Nat] /\ e.value = v
      /\ v \in Mortal => e.expires = clock + TTL /\ e.expires \in 1 .. clock + TTL + delay
      /\ v \notin Mortal => e.expires = 0
  BY <1>1, <1>3
<1>5. GoodEntries(entries', clock, delay)
  <2>1. DOMAIN entries' = DOMAIN entries \cup {k} /\ DOMAIN entries \subseteq Keys
    BY <1>2 DEF IInv, GoodEntries
  <2>2. ASSUME NEW x \in DOMAIN entries'
        PROVE  /\ entries'[x] \in [value : Values, expires : Nat]
               /\ IF entries'[x].value \in Mortal THEN entries'[x].expires \in 1 .. clock + TTL + delay
                                                  ELSE entries'[x].expires = 0
    <3>1. CASE x = k
      BY <1>2, <1>4, <3>1
    <3>2. CASE x # k
      BY <1>2, <3>2 DEF IInv, GoodEntries
    <3> QED
      BY <3>1, <3>2
  <2> QED
    BY <2>1, <2>2 DEF GoodEntries
<1>6. Types' /\ Files' /\ Missing' /\ Quiet' /\ Texts'
  BY <1>2 DEF IInv, Types, Files, Writing, Missing, Quiet, Texts, Inodes
<1>7. Waiting'
  BY <1>2, <1>3, <1>4 DEF IInv, Waiting
<1> QED
  BY <1>2, <1>5, <1>6, <1>7 DEF IInv

LEMMA DeleteStep ==
    ASSUME IInv, NEW k \in Keys, Delete(k)
    PROVE  IInv'
<1>1. /\ entries' = [x \in DOMAIN entries \ {k} |-> entries[x]]
      /\ UNCHANGED <<up, crashes, clock, pc, now, text, file, disk, path, tmp, saved, gone, delay>>
  BY DEF Delete, process, saver, files, history
<1>2. GoodEntries(entries', clock, delay)
  BY <1>1 DEF IInv, GoodEntries
<1>3. Types' /\ Files' /\ Missing' /\ Quiet' /\ Texts'
  BY <1>1 DEF IInv, Types, Files, Writing, Missing, Quiet, Texts, Inodes
<1>4. Waiting'
  BY <1>1 DEF IInv, Waiting
<1> QED
  BY <1>1, <1>2, <1>3, <1>4 DEF IInv

LEMMA TickStep ==
    ASSUME NEW s, One(s), IInv, Tick
    PROVE  IInv'
<1>1. /\ clock < MaxClock /\ clock' = clock + 1
      /\ UNCHANGED <<up, crashes, entries, pc, now, text, file, disk, path, tmp, saved, gone, delay>>
  BY DEF Tick, process, saver, files, history
<1>2. clock \in Nat /\ clock' \in Nat /\ clock <= clock' /\ delay \in Nat /\ TTL \in Nat /\ clock' \in 0 .. MaxClock
  BY <1>1, ConstantFacts DEF IInv, Types
<1>3. GoodEntries(entries', clock', delay')
  BY <1>1, <1>2, EntriesGrow DEF IInv
<1>4. Types' /\ Files' /\ Missing' /\ Quiet' /\ Texts'
  BY <1>1, <1>2 DEF IInv, Types, Files, Writing, Missing, Quiet, Texts, Inodes
<1>5. Waiting'
  <2>1. now \in [Savers -> Nat]
    BY ConstantFacts DEF IInv, Types
  <2>2. \A x \in DOMAIN entries : entries[x].expires \in Nat
    BY DEF IInv, GoodEntries
  <2> QED
    BY <1>1, <1>2, <2>1, <2>2 DEF IInv, Waiting
<1> QED
  BY <1>3, <1>4, <1>5 DEF IInv

-----------------------------------------------------------------------------
(* The save.                                                               *)
LEMMA BeginStep ==
    ASSUME NEW s, One(s), IInv, Begin(s)
    PROVE  IInv'
<1>1. /\ up /\ pc[s] = "idle" /\ now' = [now EXCEPT ![s] = clock] /\ pc' = [pc EXCEPT ![s] = "copy"]
      /\ UNCHANGED <<up, crashes, clock, entries, text, file, disk, path, tmp, saved, gone, delay>>
  BY DEF Begin, Goto, process, store, files, history
<1>2. Savers = {s} /\ clock \in Nat /\ delay \in Nat /\ TTL \in Nat
  BY ConstantFacts DEF One, IInv, Types
<1>3. Types'
  BY <1>1, <1>2 DEF IInv, Types, Inodes
<1>4. Files' /\ Missing' /\ Quiet' /\ Texts'
  BY <1>1, <1>2 DEF IInv, Types, Files, Writing, Missing, Quiet, Texts, Inodes
<1>5. Waiting'
  BY <1>1, <1>2 DEF IInv, Types, Waiting, GoodEntries
<1> QED
  BY <1>1, <1>3, <1>4, <1>5 DEF IInv

(* What is written of an entry.  One that was there when the save read the *)
(* clock has at most TTL + delay to go from then on; one that was stored   *)
(* while the save waited for the lock has TTL and the wait.                *)
LEMMA CopyStep ==
    ASSUME NEW s, One(s), IInv, Copy(s)
    PROVE  IInv'
<1>1. PICK t, x, d :
        /\ t = now[s] /\ d = delay'
        /\ x = [k \in {y \in DOMAIN entries : ~Skipped(entries[y], t)} |-> Record(entries[k], t)]
        /\ pc[s] = "copy" /\ text' = [text EXCEPT ![s] = x]
        /\ delay' = IF clock - t > delay THEN clock - t ELSE delay
        /\ now' = [now EXCEPT ![s] = 0] /\ pc' = [pc EXCEPT ![s] = "open"]
        /\ UNCHANGED <<up, crashes, clock, entries, file, disk, path, tmp, saved, gone>>
  BY DEF Copy, Goto, process, store, files
<1>2. /\ Savers = {s} /\ clock \in 0 .. MaxClock /\ delay \in 0 .. MaxClock /\ TTL \in Nat /\ MaxClock \in Nat
      /\ t \in Nat /\ t <= clock
  <2>1. Savers = {s} /\ s \in Savers /\ TTL \in Nat /\ MaxClock \in Nat
    BY ConstantFacts DEF One
  <2>2. clock \in 0 .. MaxClock /\ delay \in 0 .. MaxClock /\ now[s] \in 0 .. MaxClock
    BY <2>1 DEF IInv, Types
  <2>3. now[s] <= clock
    BY <1>1, <2>1 DEF IInv, Waiting
  <2> QED
    BY <1>1, <2>1, <2>2, <2>3
<1>3. d \in 0 .. MaxClock /\ delay <= d /\ clock - t <= d
  BY <1>1, <1>2
<1>4. GoodText(x, d)
  <2>1. DOMAIN x = {y \in DOMAIN entries : ~Skipped(entries[y], t)} /\ DOMAIN entries \subseteq Keys
    BY <1>1 DEF IInv, GoodEntries
  <2>2. ASSUME NEW k \in DOMAIN x
        PROVE  /\ x[k] \in [value : Values, ttl : Nat]
               /\ IF x[k].value \in Mortal THEN x[k].ttl \in 1 .. TTL + d ELSE x[k].ttl = 0
    <3>1. k \in DOMAIN entries /\ ~Skipped(entries[k], t) /\ x[k] = Record(entries[k], t)
      BY <1>1, <2>1
    <3>2. PICK v \in Values, e \in Nat : v = entries[k].value /\ e = entries[k].expires
      BY <3>1 DEF IInv, GoodEntries
    <3>3. x[k] = [value |-> v, ttl |-> IF e = 0 THEN 0 ELSE e - t] /\ (e = 0 \/ e > t)
      BY <1>2, <3>1, <3>2 DEF Record, Skipped, Expired
    <3>4. CASE v \in Mortal
      <4>1. e \in 1 .. clock + TTL + delay /\ (e <= t + TTL + delay \/ e <= clock + TTL)
        BY <1>1, <1>2, <3>1, <3>2, <3>4 DEF IInv, GoodEntries, Waiting
      <4>2. e - t \in 1 .. TTL + d /\ e # 0
        BY <1>2, <1>3, <3>3, <4>1
      <4> QED
        BY <3>3, <3>4, <4>2
    <3>5. CASE v \notin Mortal
      <4>1. e = 0
        BY <3>1, <3>2, <3>5 DEF IInv, GoodEntries
      <4> QED
        BY <3>3, <3>5, <4>1
    <3> QED
      BY <3>4, <3>5
  <2> QED
    BY <2>1, <2>2 DEF GoodText
<1>5. Types'
  <2>1. delay' \in 0 .. MaxClock /\ 0 \in 0 .. MaxClock
    BY <1>1, <1>2, <1>3
  <2>2. now' \in [Savers -> 0 .. MaxClock] /\ DOMAIN text' = Savers
    BY <1>1, <2>1 DEF IInv, Types
  <2> QED
    BY <1>1, <2>1, <2>2 DEF IInv, Types, Inodes
<1>6. Files' /\ Missing' /\ Quiet'
  BY <1>1, <1>2 DEF IInv, Types, Files, Writing, Missing, Quiet
<1>7. GoodEntries(entries', clock', delay')
  BY <1>1, <1>2, <1>3, EntriesGrow DEF IInv
<1>8. Texts'
  <2>1. \A i \in Inodes : \A y \in disk[i].first \cup disk[i].rest : GoodText(y, d)
    BY <1>2, <1>3, TextGrows DEF IInv, Texts
  <2>2. text'[s] = x
    BY <1>1, <1>2 DEF IInv, Types
  <2> QED
    BY <1>1, <1>2, <1>4, <2>1, <2>2 DEF Texts, Inodes
<1>9. Waiting'
  BY <1>1, <1>2 DEF IInv, Types, Waiting
<1> QED
  BY <1>5, <1>6, <1>7, <1>8, <1>9 DEF IInv

LEMMA GiveUpStep ==
    ASSUME NEW s, One(s), IInv, GiveUp(s)
    PROVE  IInv'
<1>1. /\ pc[s] = "open" /\ text' = [text EXCEPT ![s] = <<>>] /\ pc' = [pc EXCEPT ![s] = "idle"]
      /\ UNCHANGED <<up, crashes, clock, entries, now, file, disk, path, tmp, saved, gone, delay>>
  BY DEF GiveUp, Goto, process, store, files, history
<1>2. Savers = {s}
  BY DEF One
<1>3. GoodText(<<>>, delay)
  <2>1. DOMAIN <<>> = {}
    OBVIOUS
  <2> QED
    BY <2>1 DEF GoodText
<1>4. Types'
  BY <1>1 DEF IInv, Types, Inodes
<1>5. Files' /\ Missing' /\ Quiet' /\ Waiting'
  BY <1>1, <1>2 DEF IInv, Types, Files, Writing, Missing, Quiet, Waiting
<1>6. Texts'
  BY <1>1, <1>2, <1>3 DEF IInv, Types, Texts, Inodes
<1> QED
  BY <1>1, <1>4, <1>5, <1>6 DEF IInv

(* The temporary file is the old one or a new one, not the snapshot.       *)
LEMMA OpenStep ==
    ASSUME NEW s, One(s), IInv, Open(s)
    PROVE  IInv'
<1>1. PICK i \in Inodes :
        /\ pc[s] = "open" /\ (IF tmp # None THEN i = tmp ELSE Unused(i))
        /\ disk' = [disk EXCEPT ![i] = [first |-> {}, rest |-> {}]]
        /\ tmp' = i /\ file' = [file EXCEPT ![s] = i] /\ pc' = [pc EXCEPT ![s] = "first"]
        /\ UNCHANGED <<up, crashes, clock, entries, now, text, path, saved, gone, delay>>
  BY DEF Open, Goto, Target, Empty, process, store, history
<1>2. Savers = {s} /\ None \notin Inodes
  BY ConstantFacts DEF One
<1>3. i # path
  BY <1>1, <1>2 DEF IInv, Files, Unused
<1>4. Types'
  BY <1>1 DEF IInv, Types, Inodes
<1>5. Files'
  BY <1>1, <1>2, <1>3 DEF IInv, Types, Files, Writing
<1>6. Missing' /\ Quiet' /\ Waiting'
  BY <1>1, <1>2 DEF IInv, Types, Missing, Quiet, Waiting
<1>7. Texts'
  <2>1. \A h \in Inodes : disk'[h] = IF h = i THEN [first |-> {}, rest |-> {}] ELSE disk[h]
    BY <1>1 DEF IInv, Types
  <2> QED
    BY <1>1, <2>1 DEF IInv, Texts, Inodes
<1> QED
  BY <1>1, <1>4, <1>5, <1>6, <1>7 DEF IInv

LEMMA WriteFirstStep ==
    ASSUME NEW s, One(s), IInv, WriteFirst(s)
    PROVE  IInv'
<1>1. PICK i, x :
        /\ i = file[s] /\ x = text[s] /\ pc[s] = "first"
        /\ disk' = [disk EXCEPT ![i].first = {x}] /\ pc' = [pc EXCEPT ![s] = "rest"]
        /\ UNCHANGED <<up, crashes, clock, entries, now, text, file, path, tmp, saved, gone, delay>>
  BY DEF WriteFirst, Goto, process, store, history
<1>2. Savers = {s} /\ None \notin Inodes
  BY ConstantFacts DEF One
<1>3. i \in Inodes /\ i = tmp /\ i # path /\ GoodText(x, delay)
  BY <1>1, <1>2 DEF IInv, Types, Files, Writing, Texts
<1>4. /\ DOMAIN disk' = Inodes
      /\ \A h \in Inodes : disk'[h] = IF h = i THEN [first |-> {x}, rest |-> disk[i].rest] ELSE disk[h]
  <2>1. PICK a, b : disk[i] = [first |-> a, rest |-> b] /\ b = disk[i].rest
    BY <1>3 DEF IInv, Types
  <2>2. [disk[i] EXCEPT !.first = {x}] = [first |-> {x}, rest |-> b]
    BY <2>1
  <2>3. disk' = [disk EXCEPT ![i] = [disk[i] EXCEPT !.first = {x}]] /\ DOMAIN disk = Inodes
    BY <1>1 DEF IInv, Types
  <2> QED
    BY <1>3, <2>1, <2>2, <2>3
<1>5. Types'
  <2>1. \A h \in Inodes : disk'[h] = [first |-> disk'[h].first, rest |-> disk'[h].rest]
    BY <1>4 DEF IInv, Types
  <2> QED
    BY <1>1, <1>4, <2>1 DEF IInv, Types, Inodes
<1>6. Files'
  BY <1>1, <1>2, <1>3, <1>4 DEF IInv, Types, Files, Writing
<1>7. Missing' /\ Quiet' /\ Waiting'
  BY <1>1, <1>2 DEF IInv, Types, Missing, Quiet, Waiting
<1>8. Texts'
  BY <1>1, <1>3, <1>4 DEF IInv, Texts, Inodes
<1> QED
  BY <1>1, <1>5, <1>6, <1>7, <1>8 DEF IInv

LEMMA WriteRestStep ==
    ASSUME NEW s, One(s), IInv, WriteRest(s)
    PROVE  IInv'
<1>1. PICK i, x :
        /\ i = file[s] /\ x = text[s] /\ pc[s] = "rest"
        /\ disk' = [disk EXCEPT ![i].rest = {x}] /\ pc' = [pc EXCEPT ![s] = "remove"]
        /\ file' = [file EXCEPT ![s] = None] /\ text' = [text EXCEPT ![s] = <<>>]
        /\ UNCHANGED <<up, crashes, clock, entries, now, path, tmp, saved, gone, delay>>
  BY DEF WriteRest, Goto, process, store, history
<1>2. Savers = {s} /\ None \notin Inodes
  BY ConstantFacts DEF One
<1>3. i \in Inodes /\ i = tmp /\ i # path /\ GoodText(x, delay) /\ disk[i].first = {x}
  BY <1>1, <1>2 DEF IInv, Types, Files, Writing, Texts
<1>4. /\ DOMAIN disk' = Inodes
      /\ \A h \in Inodes : disk'[h] = IF h = i THEN [first |-> {x}, rest |-> {x}] ELSE disk[h]
  <2>1. PICK b : disk[i] = [first |-> {x}, rest |-> b]
    BY <1>3 DEF IInv, Types
  <2>2. [disk[i] EXCEPT !.rest = {x}] = [first |-> {x}, rest |-> {x}]
    BY <2>1
  <2>3. disk' = [disk EXCEPT ![i] = [disk[i] EXCEPT !.rest = {x}]] /\ DOMAIN disk = Inodes
    BY <1>1 DEF IInv, Types
  <2> QED
    BY <1>3, <2>1, <2>2, <2>3
<1>5. Types'
  <2>1. \A h \in Inodes : disk'[h] = [first |-> disk'[h].first, rest |-> disk'[h].rest]
    BY <1>4 DEF IInv, Types
  <2> QED
    BY <1>1, <1>4, <2>1 DEF IInv, Types, Inodes
<1>6. Whole(disk'[i])
  BY <1>3, <1>4 DEF Whole
<1>7. Files'
  <2>1. pc'[s] = "remove" /\ file'[s] = None
    BY <1>1, <1>2 DEF IInv, Types
  <2>2. Writing(s)'
    BY <1>1, <1>2, <1>3, <1>6, <2>1 DEF Writing
  <2>3. path # None => path # tmp /\ Whole(disk'[path])
    BY <1>3, <1>4 DEF IInv, Types, Files
  <2> QED
    BY <1>1, <1>2, <2>2, <2>3 DEF Files
<1>8. Missing' /\ Quiet' /\ Waiting'
  BY <1>1, <1>2 DEF IInv, Types, Missing, Quiet, Waiting
<1>9. Texts'
  <2>1. GoodText(<<>>, delay)
    <3>1. DOMAIN <<>> = {}
      OBVIOUS
    <3> QED
      BY <3>1 DEF GoodText
  <2>2. text'[s] = <<>>
    BY <1>1, <1>2 DEF IInv, Types
  <2>3. ASSUME NEW h \in Inodes, NEW y \in disk'[h].first \cup disk'[h].rest
        PROVE  GoodText(y, delay)
    <3>1. CASE h = i
      BY <1>3, <1>4, <3>1
    <3>2. CASE h # i
      BY <1>4, <3>2 DEF IInv, Texts
    <3> QED
      BY <3>1, <3>2
  <2> QED
    BY <1>1, <1>2, <2>1, <2>2, <2>3 DEF Texts, Inodes
<1> QED
  BY <1>1, <1>5, <1>7, <1>8, <1>9 DEF IInv

LEMMA WriteFailsStep ==
    ASSUME NEW s, One(s), IInv, WriteFails(s)
    PROVE  IInv'
<1>1. /\ pc[s] \in {"open", "first", "rest"} /\ tmp' = None /\ pc' = [pc EXCEPT ![s] = "idle"]
      /\ file' = [file EXCEPT ![s] = None] /\ text' = [text EXCEPT ![s] = <<>>]
      /\ UNCHANGED <<up, crashes, clock, entries, now, disk, path, saved, gone, delay>>
  BY DEF WriteFails, CleanUp, Goto, process, store, history
<1>2. Savers = {s} /\ None \notin Inodes
  BY ConstantFacts DEF One
<1>3. Types'
  BY <1>1 DEF IInv, Types, Inodes
<1>4. Files' /\ Missing' /\ Quiet' /\ Waiting'
  BY <1>1, <1>2 DEF IInv, Types, Files, Writing, Missing, Quiet, Waiting
<1>5. Texts'
  <2>1. GoodText(<<>>, delay)
    <3>1. DOMAIN <<>> = {}
      OBVIOUS
    <3> QED
      BY <3>1 DEF GoodText
  <2>2. text'[s] = <<>>
    BY <1>1, <1>2 DEF IInv, Types
  <2> QED
    BY <1>1, <1>2, <2>1, <2>2 DEF IInv, Texts, Inodes
<1> QED
  BY <1>1, <1>3, <1>4, <1>5 DEF IInv

LEMMA RemoveOldStep ==
    ASSUME NEW s, One(s), IInv, RemoveOld(s)
    PROVE  IInv'
<1>1. /\ pc[s] = "remove" /\ path' = None /\ pc' = [pc EXCEPT ![s] = "rename"]
      /\ UNCHANGED <<up, crashes, clock, entries, now, text, file, disk, tmp, saved, gone, delay>>
  BY DEF RemoveOld, Goto, process, store, history
<1>2. Savers = {s}
  BY DEF One
<1>3. Types' /\ Texts'
  BY <1>1 DEF IInv, Types, Texts, Inodes
<1>4. Files' /\ Missing' /\ Quiet' /\ Waiting'
  BY <1>1, <1>2 DEF IInv, Types, Files, Writing, Missing, Quiet, Waiting
<1> QED
  BY <1>1, <1>3, <1>4 DEF IInv

LEMMA RenameStep ==
    ASSUME NEW s, One(s), IInv, Rename(s) \/ RenameFails(s)
    PROVE  IInv'
<1>1. /\ pc[s] = "rename" /\ pc' = [pc EXCEPT ![s] = "idle"] /\ tmp' = None
      /\ \/ path' = tmp /\ tmp # None /\ saved' = TRUE /\ gone' = FALSE
         \/ path' = path /\ saved' = saved /\ gone' = (saved /\ path = None)
      /\ UNCHANGED <<up, crashes, clock, entries, now, text, file, disk, delay>>
  BY DEF Rename, RenameFails, CleanUp, Goto, process, store
<1>2. Savers = {s}
  BY DEF One
<1>3. Types' /\ Texts'
  BY <1>1 DEF IInv, Types, Texts, Inodes
<1>4. Files' /\ Missing' /\ Quiet' /\ Waiting'
  BY <1>1, <1>2 DEF IInv, Types, Files, Writing, Missing, Quiet, Waiting
<1> QED
  BY <1>1, <1>3, <1>4 DEF IInv

-----------------------------------------------------------------------------
(* The program dies, and comes back.                                       *)
LEMMA DieStep ==
    ASSUME NEW s, One(s), IInv, Die
    PROVE  IInv'
<1>1. /\ crashes < MaxCrashes /\ up' = FALSE /\ crashes' = crashes + 1 /\ entries' = <<>>
      /\ pc' = [x \in Savers |-> "idle"] /\ file' = [x \in Savers |-> None]
      /\ now' = [x \in Savers |-> 0] /\ text' = [x \in Savers |-> <<>>]
      /\ gone' = (saved /\ path = None) /\ UNCHANGED <<clock, disk, path, tmp, saved, delay>>
  BY DEF Die, files
<1>2. /\ DOMAIN <<>> = {} /\ MaxClock \in Nat /\ MaxCrashes \in Nat /\ 0 \in 0 .. MaxClock
      /\ crashes' \in 0 .. MaxCrashes
  BY <1>1, ConstantFacts DEF IInv, Types
<1>3. Types'
  BY <1>1, <1>2 DEF IInv, Types, Inodes
<1>4. Files' /\ Missing' /\ Quiet' /\ Waiting'
  BY <1>1 DEF IInv, Types, Files, Writing, Missing, Quiet, Waiting
<1>5. GoodEntries(entries', clock', delay') /\ Texts'
  BY <1>1, <1>2 DEF IInv, GoodEntries, GoodText, Texts, Inodes
<1> QED
  BY <1>3, <1>4, <1>5 DEF IInv

LEMMA RestartStep ==
    ASSUME NEW s, One(s), IInv, Restart
    PROVE  IInv'
<1>1. /\ ~up /\ up' = TRUE
      /\ UNCHANGED <<crashes, clock, pc, now, text, file, disk, path, tmp, saved, gone, delay>>
  BY DEF Restart, saver, files, history
<1>2. clock \in Nat /\ delay \in Nat /\ TTL \in Nat \ {0}
  BY ConstantFacts DEF IInv, Types
<1>3. GoodEntries(entries', clock, delay)
  <2>1. CASE path # None /\ Whole(disk[path])
    <3>1. PICK snap : /\ snap \in disk[path].first
                      /\ entries' = [k \in DOMAIN snap |-> Entry(snap[k], clock)]
      BY <2>1 DEF Restart, Whole
    <3>2. GoodText(snap, delay)
      BY <2>1, <3>1 DEF IInv, Types, Texts
    <3>3. ASSUME NEW k \in DOMAIN snap
          PROVE  /\ entries'[k] \in [value : Values, expires : Nat]
                 /\ IF entries'[k].value \in Mortal THEN entries'[k].expires \in 1 .. clock + TTL + delay
                                                    ELSE entries'[k].expires = 0
      <4>1. PICK v \in Values, t \in Nat : snap[k] = [value |-> v, ttl |-> t]
        BY <3>2 DEF GoodText
      <4>2. entries'[k] = [value |-> v, expires |-> IF t = 0 THEN 0 ELSE clock + t]
        BY <3>1, <4>1 DEF Entry
      <4>3. IF v \in Mortal THEN t \in 1 .. TTL + delay ELSE t = 0
        BY <3>2, <4>1 DEF GoodText
      <4> QED
        BY <1>2, <4>2, <4>3
    <3> QED
      BY <3>1, <3>2, <3>3 DEF GoodEntries, GoodText
  <2>2. CASE ~(path # None /\ Whole(disk[path]))
    <3>1. entries' = <<>> /\ DOMAIN <<>> = {}
      BY <2>2 DEF Restart
    <3> QED
      BY <3>1 DEF GoodEntries
  <2> QED
    BY <2>1, <2>2
<1>4. Types' /\ Files' /\ Missing' /\ Quiet' /\ Texts'
  BY <1>1 DEF IInv, Types, Files, Writing, Missing, Quiet, Texts, Inodes
<1>5. Waiting'
  BY <1>1 DEF IInv, Quiet, Waiting
<1> QED
  BY <1>1, <1>3, <1>4, <1>5 DEF IInv

LEMMA InitHolds ==
    ASSUME NEW s, One(s), Init
    PROVE  IInv
<1>1. /\ DOMAIN <<>> = {} /\ MaxClock \in Nat /\ MaxCrashes \in Nat
      /\ 0 \in 0 .. MaxClock /\ 0 \in 0 .. MaxCrashes
  BY ConstantFacts
<1>2. Types
  BY <1>1 DEF Init, Types, Empty
<1>3. Files /\ Missing /\ Quiet /\ Waiting
  BY DEF Init, Files, Writing, Missing, Quiet, Waiting
<1>4. GoodEntries(entries, clock, delay) /\ Texts
  BY <1>1 DEF Init, GoodEntries, GoodText, Texts, Empty
<1> QED
  BY <1>2, <1>3, <1>4 DEF IInv

(* Files, entries and what is being saved agree wherever nyxj_kv_save is,  *)
(* and wherever the program dies in it, if one thread saves.               *)
THEOREM Invariance ==
    ASSUME NEW s, One(s)
    PROVE  Spec => []IInv
<1>1. ASSUME IInv, Next PROVE IInv'
  <2>1. Savers = {s}
    BY DEF One
  <2>2. CASE \E k \in Keys : Delete(k) \/ \E v \in Values : Set(k, v)
    BY <1>1, <2>2, DeleteStep, SetStep
  <2>3. CASE Tick \/ Die \/ Restart
    BY <1>1, <2>3, TickStep, DieStep, RestartStep
  <2>4. CASE Save(s)
    BY <1>1, <2>4, BeginStep, CopyStep, GiveUpStep, OpenStep, WriteFirstStep, WriteRestStep,
       WriteFailsStep, RemoveOldStep, RenameStep DEF Save
  <2> QED
    BY <1>1, <2>1, <2>2, <2>3, <2>4 DEF Next
<1>2. ASSUME IInv, UNCHANGED vars PROVE IInv'
  <2>1. UNCHANGED <<up, crashes, clock, entries, pc, now, text, file, disk, path, tmp, saved, gone, delay>>
    BY <1>2 DEF vars, process, store, saver, files, history
  <2>2. Types' /\ Files' /\ Missing' /\ Quiet'
    BY <1>2, <2>1 DEF IInv, Types, Files, Writing, Missing, Quiet, Inodes
  <2>3. GoodEntries(entries', clock', delay') /\ Texts' /\ Waiting'
    BY <1>2, <2>1 DEF IInv, Texts, Waiting, Inodes
  <2> QED
    BY <2>2, <2>3 DEF IInv
<1>3. Init => IInv
  BY InitHolds
<1> QED
  BY <1>1, <1>2, <1>3, PTL DEF Spec

(* However often the program dies: under the name of the snapshot there is *)
(* no file or a complete one; once there was one it is missing only        *)
(* between the remove and the rename of nyxj_kv_save, or when the program  *)
(* ended or the rename failed there; and nothing lives longer through a    *)
(* save and a load than it was given and the save waited for the lock.     *)
THEOREM SnapshotsAreSound ==
    ASSUME NEW s, One(s)
    PROVE  Spec => []SnapshotSound
<1>1. ASSUME IInv PROVE SnapshotSound
  <2>1. TypeOK
    BY <1>1 DEF IInv, Types, GoodEntries, Texts, GoodText, TypeOK
  <2>2. NeverTorn /\ MissingOnlyInTheWindow
    BY <1>1 DEF IInv, Files, Missing, NeverTorn, MissingOnlyInTheWindow
  <2>3. LivesAsLongAsGiven
    BY <1>1 DEF IInv, GoodEntries, LivesAsLongAsGiven
  <2> QED
    BY <2>1, <2>2, <2>3 DEF SnapshotSound
<1> QED
  BY <1>1, Invariance, PTL
=============================================================================
