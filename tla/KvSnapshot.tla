----------------------------- MODULE KvSnapshot -----------------------------
(***************************************************************************)
(* nyxj_kv_save and nyxj_kv_load of src/runtime/kv.c over the life of a    *)
(* program that dies and comes back: the clock reading, the copy under the *)
(* lock, the temporary file, the removal of the old snapshot, the rename.  *)
(*                                                                         *)
(* The table is a map that may still hold what has expired (KvStore says   *)
(* how); the clock is the machine's and survives the program.  A file is   *)
(* two halves, the grain at which writers can be cut off or mixed.         *)
(***************************************************************************)
EXTENDS Naturals, FiniteSets

CONSTANTS Keys,
          Lasting,     \* values stored for ever
          Mortal,      \* values stored with a time to live
          TTL,         \* that time to live
          Savers,      \* the threads that save to the one path
          MaxClock,    \* bound on the clock
          MaxCrashes   \* bound on the ends of the program, clean or not

SnapshotAssumption ==
    /\ Lasting \cap Mortal = {}
    /\ TTL \in Nat \ {0} /\ MaxClock \in Nat /\ MaxCrashes \in Nat
    /\ IsFiniteSet(Savers) /\ Savers # {}

VARIABLES up, crashes,        \* the program
          clock, entries,     \* the store: key -> [value, expires]
          pc, now, text,      \* nyxj_kv_save of each saver
          file,               \* file[s]: the inode that s has opened
          disk, path, tmp,    \* contents of inodes; inode under each name
          saved, gone, delay  \* history: a save was renamed into place; it was then lost
                              \* between remove and rename; the longest wait for the lock

process == <<up, crashes>>
store   == <<clock, entries>>
saver   == <<pc, now, text, file>>
files   == <<disk, path, tmp>>
history == <<saved, gone, delay>>
vars    == <<process, store, saver, files, history>>

Values == Lasting \cup Mortal
None   == 0
Inodes == 1 .. Cardinality(Savers) + 1
(* Each half of a file holds nothing or the text of a saver.               *)
Empty  == [first |-> {}, rest |-> {}]
Whole(f) == f.first # {} /\ f.first = f.rest

Expired(e, t) == e.expires # 0 /\ e.expires <= t

(* What is written for one entry, and what is read back.  No ttl_ms and a  *)
(* ttl_ms of 0 both mean for ever.                                         *)
Skipped(e, t)  == Expired(e, t)
Record(e, t) == [value |-> e.value, ttl |-> IF e.expires = 0 THEN 0 ELSE e.expires - t]
Entry(r, t)  == [value |-> r.value, expires |-> IF r.ttl = 0 THEN 0 ELSE t + r.ttl]

Init == /\ up = TRUE /\ crashes = 0
        /\ clock = 0 /\ entries = <<>>
        /\ pc = [s \in Savers |-> "idle"] /\ now = [s \in Savers |-> 0]
        /\ text = [s \in Savers |-> <<>>] /\ file = [s \in Savers |-> None]
        /\ disk = [i \in Inodes |-> Empty] /\ path = None /\ tmp = None
        /\ saved = FALSE /\ gone = FALSE /\ delay = 0

-----------------------------------------------------------------------------
(* nyxj_kv_set and nyxj_kv_del; sweep and lazy eviction.                   *)
Put(k, e) == [x \in DOMAIN entries \cup {k} |-> IF x = k THEN e ELSE entries[x]]

Set(k, v) == /\ up
             /\ entries' = Put(k, [value |-> v, expires |-> IF v \in Mortal THEN clock + TTL ELSE 0])
             /\ UNCHANGED <<process, clock, saver, files, history>>

Delete(k) == /\ up /\ k \in DOMAIN entries
             /\ entries' = [x \in DOMAIN entries \ {k} |-> entries[x]]
             /\ UNCHANGED <<process, clock, saver, files, history>>

Tick == /\ clock < MaxClock
        /\ clock' = clock + 1
        /\ UNCHANGED <<process, entries, saver, files, history>>

-----------------------------------------------------------------------------
Goto(s, l) == pc' = [pc EXCEPT ![s] = l]

Begin(s) == /\ up /\ pc[s] = "idle"
            /\ now' = [now EXCEPT ![s] = clock] /\ Goto(s, "copy")
            /\ UNCHANGED <<process, store, text, file, files, history>>

Copy(s) == /\ pc[s] = "copy"
           /\ text' = [text EXCEPT ![s] =
                  [k \in {x \in DOMAIN entries : ~Skipped(entries[x], now[s])} |-> Record(entries[k], now[s])]]
           /\ delay' = IF clock - now[s] > delay THEN clock - now[s] ELSE delay
           /\ now' = [now EXCEPT ![s] = 0] /\ Goto(s, "open")
           /\ UNCHANGED <<process, store, file, files, saved, gone>>

(* No memory for the text or the name of the temporary file.               *)
GiveUp(s) == /\ pc[s] = "open"
             /\ text' = [text EXCEPT ![s] = <<>>] /\ Goto(s, "idle")
             /\ UNCHANGED <<process, store, now, file, files, history>>

(* fopen(tmp, "wb") truncates the file of that name or makes a new one.    *)
Unused(i) == i # path /\ i # tmp /\ \A s \in Savers : file[s] # i

InPlace == path
Target  == tmp

Open(s) == /\ pc[s] = "open"
           /\ \E i \in Inodes :
                  /\ IF Target # None THEN i = Target ELSE Unused(i)
                  /\ disk' = [disk EXCEPT ![i] = Empty]
                  /\ tmp' = i /\ file' = [file EXCEPT ![s] = i]
           /\ Goto(s, "first")
           /\ UNCHANGED <<process, store, now, text, path, history>>

WriteFirst(s) == /\ pc[s] = "first"
                 /\ disk' = [disk EXCEPT ![file[s]].first = {text[s]}]
                 /\ Goto(s, "rest")
                 /\ UNCHANGED <<process, store, now, text, file, path, tmp, history>>

WriteRest(s) == /\ pc[s] = "rest"
                /\ disk' = [disk EXCEPT ![file[s]].rest = {text[s]}]
                /\ Goto(s, "remove")
                /\ file' = [file EXCEPT ![s] = None] /\ text' = [text EXCEPT ![s] = <<>>]
                /\ UNCHANGED <<process, store, now, path, tmp, history>>

(* fopen, fwrite or fclose fails: remove(tmp).                             *)
CleanUp   == tmp' = None /\ UNCHANGED path

WriteFails(s) == /\ pc[s] \in {"open", "first", "rest"}
                 /\ CleanUp
                 /\ file' = [file EXCEPT ![s] = None] /\ text' = [text EXCEPT ![s] = <<>>]
                 /\ Goto(s, "idle")
                 /\ UNCHANGED <<process, store, now, disk, history>>

RemoveOld(s) == /\ pc[s] = "remove"
                /\ path' = None /\ Goto(s, "rename")
                /\ UNCHANGED <<process, store, now, text, file, disk, tmp, history>>

Rename(s) == /\ pc[s] = "rename" /\ tmp # None
             /\ path' = tmp /\ tmp' = None
             /\ saved' = TRUE /\ gone' = FALSE
             /\ Goto(s, "idle")
             /\ UNCHANGED <<process, store, now, text, file, disk, delay>>

(* rename fails, at least when another saver took the file: remove(tmp).   *)
RenameFails(s) == /\ pc[s] = "rename"
                  /\ CleanUp /\ gone' = (saved /\ path = None)
                  /\ Goto(s, "idle")
                  /\ UNCHANGED <<process, store, now, text, file, disk, saved, delay>>

-----------------------------------------------------------------------------
(* The program ends at any point; what it wrote stays.                     *)
Die == /\ up /\ crashes < MaxCrashes
       /\ up' = FALSE /\ crashes' = crashes + 1
       /\ entries' = <<>>
       /\ pc' = [s \in Savers |-> "idle"] /\ file' = [s \in Savers |-> None]
       /\ now' = [s \in Savers |-> 0] /\ text' = [s \in Savers |-> <<>>]
       /\ gone' = (saved /\ path = None)
       /\ UNCHANGED <<clock, files, saved, delay>>

(* It starts again and loads; a missing or torn snapshot gives an empty    *)
(* store.                                                                  *)
Restart == /\ ~up /\ up' = TRUE
           /\ entries' = IF path # None /\ Whole(disk[path])
                         THEN LET snap == CHOOSE x \in disk[path].first : TRUE
                              IN  [k \in DOMAIN snap |-> Entry(snap[k], clock)]
                         ELSE <<>>
           /\ UNCHANGED <<crashes, clock, saver, files, history>>

Save(s) == \/ Begin(s) \/ Copy(s) \/ GiveUp(s) \/ Open(s) \/ WriteFirst(s) \/ WriteRest(s) \/ WriteFails(s)
           \/ RemoveOld(s) \/ Rename(s) \/ RenameFails(s)

Next == \/ \E k \in Keys : Delete(k) \/ \E v \in Values : Set(k, v)
        \/ Tick \/ Die \/ Restart
        \/ \E s \in Savers : Save(s)

Spec == Init /\ [][Next]_vars

-----------------------------------------------------------------------------
TypeOK == /\ up \in BOOLEAN /\ crashes \in 0 .. MaxCrashes /\ clock \in 0 .. MaxClock
          /\ DOMAIN entries \subseteq Keys
          /\ \A k \in DOMAIN entries : entries[k] \in [value : Values, expires : Nat]
          /\ pc \in [Savers -> {"idle", "copy", "open", "first", "rest", "remove", "rename"}]
          /\ now \in [Savers -> 0 .. MaxClock]
          /\ \A s \in Savers : \A k \in DOMAIN text[s] : text[s][k] \in [value : Values, ttl : Nat]
          /\ file \in [Savers -> Inodes \cup {None}]
          /\ path \in Inodes \cup {None} /\ tmp \in Inodes \cup {None}
          /\ DOMAIN disk = Inodes
          /\ saved \in BOOLEAN /\ gone \in BOOLEAN /\ delay \in 0 .. MaxClock

(* "a crash never leaves a torn snapshot": under the name of the snapshot  *)
(* there is none or a complete one, at every moment, hence after a crash.  *)
NeverTorn == path # None => Whole(disk[path])

(* Once there was a snapshot there is one, but between remove and rename   *)
(* and when a crash or a failure fell just there.                          *)
MissingOnlyInTheWindow ==
    saved /\ path = None => gone \/ \E s \in Savers : pc[s] = "rename"

(* What was stored for a time is never restored for ever, nor for longer   *)
(* than it was given and the save waited for the lock; and what was stored *)
(* for ever is never restored for a time.                                  *)
LivesAsLongAsGiven ==
    \A k \in DOMAIN entries :
        IF entries[k].value \in Mortal THEN entries[k].expires \in 1 .. clock + TTL + delay
                                      ELSE entries[k].expires = 0

(* All of this together.                                                   *)
SnapshotSound == TypeOK /\ NeverTorn /\ MissingOnlyInTheWindow /\ LivesAsLongAsGiven
=============================================================================
