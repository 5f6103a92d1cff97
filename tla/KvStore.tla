------------------------------- MODULE KvStore -------------------------------
(***************************************************************************)
(* The hash table of src/runtime/kv.c.  One step is what an operation does *)
(* between taking kv->lock and releasing it.  keys and sweep read the      *)
(* clock before they take the lock, so each is two steps.  An operation    *)
(* that reads the clock twice may find it moved in between.                *)
(***************************************************************************)
EXTENDS Naturals, FiniteSets

CONSTANTS Keys,
          Hash,        \* [Keys -> Nat]: hash_key
          Texts,       \* values that are not numbers
          MaxNumber,   \* bound on the numbers counters reach
          TTLs,        \* the ttl_ms that callers pass, 0 for ever
          MaxClock,    \* bound on nyxj_now_ms
          Buckets,     \* buckets at the start, 16 or more in the code
          Listers,     \* threads that list keys
          Sweepers     \* threads that sweep; the heartbeat is one

ASSUME KvAssumption ==
    /\ IsFiniteSet(Keys) /\ Hash \in [Keys -> Nat]
    /\ Texts \cap Nat = {} /\ TTLs \subseteq Nat
    /\ MaxNumber \in Nat \ {0} /\ MaxClock \in Nat
    /\ Buckets \in Nat \ {0}

VARIABLES clock,
          nbuckets, buckets,  \* the table: a set of entries per bucket
          count,
          reader,             \* reader[t]: what t does between its two steps, and its "now"
          reply,              \* what the last operation returned
          seen                \* history: the sets of live keys during a listing

vars == <<clock, nbuckets, buckets, count, reader, reply, seen>>

Threads == Listers \cup Sweepers
Numbers == 0 .. MaxNumber
Values  == Texts \cup Numbers
Entry   == [key : Keys, value : Values, expires : Nat]
Idle    == [op |-> "idle", now |-> 0]
Later   == clock .. MaxClock

Expired(e, now) == e.expires # 0 /\ e.expires <= now

Slot(k)  == Hash[k] % nbuckets
Chain(k) == {e \in buckets[Slot(k)] : e.key = k}
Found(k) == {e \in Chain(k) : ~Expired(e, clock)}

Live(bs, now) == {e.key : e \in {x \in UNION {bs[b] : b \in DOMAIN bs} : ~Expired(x, now)}}

(* Every step lets listings under way see the keys now alive.              *)
Witness == seen' = [t \in Listers |-> IF seen[t] = {} THEN {} ELSE seen[t] \cup {Live(buckets', clock')}]
Answer(op, found) == reply' = [op |-> op, found |-> found]

(* find_locked evicts the entry of k when it has expired; es replaces what *)
(* it found.                                                               *)
Rechain(k, es) == /\ buckets' = [buckets EXCEPT ![Slot(k)] = (@ \ Chain(k)) \cup es]
                  /\ count' = count - Cardinality(Chain(k)) + Cardinality(es)
                  /\ UNCHANGED <<nbuckets, reader>>

(* grow_locked: twice the buckets, every entry in the one its hash tells.  *)
SamePlace(bs) == [b \in 0 .. 2 * nbuckets - 1 |-> IF b < nbuckets THEN bs[b] ELSE {}]
Rehashed(bs)  == [b \in 0 .. 2 * nbuckets - 1 |-> {e \in bs[b % nbuckets] : Hash[e.key] % (2 * nbuckets) = b}]

(* The new entry of set_locked; calloc in grow_locked may fail, and the    *)
(* table then stays as it is.                                              *)
Insert(k, e) ==
    LET grown == [buckets EXCEPT ![Slot(k)] = (@ \ Chain(k)) \cup {e}]
        total == count - Cardinality(Chain(k)) + 1
    IN  /\ count' = total
        /\ \/ buckets' = grown /\ UNCHANGED nbuckets
           \/ /\ total > (nbuckets * 3) \div 4
              /\ buckets' = Rehashed(grown) /\ nbuckets' = 2 * nbuckets
        /\ UNCHANGED reader

Expiry(ttl, now) == IF ttl = 0 THEN 0 ELSE now + ttl

Init == /\ clock = 0
        /\ nbuckets = Buckets /\ buckets = [b \in 0 .. Buckets - 1 |-> {}] /\ count = 0
        /\ reader = [t \in Threads |-> Idle]
        /\ reply = [op |-> "none", found |-> {}]
        /\ seen = [t \in Listers |-> {}]

-----------------------------------------------------------------------------
(* nyxj_kv_set: an entry that is alive is overwritten, otherwise a new one *)
(* is made, or memory runs out.                                            *)
Set(k, v) == \E ttl \in TTLs, later \in Later :
    LET e == [key |-> k, value |-> v, expires |-> Expiry(ttl, later)]
    IN  /\ clock' = later
        /\ \/ Found(k) # {} /\ Rechain(k, {e}) /\ Answer("set", {TRUE})
           \/ Found(k) = {} /\ Insert(k, e) /\ Answer("set", {TRUE})
           \/ Found(k) = {} /\ Rechain(k, {}) /\ Answer("set", {FALSE})
        /\ Witness

Get(k) == /\ Rechain(k, Found(k)) /\ Answer("get", {e.value : e \in Found(k)})
          /\ UNCHANGED clock /\ Witness

Delete(k) == /\ Rechain(k, {}) /\ Answer("del", {Found(k) # {}})
             /\ UNCHANGED clock /\ Witness

Exists(k) == /\ Rechain(k, Found(k)) /\ Answer("exists", {Found(k) # {}})
             /\ UNCHANGED clock /\ Witness

(* nyxj_kv_incr by 1: the number in place, or a key that starts at 0.      *)
Increment(k) == \E later \in Later :
    /\ clock' = later
    /\ \/ \E e \in Found(k) : /\ e.value \in Numbers /\ e.value < MaxNumber
                              /\ Rechain(k, {[e EXCEPT !.value = @ + 1]})
                              /\ Answer("incr", {e.value + 1})
       \/ /\ \E e \in Found(k) : e.value \in Texts
          /\ later = clock
          /\ Rechain(k, Found(k)) /\ Answer("incr", {})
       \/ /\ Found(k) = {}
          /\ Insert(k, [key |-> k, value |-> 1, expires |-> 0]) /\ Answer("incr", {1})
       \/ /\ Found(k) = {} /\ later = clock
          /\ Rechain(k, {}) /\ Answer("incr", {})
    /\ Witness

Expire(k) == \E ttl \in TTLs, later \in Later :
    /\ clock' = later
    /\ Rechain(k, {[e EXCEPT !.expires = Expiry(ttl, later)] : e \in Found(k)})
    /\ Answer("expire", {Found(k) # {}})
    /\ Witness

(* nyxj_kv_ttl: nothing for a missing key (-2), <<>> for one without end   *)
(* (-1), <<0>> for one that expires between find_locked and the reading.   *)
Left(e, now) == IF e.expires = 0 THEN <<>> ELSE <<IF e.expires < now THEN 0 ELSE e.expires - now>>

TimeLeft(k) == \E later \in Later :
    /\ clock' = later
    /\ Rechain(k, Found(k)) /\ Answer("ttl", {Left(e, later) : e \in Found(k)})
    /\ Witness

Clear == /\ buckets' = [b \in DOMAIN buckets |-> {}] /\ count' = 0
         /\ UNCHANGED <<clock, nbuckets, reader, reply>> /\ Witness

-----------------------------------------------------------------------------
(* nyxj_kv_keys and nyxj_kv_sweep: the clock, then the lock.               *)
BeginKeys(t) == /\ reader[t].op = "idle"
                /\ reader' = [reader EXCEPT ![t] = [op |-> "keys", now |-> clock]]
                /\ seen' = [seen EXCEPT ![t] = {Live(buckets, clock)}]
                /\ UNCHANGED <<clock, nbuckets, buckets, count, reply>>

Stored(now) == {e.key : e \in UNION {buckets[b] : b \in DOMAIN buckets}}
Listed(now) == Live(buckets, now)

EndKeys(t) == /\ reader[t].op = "keys"
              /\ reader' = [reader EXCEPT ![t] = Idle]
              /\ Answer("keys", Listed(reader[t].now))
              /\ seen' = [seen EXCEPT ![t] = {}]
              /\ UNCHANGED <<clock, nbuckets, buckets, count>>

BeginSweep(t) == /\ reader[t].op = "idle"
                 /\ reader' = [reader EXCEPT ![t] = [op |-> "sweep", now |-> clock]]
                 /\ UNCHANGED <<clock, nbuckets, buckets, count, reply, seen>>

SkipsLast(b, now) == {e \in buckets[b] : b = nbuckets - 1 \/ ~Expired(e, now)}
Kept(b, now)      == {e \in buckets[b] : ~Expired(e, now)}
Examined(now)     == UNION {buckets[b] : b \in DOMAIN buckets}
Swept(now)        == UNION {buckets[b] \ Kept(b, now) : b \in DOMAIN buckets}

EndSweep(t) == /\ reader[t].op = "sweep"
               /\ reader' = [reader EXCEPT ![t] = Idle]
               /\ buckets' = [b \in DOMAIN buckets |-> Kept(b, reader[t].now)]
               /\ count' = count - Cardinality(Swept(reader[t].now))
               /\ UNCHANGED <<clock, nbuckets, reply>> /\ Witness

Tick == /\ clock < MaxClock
        /\ clock' = clock + 1
        /\ UNCHANGED <<nbuckets, buckets, count, reader, reply>> /\ Witness

Next == \/ \E k \in Keys : \/ Get(k) \/ Delete(k) \/ Exists(k) \/ Increment(k) \/ Expire(k) \/ TimeLeft(k)
                           \/ \E v \in Values : Set(k, v)
        \/ \E t \in Listers : BeginKeys(t) \/ EndKeys(t)
        \/ \E t \in Sweepers : BeginSweep(t) \/ EndSweep(t)
        \/ Clear \/ Tick

Spec == Init /\ [][Next]_vars

(* The heartbeat sweeps again and again.                                   *)
FairSpec == Spec /\ \A t \in Sweepers : WF_vars(BeginSweep(t) \/ EndSweep(t))

-----------------------------------------------------------------------------
TypeOK == /\ clock \in 0 .. MaxClock
          /\ nbuckets \in Nat \ {0} /\ buckets \in [0 .. nbuckets - 1 -> SUBSET Entry]
          /\ count \in Nat
          /\ reader \in [Threads -> [op : {"idle", "keys", "sweep"}, now : 0 .. MaxClock]]
          /\ reply.op \in {"none", "set", "get", "del", "exists", "incr", "expire", "ttl", "keys"}
          /\ seen \in [Listers -> SUBSET SUBSET Keys]

(* Whatever grew, was evicted or swept: every entry is in the bucket where *)
(* find_locked looks for it, a key has one entry, and count counts them.   *)
TableSound ==
    /\ TypeOK
    /\ \A b \in DOMAIN buckets : \A e \in buckets[b] : Hash[e.key] % nbuckets = b
    /\ \A b \in DOMAIN buckets : \A e, f \in buckets[b] : e.key = f.key => e = f
    /\ count = Cardinality(UNION {buckets[b] : b \in DOMAIN buckets})

(* The hash table with lazy eviction, sweeps and old clock readings is a   *)
(* map in which a key is gone the moment it expires.                       *)
Whole(k) == CHOOSE e \in UNION {buckets[b] : b \in DOMAIN buckets} : e.key = k
Table == INSTANCE KeyTable WITH
    table <- [k \in Live(buckets, clock) |-> [value |-> Whole(k).value, expires |-> Whole(k).expires]]

ImplementsTable == Table!Spec

(* What has expired does not stay for ever, even when nobody asks for it.  *)
Reclaimed ==
    \A e \in [key : Keys, value : Values, expires : 1 .. MaxClock] :
        (e \in UNION {buckets[b] : b \in DOMAIN buckets} /\ Expired(e, clock))
            ~> e \notin UNION {buckets[b] : b \in DOMAIN buckets}
=============================================================================
