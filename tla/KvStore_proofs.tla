---------------------------- MODULE KvStore_proofs ----------------------------
(***************************************************************************)
(* Theorems about KvStore, for any keys, any hash function, any values and *)
(* times to live, and any number of threads that list and sweep.  Apart    *)
(* from the table's own shape the argument looks at the set of entries     *)
(* only: what an operation takes out of it and puts into it, and which of  *)
(* them are alive.                                                         *)
(***************************************************************************)
EXTENDS KvStore, FiniteSetTheorems, TLAPS

Everything(bs) == UNION {bs[b] : b \in DOMAIN bs}
Entries        == Everything(buckets)

(* The shape of n buckets: an entry is where its hash tells, and the only   *)
(* one of its key.                                                         *)
Placed(bs, n) ==
    /\ bs \in [0 .. n - 1 -> SUBSET Entry]
    /\ \A b \in 0 .. n - 1 : \A e \in bs[b] : Hash[e.key] % n = b
    /\ \A b \in 0 .. n - 1 : \A e, f \in bs[b] : e.key = f.key => e = f

Counted == IsFiniteSet(Entries) /\ count = Cardinality(Entries)

Of(E, k)    == {e \in E : e.key = k}
Others(E, k) == {e \in E : e.key # k}
Unique(E)   == \A e, f \in E : e.key = f.key => e = f

-----------------------------------------------------------------------------
(* Buckets, whatever they hold.                                            *)
LEMMA ModUnique ==
    ASSUME NEW n \in Nat \ {0}, NEW q \in Int, NEW r \in 0 .. n - 1, NEW m \in Nat, m = n * q + r
    PROVE  m % n = r
OBVIOUS

LEMMA ModDouble ==
    ASSUME NEW n \in Nat \ {0}, NEW h \in Nat
    PROVE  /\ h % (2 * n) \in 0 .. 2 * n - 1 /\ h % n \in 0 .. n - 1
           /\ (h % (2 * n)) % n = h % n
<1>1. PICK m \in Nat \ {0} : m = 2 * n
  OBVIOUS
<1>2. PICK q \in Int, r \in 0 .. m - 1 : r = h % m /\ h = m * q + r
  BY <1>1
<1>3. h % n \in 0 .. n - 1
  OBVIOUS
<1>4. m * q = n * (2 * q) /\ 2 * q \in Int
  BY <1>1, <1>2
<1>5. CASE r < n
  <2>1. h = n * (2 * q) + r /\ r \in 0 .. n - 1
    BY <1>2, <1>4, <1>5
  <2>2. h % n = r
    BY <1>4, <2>1, ModUnique
  <2>3. r = n * 0 + r /\ r \in Nat
    BY <1>2
  <2>4. r % n = r
    BY <2>1, <2>3, ModUnique
  <2> QED
    BY <1>1, <1>2, <1>3, <2>2, <2>4
<1>6. CASE ~(r < n)
  <2>1. PICK x \in 0 .. n - 1 : x = r - n
    BY <1>1, <1>2, <1>6
  <2>2. n * (2 * q + 1) = n * (2 * q) + n /\ 2 * q + 1 \in Int
    BY <1>4
  <2>3. h = n * (2 * q + 1) + x
    BY <1>2, <1>4, <2>1, <2>2
  <2>4. h % n = x
    BY <2>2, <2>3, ModUnique
  <2>5. r = n * 1 + x /\ r \in Nat
    BY <1>2, <2>1
  <2>6. r % n = x
    BY <2>5, ModUnique
  <2> QED
    BY <1>1, <1>2, <1>3, <2>4, <2>6
<1> QED
  BY <1>5, <1>6

LEMMA HashRange ==
    ASSUME NEW n \in Nat \ {0}, NEW k \in Keys
    PROVE  Hash[k] \in Nat /\ Hash[k] % n \in 0 .. n - 1
BY KvAssumption

LEMMA PlacedFacts ==
    ASSUME NEW n \in Nat \ {0}, NEW bs, Placed(bs, n)
    PROVE  /\ DOMAIN bs = 0 .. n - 1
           /\ Everything(bs) \subseteq Entry /\ Unique(Everything(bs))
           /\ \A k \in Keys : Of(bs[Hash[k] % n], k) = Of(Everything(bs), k)
<1>1. DOMAIN bs = 0 .. n - 1 /\ \A b \in 0 .. n - 1 : bs[b] \subseteq Entry
  BY DEF Placed
<1>2. \A e : e \in Everything(bs) <=> \E b \in 0 .. n - 1 : e \in bs[b]
  BY <1>1 DEF Everything
<1>3. Everything(bs) \subseteq Entry
  BY <1>1, <1>2
<1>4. \A e \in Everything(bs) : e.key \in Keys /\ Hash[e.key] % n \in 0 .. n - 1 /\ e \in bs[Hash[e.key] % n]
  BY <1>2, <1>3, HashRange DEF Placed, Entry
<1>5. Unique(Everything(bs))
  BY <1>4 DEF Unique, Placed
<1>6. ASSUME NEW k \in Keys PROVE Of(bs[Hash[k] % n], k) = Of(Everything(bs), k)
  BY <1>2, <1>4, HashRange DEF Of
<1> QED
  BY <1>1, <1>3, <1>5, <1>6

(* What an operation leaves of a key: one entry or none.                   *)
AtMostOne(es, k) == es \subseteq Entry /\ (\A e \in es : e.key = k) /\ \A e, f \in es : e = f

(* The entries of a key are replaced, in the bucket s where they are.      *)
Replaced(bs, s, k, es) == [bs EXCEPT ![s] = (@ \ Of(bs[s], k)) \cup es]

LEMMA Replacing ==
    ASSUME NEW n \in Nat \ {0}, NEW bs, Placed(bs, n), NEW k \in Keys,
           NEW es, AtMostOne(es, k), NEW s, s = Hash[k] % n,
           NEW cs, cs = Replaced(bs, s, k, es)
    PROVE  Placed(cs, n) /\ Everything(cs) = Others(Everything(bs), k) \cup es
<1>0. es \subseteq Entry /\ (\A e \in es : e.key = k) /\ \A e, f \in es : e = f
  BY DEF AtMostOne
<1>1. s \in 0 .. n - 1
  BY HashRange
<1>2. /\ DOMAIN bs = 0 .. n - 1 /\ DOMAIN cs = 0 .. n - 1
      /\ \A b \in 0 .. n - 1 : bs[b] \subseteq Entry
      /\ \A b \in 0 .. n - 1 : cs[b] = IF b = s THEN Others(bs[s], k) \cup es ELSE bs[b]
  BY <1>1 DEF Placed, Of, Others, Replaced
<1>3. Placed(cs, n)
  <2>1. cs \in [0 .. n - 1 -> SUBSET Entry]
    <3>1. cs = [b \in 0 .. n - 1 |-> cs[b]]
      BY <1>2 DEF Replaced, Placed
    <3>2. \A b \in 0 .. n - 1 : cs[b] \subseteq Entry
      BY <1>0, <1>1, <1>2 DEF Others
    <3> QED
      BY <3>1, <3>2
  <2>2. \A b \in 0 .. n - 1 : \A e \in cs[b] : Hash[e.key] % n = b
    BY <1>0, <1>2 DEF Others, Placed
  <2>3. ASSUME NEW b \in 0 .. n - 1, NEW e \in cs[b], NEW f \in cs[b], e.key = f.key
        PROVE  e = f
    <3>1. CASE b = s
      <4>1. /\ e \in es \/ (e \in bs[s] /\ e.key # k)
            /\ f \in es \/ (f \in bs[s] /\ f.key # k)
        BY <1>1, <1>2, <3>1 DEF Others
      <4>2. CASE e \in es \/ f \in es
        BY <1>0, <2>3, <4>1, <4>2
      <4>3. CASE e \notin es /\ f \notin es
        BY <1>1, <2>3, <4>1, <4>3 DEF Placed
      <4> QED
        BY <4>2, <4>3
    <3>2. CASE b # s
      BY <1>2, <2>3, <3>2 DEF Placed
    <3> QED
      BY <3>1, <3>2
  <2> QED
    BY <2>1, <2>2, <2>3 DEF Placed
<1>4. \A e : e \in Everything(cs) <=> \E b \in 0 .. n - 1 : e \in cs[b]
  BY <1>2 DEF Everything
<1>5. \A e : e \in Everything(bs) <=> \E b \in 0 .. n - 1 : e \in bs[b]
  BY <1>2 DEF Everything
<1>6. \A b \in 0 .. n - 1 : \A e \in bs[b] : e.key = k => b = s
  BY DEF Placed
<1>7. ASSUME NEW e PROVE e \in Everything(cs) <=> e \in Others(Everything(bs), k) \cup es
  <2>1. CASE e \in es
    BY <1>1, <1>2, <1>4, <2>1
  <2>2. CASE e \notin es
    <3>1. \A b \in 0 .. n - 1 : e \in cs[b] <=> e \in bs[b] /\ e.key # k
      BY <1>0, <1>1, <1>2, <1>6, <2>2 DEF Others
    <3> QED
      BY <1>4, <1>5, <2>2, <3>1 DEF Others
  <2> QED
    BY <2>1, <2>2
<1> QED
  BY <1>3, <1>7

(* The table grows: twice the buckets, the same entries.                   *)
LEMMA Doubling ==
    ASSUME NEW n \in Nat \ {0}, NEW bs, Placed(bs, n),
           NEW cs, cs = [b \in 0 .. 2 * n - 1 |-> {e \in bs[b % n] : Hash[e.key] % (2 * n) = b}]
    PROVE  Placed(cs, 2 * n) /\ Everything(cs) = Everything(bs)
<1>1. DOMAIN bs = 0 .. n - 1 /\ \A b \in 0 .. n - 1 : bs[b] \subseteq Entry
  BY DEF Placed
<1>2. \A b \in 0 .. 2 * n - 1 : b % n \in 0 .. n - 1
  OBVIOUS
<1>3. Placed(cs, 2 * n)
  BY <1>1, <1>2 DEF Placed
<1>4. ASSUME NEW e \in Everything(cs) PROVE e \in Everything(bs)
  BY <1>1, <1>2, SMTT(30) DEF Everything
<1>5. ASSUME NEW e \in Everything(bs) PROVE e \in Everything(cs)
  <2>1. PICK b \in 0 .. n - 1 : e \in bs[b]
    BY <1>1 DEF Everything
  <2>2. e.key \in Keys /\ Hash[e.key] \in Nat /\ Hash[e.key] % n = b
    BY <1>1, <2>1, HashRange DEF Placed, Entry
  <2>3. PICK c \in 0 .. 2 * n - 1 : c = Hash[e.key] % (2 * n) /\ c % n = b
    BY <2>2, ModDouble
  <2>4. e \in cs[c]
    BY <2>1, <2>3
  <2> QED
    BY <2>3, <2>4 DEF Everything
<1> QED
  BY <1>3, <1>4, <1>5

(* A sweep takes out what has expired at its time.                         *)
LEMMA Filtering ==
    ASSUME NEW n \in Nat \ {0}, NEW bs, Placed(bs, n), NEW now,
           NEW cs, cs = [b \in DOMAIN bs |-> {e \in bs[b] : ~Expired(e, now)}]
    PROVE  /\ Placed(cs, n)
           /\ Everything(cs) = {e \in Everything(bs) : ~Expired(e, now)}
           /\ UNION {bs[b] \ cs[b] : b \in DOMAIN bs} = {e \in Everything(bs) : Expired(e, now)}
<1>1. DOMAIN bs = 0 .. n - 1
  BY DEF Placed
<1> QED
  BY <1>1 DEF Placed, Everything

-----------------------------------------------------------------------------
(* The count after a replacement.                                          *)
LEMMA Recount ==
    ASSUME NEW E, IsFiniteSet(E), Unique(E), NEW k,
           NEW es, \A e \in es : e.key = k, \A e, f \in es : e = f
    PROVE  /\ IsFiniteSet(Others(E, k) \cup es) /\ IsFiniteSet(Of(E, k))
           /\ Cardinality(Of(E, k)) \in {0, 1} /\ Cardinality(es) \in {0, 1}
           /\ Cardinality(Others(E, k) \cup es) = Cardinality(E) - Cardinality(Of(E, k)) + Cardinality(es)
           /\ Cardinality(Others(E, k) \cup es) \in Nat
<1>1. ASSUME NEW S, \A e, f \in S : e = f PROVE IsFiniteSet(S) /\ Cardinality(S) \in {0, 1}
  <2>1. CASE S = {}
    BY <2>1, FS_EmptySet
  <2>2. CASE S # {}
    <3>1. PICK e : S = {e}
      BY <1>1, <2>2
    <3> QED
      BY <3>1, FS_Singleton
  <2> QED
    BY <2>1, <2>2
<1>2. IsFiniteSet(Of(E, k)) /\ Cardinality(Of(E, k)) \in {0, 1}
  BY <1>1 DEF Of, Unique
<1>3. IsFiniteSet(es) /\ Cardinality(es) \in {0, 1}
  BY <1>1
<1>4. Others(E, k) = E \ Of(E, k) /\ Of(E, k) = E \cap Of(E, k) /\ Others(E, k) \cap es = {}
  BY DEF Others, Of
<1>5. /\ IsFiniteSet(Others(E, k))
      /\ Cardinality(Others(E, k)) = Cardinality(E) - Cardinality(Of(E, k))
  BY <1>4, FS_Difference
<1>6. /\ IsFiniteSet(Others(E, k) \cup es)
      /\ Cardinality(Others(E, k) \cup es) = Cardinality(Others(E, k)) + Cardinality(es) - Cardinality({})
  BY <1>3, <1>4, <1>5, FS_Union
<1>7. Cardinality({}) = 0 /\ Cardinality(Others(E, k)) \in Nat /\ Cardinality(E) \in Nat
  BY <1>5, FS_EmptySet, FS_CardinalityType
<1> QED
  BY <1>2, <1>3, <1>5, <1>6, <1>7
-----------------------------------------------------------------------------
(* What the operations do to the set of entries.                           *)
Shape == nbuckets \in Nat \ {0} /\ Placed(buckets, nbuckets) /\ Counted /\ count \in Nat

LEMMA ShapeFacts ==
    ASSUME Shape
    PROVE  /\ Entries \subseteq Entry /\ Unique(Entries) /\ IsFiniteSet(Entries)
           /\ \A k \in Keys : Chain(k) = Of(Entries, k)
           /\ \A k \in Keys : Found(k) = {e \in Of(Entries, k) : ~Expired(e, clock)}
           /\ \A k \in Keys : AtMostOne(Chain(k), k) /\ AtMostOne(Found(k), k)
<1>1. /\ Entries \subseteq Entry /\ Unique(Entries)
      /\ \A k \in Keys : Of(buckets[Hash[k] % nbuckets], k) = Of(Entries, k)
  BY PlacedFacts DEF Shape, Entries
<1>2. \A k \in Keys : Chain(k) = Of(Entries, k)
  BY <1>1 DEF Chain, Slot, Of
<1> QED
  BY <1>1, <1>2 DEF Found, Shape, Counted, Unique, Of, AtMostOne

LEMMA RechainEffect ==
    ASSUME Shape, NEW k \in Keys, NEW es, AtMostOne(es, k), Rechain(k, es)
    PROVE  Shape' /\ Entries' = Others(Entries, k) \cup es
<1>1. /\ nbuckets \in Nat \ {0} /\ Placed(buckets, nbuckets)
      /\ Chain(k) = Of(buckets[Hash[k] % nbuckets], k) /\ Chain(k) = Of(Entries, k)
  BY ShapeFacts DEF Shape, Chain, Slot, Of
<1>2. /\ nbuckets' = nbuckets
      /\ buckets' = [buckets EXCEPT ![Hash[k] % nbuckets] = (@ \ Chain(k)) \cup es]
      /\ count' = count - Cardinality(Chain(k)) + Cardinality(es)
  BY DEF Rechain, Slot
<1>3. Placed(buckets', nbuckets) /\ Everything(buckets') = Others(Entries, k) \cup es
  <2>1. buckets' = Replaced(buckets, Hash[k] % nbuckets, k, es)
    BY <1>1, <1>2 DEF Replaced
  <2>2. PICK n, s, bs, cs : n \in Nat \ {0} /\ n = nbuckets /\ s = Hash[k] % n /\ bs = buckets /\ cs = buckets'
    BY <1>1
  <2>3. AtMostOne(es, k)
    OBVIOUS
  <2>4. Placed(bs, n) /\ cs = Replaced(bs, s, k, es)
    BY <1>1, <2>1, <2>2
  <2>5. Placed(cs, n) /\ Everything(cs) = Others(Everything(bs), k) \cup es
    BY <2>2, <2>3, <2>4, Replacing
  <2> QED
    BY <2>2, <2>5 DEF Entries
<1>4. /\ IsFiniteSet(Others(Entries, k) \cup es)
      /\ Cardinality(Others(Entries, k) \cup es) = count - Cardinality(Of(Entries, k)) + Cardinality(es)
      /\ Cardinality(Others(Entries, k) \cup es) \in Nat
  <2>1. IsFiniteSet(Entries) /\ Unique(Entries) /\ count = Cardinality(Entries)
    BY ShapeFacts DEF Shape, Counted
  <2>2. (\A e \in es : e.key = k) /\ \A e, f \in es : e = f
    BY DEF AtMostOne
  <2> QED
    BY <2>1, <2>2, Recount, ZenonT(60)
<1> QED
  BY <1>1, <1>2, <1>3, <1>4 DEF Shape, Counted, Entries, Placed, Everything

LEMMA InsertEffect ==
    ASSUME Shape, NEW k \in Keys, NEW e \in Entry, e.key = k, Insert(k, e)
    PROVE  Shape' /\ Entries' = Others(Entries, k) \cup {e}
<1> DEFINE grown == [buckets EXCEPT ![Hash[k] % nbuckets] = (@ \ Chain(k)) \cup {e}]
<1>1. /\ nbuckets \in Nat \ {0} /\ Placed(buckets, nbuckets)
      /\ Chain(k) = Of(buckets[Hash[k] % nbuckets], k) /\ Chain(k) = Of(Entries, k)
  BY ShapeFacts DEF Shape, Chain, Slot, Of
<1>2. /\ count' = count - Cardinality(Chain(k)) + 1
      /\ \/ buckets' = grown /\ nbuckets' = nbuckets
         \/ buckets' = Rehashed(grown) /\ nbuckets' = 2 * nbuckets
  BY DEF Insert, Slot
<1>3. Placed(grown, nbuckets) /\ Everything(grown) = Others(Entries, k) \cup {e}
  <2>1. grown = Replaced(buckets, Hash[k] % nbuckets, k, {e})
    BY <1>1 DEF Replaced
  <2> HIDE DEF grown
  <2>2. AtMostOne({e}, k)
    BY DEF AtMostOne
  <2>3. PICK n, s, bs, cs, es : n \in Nat \ {0} /\ n = nbuckets /\ s = Hash[k] % n /\ bs = buckets
           /\ cs = grown /\ es = {e}
    BY <1>1
  <2>4. /\ n \in Nat \ {0} /\ s = Hash[k] % n
        /\ Placed(bs, n) /\ cs = Replaced(bs, s, k, es)
        /\ AtMostOne(es, k)
    BY <1>1, <2>1, <2>2, <2>3
  <2>5. Placed(cs, n) /\ Everything(cs) = Others(Everything(bs), k) \cup es
    BY <2>4, Replacing
  <2> QED
    BY <2>3, <2>5 DEF Entries
<1> HIDE DEF grown
<1>4. Placed(buckets', nbuckets') /\ Everything(buckets') = Others(Entries, k) \cup {e}
      /\ nbuckets' \in Nat \ {0}
  <2>1. CASE buckets' = grown /\ nbuckets' = nbuckets
    BY <1>1, <1>3, <2>1
  <2>2. CASE buckets' = Rehashed(grown) /\ nbuckets' = 2 * nbuckets
    <3>1. Placed(Rehashed(grown), 2 * nbuckets) /\ Everything(Rehashed(grown)) = Everything(grown)
      BY <1>1, <1>3, Doubling DEF Rehashed
    <3> QED
      BY <1>1, <1>3, <2>2, <3>1
  <2> QED
    BY <1>2, <2>1, <2>2
<1>5. /\ IsFiniteSet(Others(Entries, k) \cup {e})
      /\ Cardinality(Others(Entries, k) \cup {e}) = count - Cardinality(Of(Entries, k)) + 1
      /\ Cardinality(Others(Entries, k) \cup {e}) \in Nat
  <2>1. Cardinality({e}) = 1
    BY FS_Singleton
  <2> QED
    <3>1. IsFiniteSet(Entries) /\ Unique(Entries) /\ count = Cardinality(Entries)
      BY ShapeFacts DEF Shape, Counted
    <3>2. (\A x \in {e} : x.key = k) /\ \A x, y \in {e} : x = y
      OBVIOUS
    <3>3. /\ IsFiniteSet(Others(Entries, k) \cup {e})
          /\ Cardinality(Others(Entries, k) \cup {e}) = Cardinality(Entries) - Cardinality(Of(Entries, k)) + Cardinality({e})
          /\ Cardinality(Others(Entries, k) \cup {e}) \in Nat
      BY <3>1, <3>2, Recount
    <3> QED
      BY <2>1, <3>1, <3>3
<1> QED
  BY <1>1, <1>2, <1>4, <1>5 DEF Shape, Counted, Entries, Placed, Everything

LEMMA SweepEffect ==
    ASSUME Shape, NEW t \in Sweepers, EndSweep(t)
    PROVE  Shape' /\ Entries' = {e \in Entries : ~Expired(e, reader[t].now)}
<1>1. PICK now : now = reader[t].now
  OBVIOUS
<1>2. /\ nbuckets' = nbuckets
      /\ buckets' = [b \in DOMAIN buckets |-> {e \in buckets[b] : ~Expired(e, now)}]
      /\ count' = count - Cardinality(Swept(now))
  BY <1>1 DEF EndSweep, Kept
<1>3. /\ Placed(buckets', nbuckets)
      /\ Everything(buckets') = {e \in Entries : ~Expired(e, now)}
      /\ UNION {buckets[b] \ buckets'[b] : b \in DOMAIN buckets} = {e \in Entries : Expired(e, now)}
  BY <1>2, Filtering DEF Shape, Entries
<1>4. Swept(now) = {e \in Entries : Expired(e, now)}
  <2>1. \A b \in DOMAIN buckets : buckets'[b] = Kept(b, now)
    BY <1>2 DEF Kept
  <2> QED
    BY <1>3, <2>1 DEF Swept
<1>5. {e \in Entries : ~Expired(e, now)} = Entries \ Swept(now) /\ Entries \cap Swept(now) = Swept(now)
  BY <1>4
<1>6. /\ IsFiniteSet(Entries \ Swept(now))
      /\ Cardinality(Entries \ Swept(now)) = Cardinality(Entries) - Cardinality(Swept(now))
      /\ Cardinality(Entries \ Swept(now)) \in Nat
  BY <1>5, FS_Difference, FS_CardinalityType DEF Shape, Counted
<1> QED
  BY <1>1, <1>2, <1>3, <1>5, <1>6 DEF Shape, Counted, Entries, Placed, Everything

LEMMA ClearEffect ==
    ASSUME Shape, Clear
    PROVE  Shape' /\ Entries' = {}
<1>1. nbuckets' = nbuckets /\ buckets' = [b \in DOMAIN buckets |-> {}] /\ count' = 0
  BY DEF Clear
<1>2. DOMAIN buckets = 0 .. nbuckets - 1
  BY DEF Shape, Placed
<1>3. Entries' = {}
  BY <1>1 DEF Entries, Everything
<1>4. Placed(buckets', nbuckets')
  BY <1>1, <1>2 DEF Placed
<1> QED
  BY <1>1, <1>3, <1>4, FS_EmptySet DEF Shape, Counted

-----------------------------------------------------------------------------
(* The inductive invariant.  A reader's clock is never ahead, and a listing *)
(* under way has seen the keys alive now and every key whose entry its old *)
(* clock still takes for alive.                                            *)
Types ==
    /\ clock \in 0 .. MaxClock
    /\ reader \in [Threads -> [op : {"idle", "keys", "sweep"}, now : 0 .. MaxClock]]
    /\ reply.op \in {"none", "set", "get", "del", "exists", "incr", "expire", "ttl", "keys"}
    /\ seen \in [Listers -> SUBSET SUBSET Keys]

ReadersBehind == \A t \in Threads : reader[t].now <= clock

ListingSound == \A t \in Listers :
    /\ reader[t].op = "keys" <=> seen[t] # {}
    /\ reader[t].op = "keys" =>
         /\ Live(buckets, clock) \in seen[t]
         /\ \A e \in Entries : ~Expired(e, reader[t].now) => e.key \in UNION seen[t]

IInv == Types /\ Shape /\ ReadersBehind /\ ListingSound

(* What every operation on a key leaves: es in place of the entry of k,    *)
(* and what of it has expired by now was alive when the operation began.   *)
Outcome(k, es) ==
    /\ AtMostOne(es, k)
    /\ Shape' /\ Entries' = Others(Entries, k) \cup es
    /\ \A e \in es : ~Expired(e, clock') \/ Found(k) # {}
    /\ UNCHANGED reader

LEMMA RechainOutcome ==
    ASSUME Shape, NEW k \in Keys, NEW es, AtMostOne(es, k), Rechain(k, es),
           \A e \in es : ~Expired(e, clock') \/ Found(k) # {}
    PROVE  Outcome(k, es)
<1>1. Shape' /\ Entries' = Others(Entries, k) \cup es
  BY RechainEffect
<1>2. UNCHANGED reader
  BY DEF Rechain
<1> QED
  BY <1>1, <1>2 DEF Outcome

(* set: the clock it reads, the time to live, and whether memory sufficed. *)
LEMMA SetOutcome ==
    ASSUME IInv, NEW k \in Keys, NEW v \in Values, Set(k, v)
    PROVE  \E ttl, later, ok, es :
             /\ ttl \in TTLs /\ later \in Later /\ ok \in BOOLEAN
             /\ clock' = later /\ Witness /\ Answer("set", {ok}) /\ Outcome(k, es)
             /\ es = IF ok THEN {[key |-> k, value |-> v, expires |-> Expiry(ttl, later)]} ELSE {}
             /\ ~ok => Found(k) = {}
<1>1. PICK ttl, later, e :
        /\ ttl \in TTLs /\ later \in Later
        /\ e = [key |-> k, value |-> v, expires |-> Expiry(ttl, later)]
        /\ clock' = later /\ Witness
        /\ \/ Found(k) # {} /\ Rechain(k, {e}) /\ Answer("set", {TRUE})
           \/ Found(k) = {} /\ Insert(k, e) /\ Answer("set", {TRUE})
           \/ Found(k) = {} /\ Rechain(k, {}) /\ Answer("set", {FALSE})
  BY DEF Set
<1>2. clock \in Nat /\ later \in Nat /\ ttl \in Nat /\ Shape
  BY <1>1, KvAssumption DEF IInv, Types, Later
<1>3. e \in Entry /\ e.key = k /\ ~Expired(e, later) /\ AtMostOne({e}, k)
  <2>1. Expiry(ttl, later) \in Nat /\ (Expiry(ttl, later) # 0 => Expiry(ttl, later) > later)
    BY <1>2 DEF Expiry
  <2> QED
    BY <1>1, <1>2, <2>1 DEF Entry, Expired, AtMostOne
<1>4. CASE Found(k) # {} /\ Rechain(k, {e}) /\ Answer("set", {TRUE})
  <2>1. Outcome(k, {e})
    BY <1>1, <1>2, <1>3, <1>4, RechainOutcome
  <2> QED
    BY <1>1, <1>4, <2>1
<1>5. CASE Found(k) = {} /\ Insert(k, e) /\ Answer("set", {TRUE})
  <2>1. Outcome(k, {e})
    BY <1>1, <1>2, <1>3, <1>5, InsertEffect DEF Outcome, Insert
  <2> QED
    BY <1>1, <1>5, <2>1
<1>6. CASE Found(k) = {} /\ Rechain(k, {}) /\ Answer("set", {FALSE})
  <2>1. AtMostOne({}, k)
    BY DEF AtMostOne
  <2>2. Outcome(k, {})
    BY <1>2, <1>6, <2>1, RechainOutcome
  <2> QED
    BY <1>1, <1>6, <2>2
<1> QED
  BY <1>1, <1>4, <1>5, <1>6

(* get, exists, ttl: the entry stays when it is alive.                     *)
LEMMA LookOutcome ==
    ASSUME IInv, NEW k \in Keys, Rechain(k, Found(k))
    PROVE  Outcome(k, Found(k))
<1>1. PICK es : es = Found(k)
  OBVIOUS
<1>2. Shape /\ AtMostOne(es, k) /\ Rechain(k, es) /\ \A e \in es : Found(k) # {}
  BY <1>1, ShapeFacts DEF IInv
<1>3. Outcome(k, es)
  BY <1>2, RechainOutcome
<1> QED
  BY <1>1, <1>3

LEMMA DeleteOutcome ==
    ASSUME IInv, NEW k \in Keys, Delete(k)
    PROVE  /\ clock' = clock /\ Witness /\ Answer("del", {Found(k) # {}})
           /\ Outcome(k, {})
<1>1. AtMostOne({}, k) /\ Shape /\ Rechain(k, {})
  BY DEF AtMostOne, IInv, Delete
<1>2. Outcome(k, {})
  BY <1>1, RechainOutcome
<1> QED
  BY <1>2 DEF Delete

LEMMA ExpireOutcome ==
    ASSUME IInv, NEW k \in Keys, Expire(k)
    PROVE  \E ttl, later, es :
             /\ ttl \in TTLs /\ later \in Later
             /\ clock' = later /\ Witness /\ Answer("expire", {Found(k) # {}}) /\ Outcome(k, es)
             /\ es = {[e EXCEPT !.expires = Expiry(ttl, later)] : e \in Found(k)}
<1>1. PICK ttl, later, es :
        /\ ttl \in TTLs /\ later \in Later
        /\ clock' = later /\ Witness /\ Answer("expire", {Found(k) # {}})
        /\ es = {[e EXCEPT !.expires = Expiry(ttl, later)] : e \in Found(k)}
        /\ Rechain(k, es)
  BY DEF Expire
<1>2. later \in Nat /\ ttl \in Nat /\ Shape
  BY <1>1, KvAssumption DEF IInv, Types, Later
<1>3. AtMostOne(Found(k), k)
  BY <1>2, ShapeFacts
<1>4. Expiry(ttl, later) \in Nat /\ (Expiry(ttl, later) # 0 => Expiry(ttl, later) > later)
  BY <1>2 DEF Expiry
<1>5. AtMostOne(es, k)
  BY <1>1, <1>3, <1>4 DEF AtMostOne, Entry
<1>6. \A e \in es : Found(k) # {}
  BY <1>1
<1>7. Outcome(k, es)
  BY <1>1, <1>2, <1>5, <1>6, RechainOutcome
<1> QED
  BY <1>1, <1>7

(* incr: a number grows, what is no number stays, a missing key starts at  *)
(* one, and when there is no memory for it nothing is made.                *)
LEMMA IncrementOutcome ==
    ASSUME IInv, NEW k \in Keys, Increment(k)
    PROVE  \E later, es :
             /\ later \in Later
             /\ clock' = later /\ Witness /\ Outcome(k, es)
             /\ \/ \E e \in Found(k) : /\ e.value \in Numbers /\ e.value + 1 \in Numbers
                                       /\ es = {[e EXCEPT !.value = @ + 1]}
                                       /\ Answer("incr", {e.value + 1})
                \/ (\E e \in Found(k) : e.value \in Texts) /\ es = Found(k) /\ later = clock /\ Answer("incr", {})
                \/ Found(k) = {} /\ es = {[key |-> k, value |-> 1, expires |-> 0]} /\ Answer("incr", {1})
                \/ Found(k) = {} /\ es = {} /\ later = clock /\ Answer("incr", {})
<1>1. PICK later \in Later : clock' = later /\ Witness /\
        \/ \E e \in Found(k) : /\ e.value \in Numbers /\ e.value < MaxNumber
                               /\ Rechain(k, {[e EXCEPT !.value = @ + 1]})
                               /\ Answer("incr", {e.value + 1})
        \/ (\E e \in Found(k) : e.value \in Texts) /\ Rechain(k, Found(k)) /\ later = clock /\ Answer("incr", {})
        \/ Found(k) = {} /\ Insert(k, [key |-> k, value |-> 1, expires |-> 0]) /\ Answer("incr", {1})
        \/ Found(k) = {} /\ Rechain(k, {}) /\ later = clock /\ Answer("incr", {})
  BY DEF Increment
<1>2. Shape /\ AtMostOne(Found(k), k)
  BY ShapeFacts DEF IInv
<1>3. CASE \E e \in Found(k) : /\ e.value \in Numbers /\ e.value < MaxNumber
                               /\ Rechain(k, {[e EXCEPT !.value = @ + 1]})
                               /\ Answer("incr", {e.value + 1})
  <2>1. PICK e, es : /\ e \in Found(k) /\ e.value \in Numbers /\ e.value < MaxNumber
                     /\ es = {[e EXCEPT !.value = @ + 1]} /\ Rechain(k, es)
                     /\ Answer("incr", {e.value + 1})
    BY <1>3
  <2>2. e.value + 1 \in Numbers
    BY <2>1, KvAssumption DEF Numbers
  <2>3. AtMostOne(es, k)
    BY <1>2, <2>1, <2>2 DEF AtMostOne, Entry, Values
  <2>4. Outcome(k, es)
    BY <1>2, <2>1, <2>3, RechainOutcome
  <2> QED
    BY <1>1, <2>1, <2>2, <2>4
<1>4. CASE (\E e \in Found(k) : e.value \in Texts) /\ Rechain(k, Found(k)) /\ later = clock /\ Answer("incr", {})
  <2>1. PICK es : es = Found(k) /\ Rechain(k, es) /\ AtMostOne(es, k)
    BY <1>2, <1>4
  <2>2. Outcome(k, es)
    BY <1>2, <2>1, RechainOutcome
  <2> QED
    BY <1>1, <1>4, <2>1, <2>2
<1>5. CASE Found(k) = {} /\ Insert(k, [key |-> k, value |-> 1, expires |-> 0]) /\ Answer("incr", {1})
  <2>1. PICK e : e = [key |-> k, value |-> 1, expires |-> 0] /\ Insert(k, e)
    BY <1>5
  <2>2. e \in Entry /\ e.key = k /\ AtMostOne({e}, k) /\ \A x \in {e} : ~Expired(x, clock')
    BY <2>1, KvAssumption DEF Entry, Values, Numbers, AtMostOne, Expired
  <2>3. Outcome(k, {e})
    BY <1>2, <2>1, <2>2, InsertEffect DEF Outcome, Insert
  <2> QED
    BY <1>1, <1>5, <2>1, <2>3
<1>6. CASE Found(k) = {} /\ Rechain(k, {}) /\ later = clock /\ Answer("incr", {})
  <2>1. AtMostOne({}, k)
    BY DEF AtMostOne
  <2>2. Outcome(k, {})
    BY <1>2, <1>6, <2>1, RechainOutcome
  <2> QED
    BY <1>1, <1>6, <2>2
<1> QED
  BY <1>1, <1>3, <1>4, <1>5, <1>6
-----------------------------------------------------------------------------
(* What each step means for the invariant.                                 *)
LEMMA LiveFacts ==
    ASSUME NEW bs, NEW now
    PROVE  Live(bs, now) = {e.key : e \in {x \in Everything(bs) : ~Expired(x, now)}}
BY DEF Live, Everything

(* Time only goes on.                                                      *)
LEMMA ExpiredStays ==
    ASSUME NEW e \in Entry, NEW s \in Nat, NEW t \in Nat, s <= t, Expired(e, s)
    PROVE  Expired(e, t)
BY DEF Expired, Entry

(* Listings under way stay sound over a step that moves the clock to later *)
(* and brings no entry but ones alive by then, or of keys alive before.    *)
LEMMA ListingsStaySound ==
    ASSUME IInv, Witness, UNCHANGED reader, clock' \in Later, Shape',
           \A e \in Entries' : e \in Entries \/ ~Expired(e, clock') \/ e.key \in Live(buckets, clock)
    PROVE  /\ clock' \in 0 .. MaxClock /\ seen' \in [Listers -> SUBSET SUBSET Keys]
           /\ ReadersBehind' /\ ListingSound'
<1>1. clock \in 0 .. MaxClock /\ clock' \in 0 .. MaxClock /\ clock <= clock'
  BY KvAssumption DEF IInv, Types, Later
<1>2. PICK L : L = Live(buckets', clock')
  OBVIOUS
<1>3. L = {e.key : e \in {x \in Entries' : ~Expired(x, clock')}}
  BY <1>2 DEF Live, Entries, Everything
<1>4. Entries' \subseteq Entry
  <2>1. PICK n, bs : n = nbuckets' /\ bs = buckets' /\ n \in Nat \ {0} /\ Placed(bs, n)
    BY DEF Shape
  <2> QED
    BY <2>1, PlacedFacts DEF Entries
<1>5. L \subseteq Keys
  BY <1>3, <1>4 DEF Entry
<1>6. seen' = [t \in Listers |-> IF seen[t] = {} THEN {} ELSE seen[t] \cup {L}]
  BY <1>2 DEF Witness
<1>7. seen' \in [Listers -> SUBSET SUBSET Keys]
  BY <1>5, <1>6 DEF IInv, Types
<1>8. ReadersBehind'
  BY <1>1 DEF IInv, ReadersBehind, Types
<1>9. ASSUME NEW t \in Listers
      PROVE  /\ reader'[t].op = "keys" <=> seen'[t] # {}
             /\ reader'[t].op = "keys" =>
                  /\ L \in seen'[t]
                  /\ \A e \in Entries' : ~Expired(e, reader'[t].now) => e.key \in UNION seen'[t]
  <2>1. /\ reader'[t] = reader[t] /\ (reader[t].op = "keys" <=> seen[t] # {})
        /\ seen'[t] = IF seen[t] = {} THEN {} ELSE seen[t] \cup {L}
    BY <1>6 DEF IInv, ListingSound
  <2>2. CASE reader[t].op # "keys"
    BY <2>1, <2>2
  <2>3. CASE reader[t].op = "keys"
    <3>1. /\ Live(buckets, clock) \in seen[t]
          /\ \A e \in Entries : ~Expired(e, reader[t].now) => e.key \in UNION seen[t]
      BY <2>3 DEF IInv, ListingSound
    <3>2. seen'[t] = seen[t] \cup {L}
      BY <2>1, <2>3
    <3>3. \A e \in Entries' : ~Expired(e, reader[t].now) => e.key \in UNION seen'[t]
      BY <1>3, <3>1, <3>2
    <3> QED
      BY <2>1, <2>3, <3>2, <3>3
  <2> QED
    BY <2>2, <2>3
<1>10. ListingSound'
  BY <1>2, <1>9 DEF ListingSound
<1> QED
  BY <1>1, <1>7, <1>8, <1>10

LEMMA OutcomeKeeps ==
    ASSUME IInv, NEW k \in Keys, NEW es, Outcome(k, es), Witness, clock' \in Later,
           reply'.op \in {"none", "set", "get", "del", "exists", "incr", "expire", "ttl", "keys"}
    PROVE  IInv'
<1>1. Shape' /\ UNCHANGED reader /\ Entries' = Others(Entries, k) \cup es
  BY DEF Outcome
<1>2. Found(k) # {} => k \in Live(buckets, clock)
  <2>1. Found(k) = {e \in Of(Entries, k) : ~Expired(e, clock)}
    BY ShapeFacts DEF IInv
  <2>2. Live(buckets, clock) = {e.key : e \in {x \in Entries : ~Expired(x, clock)}}
    BY LiveFacts DEF Entries
  <2> QED
    BY <2>1, <2>2 DEF Of
<1>3. \A e \in Entries' : e \in Entries \/ ~Expired(e, clock') \/ e.key \in Live(buckets, clock)
  BY <1>1, <1>2 DEF Outcome, AtMostOne, Others
<1>4. /\ clock' \in 0 .. MaxClock /\ seen' \in [Listers -> SUBSET SUBSET Keys]
      /\ ReadersBehind' /\ ListingSound'
  BY <1>1, <1>3, ListingsStaySound
<1> QED
  BY <1>1, <1>4 DEF IInv, Types

LEMMA KeyStep ==
    ASSUME IInv, NEW k \in Keys,
           \/ Get(k) \/ Delete(k) \/ Exists(k) \/ Increment(k) \/ Expire(k) \/ TimeLeft(k)
           \/ \E v \in Values : Set(k, v)
    PROVE  IInv'
<1>1. CASE \E v \in Values : Set(k, v)
  <2>1. PICK v \in Values : Set(k, v)
    BY <1>1
  <2>2. PICK later, es : later \in Later /\ clock' = later /\ Witness /\ reply'.op = "set" /\ Outcome(k, es)
    BY <2>1, SetOutcome DEF Answer
  <2> QED
    BY <2>2, OutcomeKeeps
<1>2. CASE Get(k) \/ Exists(k) \/ TimeLeft(k)
  <2>1. PICK es : es = Found(k) /\ Outcome(k, es)
    BY <1>2, LookOutcome DEF Get, Exists, TimeLeft
  <2>2. clock' \in Later /\ Witness /\ reply'.op \in {"get", "exists", "ttl"}
    BY <1>2, KvAssumption DEF Get, Exists, TimeLeft, Answer, IInv, Types, Later
  <2> QED
    BY <2>1, <2>2, OutcomeKeeps
<1>3. CASE Delete(k)
  <2>1. clock' = clock /\ Witness /\ Outcome(k, {}) /\ reply'.op = "del"
    BY <1>3, DeleteOutcome DEF Answer
  <2>2. clock' \in Later
    BY <2>1, KvAssumption DEF IInv, Types, Later
  <2> QED
    BY <2>1, <2>2, OutcomeKeeps
<1>4. CASE Expire(k)
  <2>1. PICK later, es : later \in Later /\ clock' = later /\ Witness /\ reply'.op = "expire" /\ Outcome(k, es)
    BY <1>4, ExpireOutcome DEF Answer
  <2> QED
    BY <2>1, OutcomeKeeps
<1>5. CASE Increment(k)
  <2>1. PICK later, es : later \in Later /\ clock' = later /\ Witness /\ reply'.op = "incr" /\ Outcome(k, es)
    BY <1>5, IncrementOutcome DEF Answer
  <2> QED
    BY <2>1, OutcomeKeeps
<1> QED
  BY <1>1, <1>2, <1>3, <1>4, <1>5

LEMMA ReaderStep ==
    ASSUME IInv, (\E t \in Listers : BeginKeys(t) \/ EndKeys(t)) \/ \E t \in Sweepers : BeginSweep(t)
    PROVE  IInv'
<1>1. UNCHANGED <<clock, nbuckets, buckets, count>>
  BY DEF BeginKeys, EndKeys, BeginSweep
<1>2. Shape' /\ clock' \in 0 .. MaxClock /\ Entries' = Entries
  BY <1>1 DEF IInv, Shape, Types, Placed, Counted, Entries, Everything
<1>3. Live(buckets, clock)' = Live(buckets, clock) /\ Live(buckets, clock) \subseteq Keys
  <2>1. Live(buckets, clock) = {e.key : e \in {x \in Entries : ~Expired(x, clock)}}
    BY LiveFacts DEF Entries
  <2>2. Entries \subseteq Entry
    BY ShapeFacts DEF IInv
  <2> QED
    BY <1>1, <2>1, <2>2 DEF Entry, Live
<1>4. ASSUME NEW t \in Listers, BeginKeys(t) PROVE IInv'
  <2>1. PICK L : L = Live(buckets, clock) /\ L \subseteq Keys /\ L = Live(buckets, clock)'
    BY <1>3
  <2>2. /\ reader' = [reader EXCEPT ![t] = [op |-> "keys", now |-> clock]]
        /\ seen' = [seen EXCEPT ![t] = {L}] /\ reply' = reply
    BY <1>4, <2>1 DEF BeginKeys
  <2>3. Types'
    BY <1>2, <1>1, <2>1, <2>2 DEF IInv, Types, Threads
  <2>4. ReadersBehind'
    BY <1>1, <2>2 DEF IInv, Types, ReadersBehind, Threads
  <2>5. L = {e.key : e \in {x \in Entries : ~Expired(x, clock)}}
    BY <2>1, LiveFacts DEF Entries
  <2>6. ListingSound'
    <3>1. ASSUME NEW u \in Listers
          PROVE  /\ reader'[u].op = "keys" <=> seen'[u] # {}
                 /\ reader'[u].op = "keys" =>
                      /\ L \in seen'[u]
                      /\ \A e \in Entries : ~Expired(e, reader'[u].now) => e.key \in UNION seen'[u]
      <4>1. CASE u = t
        <5>1. reader'[u].op = "keys" /\ reader'[u].now = clock /\ seen'[u] = {L}
          BY <2>2, <4>1 DEF IInv, Types, Threads
        <5>2. \A e \in Entries : ~Expired(e, clock) => e.key \in L
          BY <2>5
        <5> QED
          BY <5>1, <5>2
      <4>2. CASE u # t
        BY <2>1, <2>2, <4>2 DEF IInv, Types, Threads, ListingSound
      <4> QED
        BY <4>1, <4>2
    <3> QED
      BY <1>2, <2>1, <3>1 DEF ListingSound
  <2> QED
    BY <1>2, <2>3, <2>4, <2>6 DEF IInv
<1>5. ASSUME NEW t \in Listers, EndKeys(t) PROVE IInv'
  <2>1. /\ reader' = [reader EXCEPT ![t] = [op |-> "idle", now |-> 0]]
        /\ seen' = [seen EXCEPT ![t] = {}] /\ reply'.op = "keys"
    BY <1>5 DEF EndKeys, Idle, Answer
  <2>2. Types'
    BY <1>2, <1>1, <2>1, KvAssumption DEF IInv, Types, Threads
  <2>3. ReadersBehind'
    BY <1>1, <2>1 DEF IInv, Types, ReadersBehind, Threads
  <2>4. PICK L : L = Live(buckets, clock) /\ L = Live(buckets, clock)'
    BY <1>3
  <2>5. ASSUME NEW u \in Listers
        PROVE  /\ reader'[u].op = "keys" <=> seen'[u] # {}
               /\ reader'[u].op = "keys" =>
                    /\ L \in seen'[u]
                    /\ \A e \in Entries : ~Expired(e, reader'[u].now) => e.key \in UNION seen'[u]
    BY <2>1, <2>4 DEF IInv, Types, Threads, ListingSound
  <2>6. ListingSound'
    BY <1>2, <2>4, <2>5 DEF ListingSound
  <2> QED
    BY <1>2, <2>2, <2>3, <2>6 DEF IInv
<1>6. ASSUME NEW t \in Sweepers, BeginSweep(t) PROVE IInv'
  <2>1. /\ reader' = [reader EXCEPT ![t] = [op |-> "sweep", now |-> clock]]
        /\ seen' = seen /\ reply' = reply /\ reader[t].op = "idle"
    BY <1>6 DEF BeginSweep
  <2>2. Types'
    BY <1>2, <1>1, <2>1 DEF IInv, Types, Threads
  <2>3. ReadersBehind'
    BY <1>1, <2>1 DEF IInv, Types, ReadersBehind, Threads
  <2>4. PICK L : L = Live(buckets, clock) /\ L = Live(buckets, clock)'
    BY <1>3
  <2>5. ASSUME NEW u \in Listers
        PROVE  /\ reader'[u].op = "keys" <=> seen'[u] # {}
               /\ reader'[u].op = "keys" =>
                    /\ L \in seen'[u]
                    /\ \A e \in Entries : ~Expired(e, reader'[u].now) => e.key \in UNION seen'[u]
    <3>1. CASE u = t
      BY <2>1, <3>1 DEF IInv, Types, Threads, ListingSound
    <3>2. CASE u # t
      BY <2>1, <2>4, <3>2 DEF IInv, Types, Threads, ListingSound
    <3> QED
      BY <3>1, <3>2
  <2>6. ListingSound'
    BY <1>2, <2>4, <2>5 DEF ListingSound
  <2> QED
    BY <1>2, <2>2, <2>3, <2>6 DEF IInv
<1> QED
  BY <1>4, <1>5, <1>6

LEMMA SweepStep ==
    ASSUME IInv, NEW t \in Sweepers, EndSweep(t)
    PROVE  IInv'
<1>1. Shape' /\ Entries' = {e \in Entries : ~Expired(e, reader[t].now)}
  BY SweepEffect DEF IInv
<1>2. clock' = clock /\ reply' = reply /\ Witness /\ reader' = [reader EXCEPT ![t] = Idle] /\ reader[t].op = "sweep"
  BY DEF EndSweep
<1>3. PICK L : L = Live(buckets', clock')
  OBVIOUS
<1>4. L = {e.key : e \in {x \in Entries' : ~Expired(x, clock')}} /\ Entries' \subseteq Entry
  <2>1. Entries \subseteq Entry
    BY ShapeFacts DEF IInv
  <2> QED
    BY <1>1, <1>3, <2>1 DEF Live, Entries, Everything
<1>5. L \subseteq Keys
  BY <1>4 DEF Entry
<1>6. seen' = [u \in Listers |-> IF seen[u] = {} THEN {} ELSE seen[u] \cup {L}]
  BY <1>2, <1>3 DEF Witness
<1>7. Types'
  BY <1>2, <1>5, <1>6, KvAssumption DEF IInv, Types, Threads, Idle
<1>8. ReadersBehind'
  BY <1>2 DEF IInv, Types, ReadersBehind, Threads, Idle
<1>9. ASSUME NEW u \in Listers
      PROVE  /\ reader'[u].op = "keys" <=> seen'[u] # {}
             /\ reader'[u].op = "keys" =>
                  /\ L \in seen'[u]
                  /\ \A e \in Entries' : ~Expired(e, reader'[u].now) => e.key \in UNION seen'[u]
  <2>1. CASE u = t
    BY <1>2, <1>6, <2>1 DEF IInv, Types, Threads, ListingSound, Idle
  <2>2. CASE u # t
    <3>1. reader'[u] = reader[u]
      BY <1>2, <2>2 DEF IInv, Types, Threads
    <3>2. CASE reader[u].op # "keys"
      BY <1>6, <3>1, <3>2 DEF IInv, ListingSound
    <3>3. CASE reader[u].op = "keys"
      <4>1. seen[u] # {} /\ \A e \in Entries : ~Expired(e, reader[u].now) => e.key \in UNION seen[u]
        BY <3>3 DEF IInv, ListingSound
      <4>2. seen'[u] = seen[u] \cup {L}
        BY <1>6, <4>1
      <4>3. \A e \in Entries' : ~Expired(e, reader[u].now) => e.key \in UNION seen'[u]
        BY <1>1, <4>1, <4>2
      <4> QED
        BY <3>1, <3>3, <4>2, <4>3
    <3> QED
      BY <3>2, <3>3
  <2> QED
    BY <2>1, <2>2
<1>10. ListingSound'
  BY <1>3, <1>9 DEF ListingSound
<1> QED
  BY <1>1, <1>7, <1>8, <1>10 DEF IInv

(* clear, and the clock going on.                                          *)
LEMMA OtherStep ==
    ASSUME IInv, Clear \/ Tick \/ UNCHANGED vars
    PROVE  IInv'
<1>1. CASE Clear
  <2>1. Shape' /\ Entries' = {} /\ clock' = clock /\ reply' = reply /\ UNCHANGED reader /\ Witness
    BY <1>1, ClearEffect DEF IInv, Clear
  <2>2. clock' \in Later
    BY <2>1, KvAssumption DEF IInv, Types, Later
  <2>3. /\ clock' \in 0 .. MaxClock /\ seen' \in [Listers -> SUBSET SUBSET Keys]
        /\ ReadersBehind' /\ ListingSound'
    BY <2>1, <2>2, ListingsStaySound
  <2> QED
    BY <2>1, <2>3 DEF IInv, Types
<1>2. CASE Tick
  <2>1. UNCHANGED <<nbuckets, buckets, count, reader, reply>> /\ Witness /\ clock' \in Later
    BY <1>2, KvAssumption DEF IInv, Types, Later, Tick
  <2>2. Shape' /\ Entries' = Entries
    BY <2>1 DEF IInv, Shape, Placed, Counted, Entries, Everything
  <2>3. /\ clock' \in 0 .. MaxClock /\ seen' \in [Listers -> SUBSET SUBSET Keys]
        /\ ReadersBehind' /\ ListingSound'
    BY <2>1, <2>2, ListingsStaySound
  <2> QED
    BY <2>1, <2>2, <2>3 DEF IInv, Types
<1>3. CASE UNCHANGED vars
  <2>1. UNCHANGED <<clock, nbuckets, buckets, count, reader, reply, seen>>
    BY <1>3 DEF vars
  <2>2. Shape' /\ Entries' = Entries /\ Live(buckets, clock)' = Live(buckets, clock)
    BY <2>1 DEF IInv, Shape, Placed, Counted, Entries, Everything, Live
  <2>3. Types' /\ ReadersBehind'
    BY <2>1 DEF IInv, Types, ReadersBehind
  <2>4. ListingSound'
    BY <2>1, <2>2 DEF IInv, ListingSound
  <2> QED
    BY <2>2, <2>3, <2>4 DEF IInv
<1> QED
  BY <1>1, <1>2, <1>3

LEMMA InitHolds == Init => IInv
<1> SUFFICES ASSUME Init PROVE IInv
  OBVIOUS
<1>1. Entries = {}
  BY DEF Init, Entries, Everything
<1>2. Shape
  BY <1>1, FS_EmptySet, KvAssumption DEF Init, Shape, Placed, Counted
<1>3. Types /\ ReadersBehind
  BY KvAssumption DEF Init, Types, ReadersBehind, Idle
<1>4. ListingSound
  BY DEF Init, ListingSound, Threads, Idle
<1> QED
  BY <1>2, <1>3, <1>4 DEF IInv

(* The entries, their buckets, the clocks of the threads that list and     *)
(* sweep, and what a listing has seen agree in every behaviour of kv.c.    *)
THEOREM Invariance == Spec => []IInv
<1>1. IInv /\ [Next]_vars => IInv'
  BY KeyStep, ReaderStep, SweepStep, OtherStep DEF Next
<1> QED
  BY <1>1, InitHolds, PTL DEF Spec

(* Whatever is set, evicted, swept, cleared or moved by a table that grows, *)
(* every entry of kv.c is in the bucket where find_locked looks for it, a  *)
(* key has one entry, and count is the number of entries.                  *)
THEOREM TheTableIsSound == Spec => []TableSound
<1>1. IInv => TableSound
  <2> SUFFICES ASSUME IInv PROVE TableSound
    OBVIOUS
  <2>1. DOMAIN buckets = 0 .. nbuckets - 1
    BY DEF IInv, Shape, Placed
  <2>2. TypeOK
    BY DEF IInv, Types, Shape, Placed, TypeOK
  <2>3. count = Cardinality(UNION {buckets[b] : b \in DOMAIN buckets})
    BY DEF IInv, Shape, Counted, Entries, Everything
  <2> QED
    BY <2>1, <2>2, <2>3 DEF IInv, Shape, Placed, TableSound
<1> QED
  BY <1>1, Invariance, PTL
-----------------------------------------------------------------------------
(* The table that KeyTable describes, seen through the entries alive now.  *)
Pair(e) == [value |-> e.value, expires |-> e.expires]

ViewOf(bs, now) ==
    [k \in Live(bs, now) |->
        [value   |-> (CHOOSE e \in UNION {bs[b] : b \in DOMAIN bs} : e.key = k).value,
         expires |-> (CHOOSE e \in UNION {bs[b] : b \in DOMAIN bs} : e.key = k).expires]]

T == ViewOf(buckets, clock)

LEMMA ViewFacts ==
    ASSUME NEW n \in Nat \ {0}, NEW bs, Placed(bs, n), NEW now
    PROVE  /\ DOMAIN ViewOf(bs, now) = {e.key : e \in {x \in Everything(bs) : ~Expired(x, now)}}
           /\ \A e \in Everything(bs) : ~Expired(e, now) => ViewOf(bs, now)[e.key] = Pair(e)
<1>1. Unique(Everything(bs))
  BY PlacedFacts
<1>2. DOMAIN ViewOf(bs, now) = {e.key : e \in {x \in Everything(bs) : ~Expired(x, now)}}
  BY LiveFacts DEF ViewOf
<1>3. ASSUME NEW e \in Everything(bs), ~Expired(e, now)
      PROVE  ViewOf(bs, now)[e.key] = Pair(e)
  <2>1. (CHOOSE x \in Everything(bs) : x.key = e.key) = e
    BY <1>1 DEF Unique
  <2>2. e.key \in Live(bs, now)
    BY <1>3, LiveFacts
  <2>3. ViewOf(bs, now)[e.key] = [value   |-> (CHOOSE x \in Everything(bs) : x.key = e.key).value,
                                  expires |-> (CHOOSE x \in Everything(bs) : x.key = e.key).expires]
    BY <2>2 DEF ViewOf, Everything
  <2> QED
    BY <2>1, <2>3 DEF Pair
<1> QED
  BY <1>2, <1>3

(* The table f names what the entries E have alive at a time.              *)
Shows(f, E, now) ==
    /\ \A e \in E : ~Expired(e, now) => e.key \in DOMAIN f /\ f[e.key] = Pair(e)
    /\ \A x \in DOMAIN f : f[x].expires = 0 \/ f[x].expires > now
          => \E e \in E : e.key = x /\ f[x] = Pair(e)

AliveOf(f, now) == [x \in {y \in DOMAIN f : f[y].expires = 0 \/ f[y].expires > now} |-> f[x]]

LEMMA ViewIs ==
    ASSUME NEW n \in Nat \ {0}, NEW bs, Placed(bs, n), NEW now \in Nat, NEW f,
           Shows(f, Everything(bs), now)
    PROVE  ViewOf(bs, now) = AliveOf(f, now)
<1> DEFINE D == {y \in DOMAIN f : f[y].expires = 0 \/ f[y].expires > now}
<1>1. /\ DOMAIN ViewOf(bs, now) = {e.key : e \in {x \in Everything(bs) : ~Expired(x, now)}}
      /\ \A e \in Everything(bs) : ~Expired(e, now) => ViewOf(bs, now)[e.key] = Pair(e)
  BY ViewFacts
<1>2. Everything(bs) \subseteq Entry
  BY PlacedFacts
<1>3. \A e \in Everything(bs) : /\ e.expires \in Nat /\ Pair(e).expires = e.expires
                                /\ ~Expired(e, now) <=> (e.expires = 0 \/ e.expires > now)
  BY <1>2 DEF Entry, Expired, Pair
<1>4. ASSUME NEW x PROVE x \in D <=> x \in DOMAIN ViewOf(bs, now)
  BY <1>1, <1>3 DEF Shows
<1>5. \A x \in D : ViewOf(bs, now)[x] = f[x]
  BY <1>1, <1>3 DEF Shows
<1>6. ViewOf(bs, now) = [x \in DOMAIN ViewOf(bs, now) |-> ViewOf(bs, now)[x]]
  BY DEF ViewOf
<1>7. DOMAIN ViewOf(bs, now) = D
  BY <1>4
<1> QED
  BY <1>5, <1>6, <1>7 DEF AliveOf

(* The step that leaves f, less what has expired, is one of KeyTable.      *)
LEMMA BecomeMatches ==
    ASSUME Shape', clock' \in Nat, Witness, NEW f, Shows(f, Entries', clock')
    PROVE  Table!Become(f, clock')
<1>1. PICK n, bs, now : /\ n = nbuckets' /\ bs = buckets' /\ now = clock'
                        /\ n \in Nat \ {0} /\ now \in Nat /\ Placed(bs, n) /\ Entries' = Everything(bs)
  BY DEF Shape, Entries
<1>2. Shows(f, Everything(bs), now)
  BY <1>1
<1>3. ViewOf(bs, now) = AliveOf(f, now)
  BY <1>1, <1>2, ViewIs
<1>4. T' = ViewOf(bs, now) /\ DOMAIN ViewOf(bs, now) = Live(bs, now)
  BY <1>1 DEF T, ViewOf
<1>5. T' = Table!Alive(f, clock')
  BY <1>1, <1>3, <1>4 DEF Table!Alive, AliveOf
<1>6. seen' = [t \in Listers |-> IF seen[t] = {} THEN {} ELSE seen[t] \cup {DOMAIN T'}]
  BY <1>1, <1>4 DEF Witness
<1> QED
  BY <1>5, <1>6 DEF Table!Become, T, ViewOf, Whole

LEMMA TableFacts ==
    ASSUME IInv
    PROVE  /\ DOMAIN T = {e.key : e \in {x \in Entries : ~Expired(x, clock)}}
           /\ DOMAIN T = Live(buckets, clock) /\ DOMAIN T \subseteq Keys
           /\ \A e \in Entries : ~Expired(e, clock) => T[e.key] = Pair(e)
           /\ T = [k \in DOMAIN T |-> T[k]]
           /\ clock \in Nat
<1>1. PICK n, bs, now : /\ n = nbuckets /\ bs = buckets /\ now = clock
                        /\ n \in Nat \ {0} /\ Placed(bs, n)
  BY DEF IInv, Shape
<1>2. /\ DOMAIN ViewOf(bs, now) = {e.key : e \in {x \in Everything(bs) : ~Expired(x, now)}}
      /\ \A e \in Everything(bs) : ~Expired(e, now) => ViewOf(bs, now)[e.key] = Pair(e)
  BY <1>1, ViewFacts
<1>3. Everything(bs) \subseteq Entry
  BY <1>1, PlacedFacts
<1>4. DOMAIN ViewOf(bs, now) = Live(bs, now)
  BY DEF ViewOf
<1>5. ViewOf(bs, now) = [k \in DOMAIN ViewOf(bs, now) |-> ViewOf(bs, now)[k]]
  BY DEF ViewOf
<1>6. clock \in Nat
  BY KvAssumption DEF IInv, Types
<1> QED
  BY <1>1, <1>2, <1>3, <1>4, <1>5, <1>6 DEF T, Entries, Entry

(* What find_locked finds is what the table has at k.                      *)
LEMMA FoundIsAt ==
    ASSUME IInv, NEW k \in Keys
    PROVE  /\ k \in DOMAIN T <=> Found(k) # {}
           /\ \A e \in Found(k) : T[k] = Pair(e) /\ e \in Entry /\ e.key = k
           /\ \A e, f \in Found(k) : e = f
           /\ Table!At(k) = {Pair(e) : e \in Found(k)}
<1>1. /\ Found(k) = {e \in Of(Entries, k) : ~Expired(e, clock)} /\ AtMostOne(Found(k), k)
  BY ShapeFacts DEF IInv
<1>2. /\ DOMAIN T = {e.key : e \in {x \in Entries : ~Expired(x, clock)}}
      /\ \A e \in Entries : ~Expired(e, clock) => T[e.key] = Pair(e)
  BY TableFacts
<1>3. k \in DOMAIN T <=> Found(k) # {}
  BY <1>1, <1>2 DEF Of
<1>4. \A e \in Found(k) : T[k] = Pair(e) /\ e \in Entry /\ e.key = k
  BY <1>1, <1>2 DEF Of, AtMostOne
<1>5. \A e, f \in Found(k) : e = f
  BY <1>1 DEF AtMostOne
<1>6. Table!At(k) = IF k \in DOMAIN T THEN {T[k]} ELSE {}
  BY DEF Table!At, T, ViewOf, Whole
<1>7. (IF k \in DOMAIN T THEN {T[k]} ELSE {}) = {Pair(e) : e \in Found(k)}
  <2>1. CASE Found(k) = {}
    BY <1>3, <2>1
  <2>2. CASE Found(k) # {}
    <3>1. PICK e : Found(k) = {e}
      BY <1>5, <2>2
    <3> QED
      BY <1>3, <1>4, <3>1
  <2> QED
    BY <2>1, <2>2
<1> QED
  BY <1>3, <1>4, <1>5, <1>6, <1>7

(* A step that leaves es in place of the entry of k turns the table into   *)
(* any f that agrees with it but at k, where f agrees with es.             *)
LEMMA KeyMatches ==
    ASSUME IInv, NEW k \in Keys, NEW es, Outcome(k, es), Witness, clock' \in Later,
           NEW f, DOMAIN f \subseteq Keys,
           \A x \in Keys : x # k => (x \in DOMAIN f <=> x \in DOMAIN T),
           \A x \in DOMAIN f : x # k => f[x] = T[x],
           k \in DOMAIN f => \E e \in es : f[k] = Pair(e),
           \A e \in es : k \in DOMAIN f /\ f[k] = Pair(e)
    PROVE  Table!Become(f, clock')
<1>1. /\ Entries' = Others(Entries, k) \cup es /\ Shape' /\ \A e \in es : e.key = k
  BY DEF Outcome, AtMostOne
<1>2. clock \in Nat /\ clock' \in Nat /\ clock <= clock'
  BY KvAssumption DEF IInv, Types, Later
<1>3. Entries \subseteq Entry
  BY ShapeFacts DEF IInv
<1>4. /\ DOMAIN T = {e.key : e \in {x \in Entries : ~Expired(x, clock)}}
      /\ \A e \in Entries : ~Expired(e, clock) => T[e.key] = Pair(e)
  BY TableFacts
<1>5. ASSUME NEW e \in Entries', ~Expired(e, clock')
      PROVE  e.key \in DOMAIN f /\ f[e.key] = Pair(e)
  <2>1. CASE e \in es
    BY <1>1, <2>1
  <2>2. CASE e \in Others(Entries, k)
    <3>1. e \in Entries /\ e \in Entry /\ e.key # k /\ e.key \in Keys
      BY <1>3, <2>2 DEF Others, Entry
    <3>2. ~Expired(e, clock)
      BY <1>2, <1>5, <3>1, ExpiredStays
    <3> QED
      BY <1>4, <3>1, <3>2
  <2> QED
    BY <1>1, <2>1, <2>2
<1>6. ASSUME NEW x \in DOMAIN f
      PROVE  \E e \in Entries' : e.key = x /\ f[x] = Pair(e)
  <2>1. CASE x = k
    BY <1>1, <2>1
  <2>2. CASE x # k
    <3>1. x \in DOMAIN T /\ f[x] = T[x]
      BY <2>2
    <3>2. PICK e \in Entries : ~Expired(e, clock) /\ e.key = x /\ T[e.key] = Pair(e)
      BY <1>4, <3>1
    <3> QED
      BY <1>1, <2>2, <3>1, <3>2 DEF Others
  <2> QED
    BY <2>1, <2>2
<1>7. Shows(f, Entries', clock')
  BY <1>5, <1>6 DEF Shows
<1> QED
  BY <1>1, <1>2, <1>7, BecomeMatches
-----------------------------------------------------------------------------
(* Operation by operation: each step of KvStore is one of KeyTable.        *)
LEMMA LookMatches ==
    ASSUME IInv, NEW k \in Keys, Rechain(k, Found(k)), Witness, clock' \in Later
    PROVE  Table!Become(T, clock')
<1>1. PICK es, f : es = Found(k) /\ f = T
  OBVIOUS
<1>2. Outcome(k, es)
  BY <1>1, LookOutcome
<1>3. /\ DOMAIN f \subseteq Keys
      /\ k \in DOMAIN f => \E e \in es : f[k] = Pair(e)
      /\ \A e \in es : k \in DOMAIN f /\ f[k] = Pair(e)
  BY <1>1, TableFacts, FoundIsAt
<1>4. /\ \A x \in Keys : x # k => (x \in DOMAIN f <=> x \in DOMAIN T)
      /\ \A x \in DOMAIN f : x # k => f[x] = T[x]
  BY <1>1
<1>5. Table!Become(f, clock')
  BY <1>2, <1>3, <1>4, KeyMatches
<1> QED
  BY <1>1, <1>5

LEMMA GetMatches ==
    ASSUME IInv, NEW k \in Keys, Get(k)
    PROVE  Table!Get(k)
<1>1. Rechain(k, Found(k)) /\ Witness /\ clock' = clock /\ clock' \in Later
  BY KvAssumption DEF Get, IInv, Types, Later
<1>2. Table!Become(T, clock')
  BY <1>1, LookMatches
<1>3. {e.value : e \in Found(k)} = {e.value : e \in Table!At(k)}
  <2>1. PICK F, A : F = Found(k) /\ A = Table!At(k) /\ A = {Pair(e) : e \in F}
    BY FoundIsAt
  <2>2. \A e \in F : Pair(e).value = e.value
    BY DEF Pair
  <2> QED
    BY <2>1, <2>2
<1>4. reply' = [op |-> "get", found |-> {e.value : e \in Table!At(k)}]
  BY <1>3 DEF Get, Answer
<1>5. Table!Become(T, clock)
  BY <1>1, <1>2
<1> QED
  BY <1>4, <1>5 DEF Table!Get, Table!Answer, T, ViewOf, Whole

LEMMA ExistsMatches ==
    ASSUME IInv, NEW k \in Keys, Exists(k)
    PROVE  Table!Exists(k)
<1>1. Rechain(k, Found(k)) /\ Witness /\ clock' = clock /\ clock' \in Later
  BY KvAssumption DEF Exists, IInv, Types, Later
<1>2. Table!Become(T, clock')
  BY <1>1, LookMatches
<1>3. Found(k) # {} <=> Table!At(k) # {}
  BY FoundIsAt
<1>4. reply' = [op |-> "exists", found |-> {Table!At(k) # {}}]
  BY <1>3 DEF Exists, Answer
<1>5. Table!Become(T, clock)
  BY <1>1, <1>2
<1> QED
  BY <1>4, <1>5 DEF Table!Exists, Table!Answer, T, ViewOf, Whole

LEMMA TimeLeftMatches ==
    ASSUME IInv, NEW k \in Keys, TimeLeft(k)
    PROVE  Table!TimeLeft(k)
<1>1. PICK later \in Later : /\ clock' = later /\ Witness /\ Rechain(k, Found(k))
                             /\ Answer("ttl", {Left(e, later) : e \in Found(k)})
  BY DEF TimeLeft
<1>2. Table!Become(T, clock')
  BY <1>1, LookMatches
<1>3. later \in Nat /\ later \in Table!Later
  BY KvAssumption DEF IInv, Types, Later, Table!Later
<1>4. ASSUME NEW e \in Found(k) PROVE Left(e, later) = Table!Left(Pair(e), later)
  <2>1. PICK x : x = e.expires /\ x \in Nat /\ Pair(e).expires = x
    BY FoundIsAt DEF Entry, Pair
  <2>2. (IF x < later THEN 0 ELSE x - later) = (IF x > later THEN x - later ELSE 0)
    BY <1>3, <2>1
  <2>3. Left(e, later) = IF x = 0 THEN <<>> ELSE <<IF x < later THEN 0 ELSE x - later>>
    BY <2>1 DEF Left
  <2>4. Table!Left(Pair(e), later) = IF x = 0 THEN <<>> ELSE <<IF x > later THEN x - later ELSE 0>>
    BY <2>1 DEF Table!Left
  <2> QED
    BY <2>2, <2>3, <2>4
<1>5. {Left(e, later) : e \in Found(k)} = {Table!Left(e, later) : e \in Table!At(k)}
  BY <1>4, FoundIsAt
<1>6. reply' = [op |-> "ttl", found |-> {Table!Left(e, later) : e \in Table!At(k)}]
  BY <1>1, <1>5 DEF Answer
<1>7. Table!Become(T, later)
  BY <1>1, <1>2
<1> QED
  BY <1>3, <1>6, <1>7 DEF Table!TimeLeft, Table!Answer, T, ViewOf, Whole

LEMMA DeleteMatches ==
    ASSUME IInv, NEW k \in Keys, Delete(k)
    PROVE  Table!Delete(k)
<1>1. /\ Outcome(k, {}) /\ Witness /\ clock' = clock /\ clock' \in Later
      /\ Answer("del", {Found(k) # {}})
  BY DeleteOutcome, KvAssumption DEF IInv, Types, Later
<1>2. PICK f : f = [x \in DOMAIN T \ {k} |-> T[x]]
  OBVIOUS
<1>3. /\ DOMAIN f \subseteq Keys /\ k \notin DOMAIN f
      /\ \A x \in Keys : x # k => (x \in DOMAIN f <=> x \in DOMAIN T)
      /\ \A x \in DOMAIN f : x # k => f[x] = T[x]
  BY <1>2, TableFacts
<1>4. Table!Become(f, clock')
  BY <1>1, <1>3, KeyMatches
<1>5. Found(k) # {} <=> Table!At(k) # {}
  BY FoundIsAt
<1>6. reply' = [op |-> "del", found |-> {Table!At(k) # {}}]
  BY <1>1, <1>5 DEF Answer
<1>7. Table!Become([x \in DOMAIN T \ {k} |-> T[x]], clock)
  BY <1>1, <1>2, <1>4
<1> QED
  BY <1>6, <1>7 DEF Table!Delete, Table!Answer, T, ViewOf, Whole

LEMMA SetMatches ==
    ASSUME IInv, NEW k \in Keys, NEW v \in Values, Set(k, v)
    PROVE  Table!Set(k, v)
<1>1. PICK ttl, later, ok, es :
        /\ ttl \in TTLs /\ later \in Later /\ ok \in BOOLEAN
        /\ clock' = later /\ Witness /\ Answer("set", {ok}) /\ Outcome(k, es)
        /\ es = IF ok THEN {[key |-> k, value |-> v, expires |-> Expiry(ttl, later)]} ELSE {}
        /\ ~ok => Found(k) = {}
  BY SetOutcome
<1>2. later \in Table!Later /\ Table!Expiry(ttl, later) = Expiry(ttl, later)
  BY <1>1 DEF Later, Table!Later, Expiry, Table!Expiry
<1>3. PICK e, f : /\ e = [value |-> v, expires |-> Expiry(ttl, later)]
                  /\ f = IF ok THEN [x \in DOMAIN T \cup {k} |-> IF x = k THEN e ELSE T[x]] ELSE T
  OBVIOUS
<1>4. /\ DOMAIN f \subseteq Keys
      /\ \A x \in Keys : x # k => (x \in DOMAIN f <=> x \in DOMAIN T)
      /\ \A x \in DOMAIN f : x # k => f[x] = T[x]
      /\ k \in DOMAIN f => \E y \in es : f[k] = Pair(y)
      /\ \A y \in es : k \in DOMAIN f /\ f[k] = Pair(y)
  <2>1. CASE ok
    <3>1. f = [x \in DOMAIN T \cup {k} |-> IF x = k THEN e ELSE T[x]]
      BY <1>3, <2>1
    <3>2. \A y : y \in es <=> y = [key |-> k, value |-> v, expires |-> Expiry(ttl, later)]
      BY <1>1, <2>1
    <3>3. Pair([key |-> k, value |-> v, expires |-> Expiry(ttl, later)]) = e
      BY <1>3 DEF Pair
    <3> QED
      BY <3>1, <3>2, <3>3, TableFacts
  <2>2. CASE ~ok
    BY <1>1, <1>3, <2>2, TableFacts, FoundIsAt
  <2> QED
    BY <2>1, <2>2
<1>5. Table!Become(f, clock')
  BY <1>1, <1>4, KeyMatches
<1>6. f = IF ok THEN Table!Put(k, [value |-> v, expires |-> Table!Expiry(ttl, later)]) ELSE T
  BY <1>2, <1>3 DEF Table!Put, T, ViewOf, Whole
<1>7. Table!Become(IF ok THEN Table!Put(k, [value |-> v, expires |-> Table!Expiry(ttl, later)]) ELSE T, later)
  BY <1>1, <1>5, <1>6
<1>8. Table!Answer("set", {ok})
  BY <1>1 DEF Answer, Table!Answer
<1> QED
  BY <1>1, <1>2, <1>7, <1>8 DEF Table!Set, T, ViewOf, Whole

LEMMA ExpireMatches ==
    ASSUME IInv, NEW k \in Keys, Expire(k)
    PROVE  Table!Expire(k)
<1>1. PICK ttl, later, es :
        /\ ttl \in TTLs /\ later \in Later
        /\ clock' = later /\ Witness /\ Answer("expire", {Found(k) # {}}) /\ Outcome(k, es)
        /\ es = {[e EXCEPT !.expires = Expiry(ttl, later)] : e \in Found(k)}
  BY ExpireOutcome
<1>2. later \in Table!Later /\ Table!Expiry(ttl, later) = Expiry(ttl, later)
  BY <1>1 DEF Later, Table!Later, Expiry, Table!Expiry
<1>3. PICK x, g, f : /\ x = Expiry(ttl, later) /\ g = T
                     /\ f = IF k \in DOMAIN T THEN [g EXCEPT ![k].expires = x] ELSE g
  OBVIOUS
<1>4. /\ DOMAIN f = DOMAIN g /\ DOMAIN g \subseteq Keys
      /\ \A y \in DOMAIN f : y # k => f[y] = g[y]
      /\ k \in DOMAIN f => f[k] = [g[k] EXCEPT !.expires = x]
  BY <1>3, TableFacts
<1>5. /\ k \in DOMAIN f <=> Found(k) # {}
      /\ \A e \in Found(k) : e \in Entry /\ f[k] = [Pair(e) EXCEPT !.expires = x]
  BY <1>3, <1>4, FoundIsAt
<1>6. \A e \in Entry : Pair([e EXCEPT !.expires = x]) = [Pair(e) EXCEPT !.expires = x]
  BY DEF Pair, Entry
<1>7. /\ k \in DOMAIN f => \E y \in es : f[k] = Pair(y)
      /\ \A y \in es : k \in DOMAIN f /\ f[k] = Pair(y)
  <2>1. PICK F : F = Found(k) /\ \A e, h \in F : e = h
    BY FoundIsAt
  <2>2. \A e \in F : f[k] = Pair([e EXCEPT !.expires = x])
    BY <1>5, <1>6, <2>1
  <2>3. es = {[e EXCEPT !.expires = x] : e \in F}
    BY <1>1, <1>3, <2>1
  <2>4. ASSUME NEW y \in es PROVE k \in DOMAIN f /\ f[k] = Pair(y)
    <3>1. PICK e \in F : y = [e EXCEPT !.expires = x]
      BY <2>3
    <3> QED
      BY <1>5, <2>1, <2>2, <3>1
  <2>5. ASSUME k \in DOMAIN f PROVE \E y \in es : f[k] = Pair(y)
    <3>1. PICK e : e \in F
      BY <1>5, <2>1, <2>5
    <3>2. [e EXCEPT !.expires = x] \in es
      BY <2>3, <3>1
    <3> QED
      BY <2>2, <3>1, <3>2
  <2> QED
    BY <2>4, <2>5
<1>8. Table!Become(f, clock')
  BY <1>1, <1>3, <1>4, <1>7, KeyMatches
<1>9. Table!Become(IF k \in DOMAIN T THEN [T EXCEPT ![k].expires = Table!Expiry(ttl, later)] ELSE T, later)
  BY <1>1, <1>2, <1>3, <1>8
<1>10. Found(k) # {} <=> Table!At(k) # {}
  BY FoundIsAt
<1>11. reply' = [op |-> "expire", found |-> {Table!At(k) # {}}]
  BY <1>1, <1>10 DEF Answer
<1> QED
  BY <1>1, <1>2, <1>9, <1>11 DEF Table!Expire, Table!Answer, T, ViewOf, Whole

LEMMA IncrementMatches ==
    ASSUME IInv, NEW k \in Keys, Increment(k)
    PROVE  Table!Increment(k)
<1>1. PICK later, es :
        /\ later \in Later
        /\ clock' = later /\ Witness /\ Outcome(k, es)
        /\ \/ \E e \in Found(k) : /\ e.value \in Numbers /\ e.value + 1 \in Numbers
                                  /\ es = {[e EXCEPT !.value = @ + 1]}
                                  /\ Answer("incr", {e.value + 1})
           \/ (\E e \in Found(k) : e.value \in Texts) /\ es = Found(k) /\ later = clock /\ Answer("incr", {})
           \/ Found(k) = {} /\ es = {[key |-> k, value |-> 1, expires |-> 0]} /\ Answer("incr", {1})
           \/ Found(k) = {} /\ es = {} /\ later = clock /\ Answer("incr", {})
  BY IncrementOutcome
<1>2. later \in Table!Later /\ Table!Numbers = Numbers
  BY <1>1 DEF Later, Table!Later, Numbers, Table!Numbers
<1>3. PICK g : g = T
  OBVIOUS
<1>4. CASE \E e \in Found(k) : /\ e.value \in Numbers /\ e.value + 1 \in Numbers
                               /\ es = {[e EXCEPT !.value = @ + 1]}
                               /\ Answer("incr", {e.value + 1})
  <2>1. PICK e \in Found(k) : /\ e.value \in Numbers /\ e.value + 1 \in Numbers
                              /\ es = {[e EXCEPT !.value = @ + 1]}
                              /\ Answer("incr", {e.value + 1})
    BY <1>4
  <2>2. PICK f : f = [g EXCEPT ![k].value = @ + 1]
    OBVIOUS
  <2>3. e \in Entry /\ k \in DOMAIN g /\ g[k] = Pair(e) /\ Pair(e) \in Table!At(k)
    BY <1>3, FoundIsAt
  <2>4. /\ DOMAIN f = DOMAIN g /\ DOMAIN g \subseteq Keys
        /\ \A y \in DOMAIN f : y # k => f[y] = g[y]
        /\ f[k] = [Pair(e) EXCEPT !.value = @ + 1]
    BY <1>3, <2>2, <2>3, TableFacts
  <2>5. Pair([e EXCEPT !.value = @ + 1]) = [Pair(e) EXCEPT !.value = @ + 1] /\ Pair(e).value = e.value
    BY <2>3 DEF Pair, Entry
  <2>6. /\ k \in DOMAIN f => \E y \in es : f[k] = Pair(y)
        /\ \A y \in es : k \in DOMAIN f /\ f[k] = Pair(y)
    BY <2>1, <2>3, <2>4, <2>5
  <2>7. Table!Become(f, clock')
    BY <1>1, <1>3, <2>4, <2>6, KeyMatches
  <2>8. Table!Become([T EXCEPT ![k].value = @ + 1], later)
    BY <1>1, <1>3, <2>2, <2>7
  <2>9. Table!Answer("incr", {Pair(e).value + 1})
    BY <2>1, <2>5 DEF Answer, Table!Answer
  <2>10. Pair(e).value \in Table!Numbers /\ Pair(e).value + 1 \in Table!Numbers
    BY <1>2, <2>1, <2>5
  <2> QED
    BY <1>2, <2>3, <2>8, <2>9, <2>10 DEF Table!Increment, T, ViewOf, Whole
<1>5. CASE (\E e \in Found(k) : e.value \in Texts) /\ es = Found(k) /\ later = clock /\ Answer("incr", {})
  <2>1. /\ DOMAIN g \subseteq Keys
        /\ \A x \in Keys : x # k => (x \in DOMAIN g <=> x \in DOMAIN T)
        /\ \A x \in DOMAIN g : x # k => g[x] = T[x]
        /\ k \in DOMAIN g => \E y \in es : g[k] = Pair(y)
        /\ \A y \in es : k \in DOMAIN g /\ g[k] = Pair(y)
    BY <1>3, <1>5, FoundIsAt, TableFacts
  <2>2. Table!Become(g, clock')
    BY <1>1, <2>1, KeyMatches
  <2>3. Table!Become(T, clock)
    BY <1>1, <1>3, <1>5, <2>2
  <2>4. \A e \in Table!At(k) : e.value \in Texts
    BY <1>5, FoundIsAt DEF Pair
  <2>5. Table!Answer("incr", {})
    BY <1>5 DEF Answer, Table!Answer
  <2> QED
    BY <1>2, <2>3, <2>4, <2>5 DEF Table!Increment, T, ViewOf, Whole
<1>6. CASE Found(k) = {} /\ es = {[key |-> k, value |-> 1, expires |-> 0]} /\ Answer("incr", {1})
  <2>1. PICK e, f : e = [value |-> 1, expires |-> 0] /\ f = [x \in DOMAIN g \cup {k} |-> IF x = k THEN e ELSE g[x]]
    OBVIOUS
  <2>2. Pair([key |-> k, value |-> 1, expires |-> 0]) = e
    BY <2>1 DEF Pair
  <2>3. /\ DOMAIN f \subseteq Keys
        /\ \A x \in Keys : x # k => (x \in DOMAIN f <=> x \in DOMAIN T)
        /\ \A x \in DOMAIN f : x # k => f[x] = T[x]
        /\ k \in DOMAIN f => \E y \in es : f[k] = Pair(y)
        /\ \A y \in es : k \in DOMAIN f /\ f[k] = Pair(y)
    BY <1>3, <1>6, <2>1, <2>2, TableFacts
  <2>4. Table!Become(f, clock')
    BY <1>1, <2>3, KeyMatches
  <2>5. f = Table!Put(k, [value |-> 1, expires |-> 0])
    BY <1>3, <2>1 DEF Table!Put, T, ViewOf, Whole
  <2>6. Table!Become(Table!Put(k, [value |-> 1, expires |-> 0]), later)
    BY <1>1, <2>4, <2>5
  <2>7. Table!At(k) = {}
    BY <1>6, FoundIsAt
  <2>8. Table!Answer("incr", {1})
    BY <1>6 DEF Answer, Table!Answer
  <2> QED
    BY <1>2, <2>6, <2>7, <2>8 DEF Table!Increment
<1>7. CASE Found(k) = {} /\ es = {} /\ later = clock /\ Answer("incr", {})
  <2>1. /\ DOMAIN g \subseteq Keys /\ k \notin DOMAIN g
        /\ \A x \in Keys : x # k => (x \in DOMAIN g <=> x \in DOMAIN T)
        /\ \A x \in DOMAIN g : x # k => g[x] = T[x]
    BY <1>3, <1>7, FoundIsAt, TableFacts
  <2>2. Table!Become(g, clock')
    BY <1>1, <1>7, <2>1, KeyMatches
  <2>3. Table!Become(T, clock)
    BY <1>1, <1>3, <1>7, <2>2
  <2>4. Table!At(k) = {}
    BY <1>7, FoundIsAt
  <2>5. Table!Answer("incr", {})
    BY <1>7 DEF Answer, Table!Answer
  <2> QED
    BY <1>2, <2>3, <2>4, <2>5 DEF Table!Increment, T, ViewOf, Whole
<1> QED
  BY <1>1, <1>4, <1>5, <1>6, <1>7

(* Nobody asks for a key, and what has expired is gone.                    *)
LEMMA NobodyAsks ==
    ASSUME IInv, Shape', clock' \in Later, Witness,
           Entries' \subseteq Entries, \A e \in Entries \ Entries' : Expired(e, clock')
    PROVE  Table!Become(T, clock')
<1>1. PICK g : g = T
  OBVIOUS
<1>2. clock \in Nat /\ clock' \in Nat /\ clock <= clock' /\ Entries \subseteq Entry
  BY ShapeFacts, KvAssumption DEF IInv, Types, Later
<1>3. /\ DOMAIN g = {e.key : e \in {x \in Entries : ~Expired(x, clock)}}
      /\ \A e \in Entries : ~Expired(e, clock) => g[e.key] = Pair(e)
  BY <1>1, TableFacts
<1>4. ASSUME NEW e \in Entries', ~Expired(e, clock')
      PROVE  e.key \in DOMAIN g /\ g[e.key] = Pair(e)
  <2>1. e \in Entries /\ ~Expired(e, clock)
    BY <1>2, <1>4, ExpiredStays
  <2> QED
    BY <1>3, <2>1
<1>5. ASSUME NEW x \in DOMAIN g, g[x].expires = 0 \/ g[x].expires > clock'
      PROVE  \E e \in Entries' : e.key = x /\ g[x] = Pair(e)
  <2>1. PICK e \in Entries : e.key = x /\ g[x] = Pair(e)
    BY <1>3
  <2>2. e.expires = 0 \/ e.expires > clock'
    BY <1>5, <2>1 DEF Pair
  <2>3. ~Expired(e, clock')
    BY <1>2, <2>1, <2>2 DEF Expired, Entry
  <2> QED
    BY <2>1, <2>3
<1>6. Shows(g, Entries', clock')
  BY <1>4, <1>5 DEF Shows
<1>7. Table!Become(g, clock')
  BY <1>2, <1>6, BecomeMatches
<1> QED
  BY <1>1, <1>7

LEMMA TickMatches ==
    ASSUME IInv, Tick
    PROVE  Table!Pass
<1>1. /\ Witness /\ reply' = reply /\ clock' = clock + 1 /\ clock' \in Later /\ clock' \in Table!Later
      /\ UNCHANGED <<nbuckets, buckets, count>>
  BY KvAssumption DEF Tick, IInv, Types, Later, Table!Later
<1>2. Shape' /\ Entries' = Entries
  BY <1>1 DEF IInv, Shape, Placed, Counted, Entries, Everything
<1>3. Table!Become(T, clock')
  BY <1>1, <1>2, NobodyAsks
<1>4. PICK later \in Table!Later : later = clock'
  BY <1>1
<1>5. Table!Become(T, later)
  BY <1>3, <1>4
<1> QED
  BY <1>1, <1>5 DEF Table!Pass, T, ViewOf, Whole

LEMMA SweepMatches ==
    ASSUME IInv, NEW t \in Sweepers, EndSweep(t)
    PROVE  Table!Pass
<1>1. Shape' /\ Entries' = {e \in Entries : ~Expired(e, reader[t].now)} /\ Entries \subseteq Entry
  BY SweepEffect, ShapeFacts DEF IInv
<1>2. /\ Witness /\ reply' = reply /\ clock' = clock /\ clock' \in Later /\ clock \in Table!Later
      /\ clock \in Nat /\ reader[t].now \in Nat /\ reader[t].now <= clock
  BY KvAssumption DEF EndSweep, IInv, Types, ReadersBehind, Threads, Later, Table!Later
<1>3. \A e \in Entries \ Entries' : Expired(e, clock')
  BY <1>1, <1>2, ExpiredStays
<1>4. Table!Become(T, clock')
  BY <1>1, <1>2, <1>3, NobodyAsks
<1>5. PICK later \in Table!Later : later = clock'
  BY <1>2
<1>6. Table!Become(T, later)
  BY <1>4, <1>5
<1> QED
  BY <1>2, <1>6 DEF Table!Pass, T, ViewOf, Whole

LEMMA ClearMatches ==
    ASSUME IInv, Clear
    PROVE  Table!Clear
<1>1. Shape' /\ Entries' = {} /\ clock' = clock /\ reply' = reply /\ Witness /\ clock' \in Nat
  BY ClearEffect, KvAssumption DEF IInv, Clear, Types
<1>2. PICK f : f = <<>>
  OBVIOUS
<1>3. DOMAIN f = {}
  BY <1>2
<1>4. Shows(f, Entries', clock')
  BY <1>1, <1>3 DEF Shows
<1>5. Table!Become(f, clock')
  BY <1>1, <1>4, BecomeMatches
<1>6. Table!Become(<<>>, clock)
  BY <1>1, <1>2, <1>5
<1> QED
  BY <1>1, <1>6 DEF Table!Clear

LEMMA BeginKeysMatches ==
    ASSUME IInv, NEW t \in Listers, BeginKeys(t)
    PROVE  Table!BeginList(t)
<1>1. DOMAIN T = Live(buckets, clock)
  BY TableFacts
<1>2. /\ seen[t] = {} /\ seen' = [seen EXCEPT ![t] = {DOMAIN T}]
      /\ UNCHANGED <<nbuckets, buckets, clock, reply>>
  BY <1>1 DEF BeginKeys, IInv, ListingSound
<1>3. T' = T
  BY <1>2 DEF T, ViewOf, Live
<1> QED
  BY <1>2, <1>3 DEF Table!BeginList, T, ViewOf, Whole

(* A listing with an old clock names the keys alive all the while, since   *)
(* what is alive now was not expired then, and none that never was.        *)
LEMMA EndKeysMatches ==
    ASSUME IInv, NEW t \in Listers, EndKeys(t)
    PROVE  Table!EndList(t)
<1>1. PICK listed : listed = Live(buckets, reader[t].now)
  OBVIOUS
<1>2. /\ reader[t].op = "keys" /\ Table!Answer("keys", listed)
      /\ seen' = [seen EXCEPT ![t] = {}] /\ UNCHANGED <<nbuckets, buckets, clock>>
  BY <1>1 DEF EndKeys, Answer, Table!Answer, Listed
<1>3. /\ seen[t] # {} /\ Live(buckets, clock) \in seen[t]
      /\ \A e \in Entries : ~Expired(e, reader[t].now) => e.key \in UNION seen[t]
  BY <1>2 DEF IInv, ListingSound
<1>4. /\ clock \in Nat /\ reader[t].now \in Nat /\ reader[t].now <= clock
      /\ Entries \subseteq Entry /\ seen[t] \subseteq SUBSET Keys
  BY ShapeFacts, KvAssumption DEF IInv, Types, ReadersBehind, Threads
<1>5. /\ listed = {e.key : e \in {x \in Entries : ~Expired(x, reader[t].now)}}
      /\ Live(buckets, clock) = {e.key : e \in {x \in Entries : ~Expired(x, clock)}}
  BY <1>1 DEF Live, Entries, Everything
<1>6. listed \subseteq UNION seen[t] /\ listed \subseteq Keys
  BY <1>3, <1>4, <1>5 DEF Entry
<1>7. Live(buckets, clock) \subseteq listed
  BY <1>4, <1>5, ExpiredStays
<1>8. {k \in Keys : \A s \in seen[t] : k \in s} \subseteq listed
  BY <1>3, <1>7
<1>9. T' = T
  BY <1>2 DEF T, ViewOf, Live
<1> QED
  BY <1>2, <1>3, <1>6, <1>8, <1>9 DEF Table!EndList, T, ViewOf, Whole

LEMMA InitMatches == Init => Table!Init
<1> SUFFICES ASSUME Init PROVE Table!Init
  OBVIOUS
<1>1. Entries = {}
  BY DEF Init, Entries, Everything
<1>2. DOMAIN T = {}
  BY <1>1 DEF T, ViewOf, Live, Entries, Everything
<1>3. T = [x \in {} |-> x]
  BY <1>2 DEF T, ViewOf
<1>4. <<>> = [x \in {} |-> x]
  OBVIOUS
<1> QED
  BY <1>3, <1>4 DEF Init, Table!Init, Table!Nothing, T, ViewOf, Whole

(* What a caller of kv.c sees is a map in which a key is gone the moment   *)
(* its time is up: eviction on the way, sweeps with an old clock, growing  *)
(* and listings never show, and a listing names every key that was alive   *)
(* all the while.                                                          *)
THEOREM TheTableIsAMap == Spec => ImplementsTable
<1>1. ASSUME IInv, Next PROVE Table!Next \/ UNCHANGED Table!tableVars
  <2>1. ASSUME NEW k \in Keys,
               \/ Get(k) \/ Delete(k) \/ Exists(k) \/ Increment(k) \/ Expire(k) \/ TimeLeft(k)
               \/ \E v \in Values : Set(k, v)
        PROVE  Table!Next
    <3>1. CASE Get(k)
      BY <1>1, <3>1, GetMatches DEF Table!Next
    <3>2. CASE Delete(k)
      BY <1>1, <3>2, DeleteMatches DEF Table!Next
    <3>3. CASE Exists(k)
      BY <1>1, <3>3, ExistsMatches DEF Table!Next
    <3>4. CASE Increment(k)
      BY <1>1, <3>4, IncrementMatches DEF Table!Next
    <3>5. CASE Expire(k)
      BY <1>1, <3>5, ExpireMatches DEF Table!Next
    <3>6. CASE TimeLeft(k)
      BY <1>1, <3>6, TimeLeftMatches DEF Table!Next
    <3>7. CASE \E v \in Values : Set(k, v)
      <4>1. PICK v \in Values : Table!Set(k, v)
        BY <1>1, <3>7, SetMatches
      <4>2. v \in Table!Values
        BY DEF Values, Table!Values, Numbers, Table!Numbers
      <4> QED
        BY <4>1, <4>2 DEF Table!Next
    <3> QED
      BY <2>1, <3>1, <3>2, <3>3, <3>4, <3>5, <3>6, <3>7
  <2>2. ASSUME NEW t \in Listers, BeginKeys(t) \/ EndKeys(t) PROVE Table!Next
    BY <1>1, <2>2, BeginKeysMatches, EndKeysMatches DEF Table!Next
  <2>3. ASSUME NEW t \in Sweepers, EndSweep(t) PROVE Table!Next
    BY <1>1, <2>3, SweepMatches DEF Table!Next
  <2>4. ASSUME NEW t \in Sweepers, BeginSweep(t) PROVE UNCHANGED Table!tableVars
    <3>1. UNCHANGED <<clock, nbuckets, buckets, reply, seen>>
      BY <2>4 DEF BeginSweep
    <3>2. T' = T
      BY <3>1 DEF T, ViewOf, Live
    <3> QED
      BY <3>1, <3>2 DEF Table!tableVars, T, ViewOf, Whole
  <2>5. ASSUME Clear \/ Tick PROVE Table!Next
    BY <1>1, <2>5, ClearMatches, TickMatches DEF Table!Next
  <2> QED
    BY <1>1, <2>1, <2>2, <2>3, <2>4, <2>5 DEF Next
<1>2. ASSUME UNCHANGED vars PROVE UNCHANGED Table!tableVars
  <2>1. UNCHANGED <<clock, nbuckets, buckets, reply, seen>>
    BY <1>2 DEF vars
  <2>2. T' = T
    BY <2>1 DEF T, ViewOf, Live
  <2> QED
    BY <2>1, <2>2 DEF Table!tableVars, T, ViewOf, Whole
<1>3. IInv /\ [Next]_vars => [Table!Next]_(Table!tableVars)
  BY <1>1, <1>2
<1> QED
  BY <1>3, InitMatches, Invariance, PTL DEF Spec, ImplementsTable, Table!Spec
=============================================================================
