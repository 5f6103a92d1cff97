------------------------------ MODULE KeyTable ------------------------------
(***************************************************************************)
(* What the key-value store of nyxj_kv.h promises: a map from keys to      *)
(* values, in which a key is gone the moment its time is up and every      *)
(* operation but a listing takes effect at one instant.                    *)
(***************************************************************************)
EXTENDS Naturals, FiniteSets

CONSTANTS Keys,
          Texts,       \* values that are not numbers
          MaxNumber,   \* bound on the numbers
          TTLs,        \* the times to live that callers pass, 0 for ever
          MaxClock,    \* bound on the clock
          Listers      \* the threads that list keys

VARIABLES table,       \* key -> [value, expires], the keys alive now
          clock,
          reply,       \* what the last operation returned
          seen         \* seen[t]: the keys alive at some instant of t's listing

tableVars == <<table, clock, reply, seen>>

Numbers == 0 .. MaxNumber
Values  == Texts \cup Numbers
Nothing == [op |-> "none", found |-> {}]
Answer(op, found) == reply' = [op |-> op, found |-> found]

Alive(f, t) == [k \in {x \in DOMAIN f : f[x].expires = 0 \/ f[x].expires > t} |-> f[k]]
Expiry(ttl, t) == IF ttl = 0 THEN 0 ELSE t + ttl
At(k) == IF k \in DOMAIN table THEN {table[k]} ELSE {}
Put(k, e) == [x \in DOMAIN table \cup {k} |-> IF x = k THEN e ELSE table[x]]

(* The table becomes f, less what has expired by the time the step ends.   *)
Become(f, later) ==
    /\ clock' = later
    /\ table' = Alive(f, later)
    /\ seen' = [t \in Listers |-> IF seen[t] = {} THEN {} ELSE seen[t] \cup {DOMAIN table'}]

Init == /\ table = <<>> /\ clock = 0 /\ reply = Nothing
        /\ seen = [t \in Listers |-> {}]

Later == clock .. MaxClock

Pass == UNCHANGED reply /\ \E later \in Later : Become(table, later)

Set(k, v) == \E later \in Later, ttl \in TTLs, ok \in BOOLEAN :
    /\ Answer("set", {ok})
    /\ Become(IF ok THEN Put(k, [value |-> v, expires |-> Expiry(ttl, later)]) ELSE table, later)

Get(k) == /\ Answer("get", {e.value : e \in At(k)})
          /\ Become(table, clock)

Delete(k) == /\ Answer("del", {At(k) # {}})
             /\ Become([x \in DOMAIN table \ {k} |-> table[x]], clock)

Exists(k) == /\ Answer("exists", {At(k) # {}})
             /\ Become(table, clock)

(* A missing key starts at 0, for ever; what is no number is left alone.   *)
Increment(k) ==
    \/ \E e \in At(k), later \in Later :
           /\ e.value \in Numbers /\ e.value + 1 \in Numbers
           /\ Answer("incr", {e.value + 1})
           /\ Become([table EXCEPT ![k].value = @ + 1], later)
    \/ \E later \in Later :
           /\ At(k) = {}
           /\ Answer("incr", {1})
           /\ Become(Put(k, [value |-> 1, expires |-> 0]), later)
    \/ Answer("incr", {}) /\ (\A e \in At(k) : e.value \in Texts) /\ Become(table, clock)

Expire(k) == \E later \in Later, ttl \in TTLs :
    /\ Answer("expire", {At(k) # {}})
    /\ Become(IF k \in DOMAIN table THEN [table EXCEPT ![k].expires = Expiry(ttl, later)] ELSE table, later)

(* How long a key has: <<>> when for ever.                                 *)
Left(e, t) == IF e.expires = 0 THEN <<>> ELSE <<IF e.expires > t THEN e.expires - t ELSE 0>>

TimeLeft(k) == \E later \in Later :
    /\ Answer("ttl", {Left(e, later) : e \in At(k)})
    /\ Become(table, later)

Clear == UNCHANGED reply /\ Become(<<>>, clock)

(* A listing may mix instants, but names every key that was alive all the  *)
(* while and none that never was.                                          *)
BeginList(t) == /\ seen[t] = {}
                /\ seen' = [seen EXCEPT ![t] = {DOMAIN table}]
                /\ UNCHANGED <<table, clock, reply>>

EndList(t) == /\ seen[t] # {}
              /\ \E listed \in SUBSET Keys :
                     /\ {k \in Keys : \A s \in seen[t] : k \in s} \subseteq listed
                     /\ listed \subseteq UNION seen[t]
                     /\ Answer("keys", listed)
              /\ seen' = [seen EXCEPT ![t] = {}]
              /\ UNCHANGED <<table, clock>>

Next == \/ \E k \in Keys : \/ Get(k) \/ Delete(k) \/ Exists(k) \/ Increment(k) \/ Expire(k) \/ TimeLeft(k)
                           \/ \E v \in Values : Set(k, v)
        \/ Pass \/ Clear
        \/ \E t \in Listers : BeginList(t) \/ EndList(t)

Spec == Init /\ [][Next]_tableVars
=============================================================================
