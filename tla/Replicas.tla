------------------------------ MODULE Replicas ------------------------------
(* Values that survive faults of the memory: src/modules/reliability.c. A  *)
(* value is kept three times and every read votes; a text is parsed twice  *)
(* and the results are compared. A checksum tells any two trees apart that *)
(* are not written alike; equals looks at the first of equal keys only.    *)
EXTENDS Integers

CONSTANTS Values,       \* trees that are stored, or that a fault leaves
          equals(_, _), \* nyxj_equals, and
          None,         \* the NULL pointer (see JsonTree)
          MaxFaults     \* faults of the memory (a bound)

(* Nothing is asked of equals, not even that a tree equals itself: one     *)
(* with a key twice and a different value each time does not, nor does one *)
(* with a number that is NaN.                                              *)
ReplicasAssumption ==
  /\ None \notin Values /\ \A v, w \in Values : equals(v, w) \in BOOLEAN
  /\ MaxFaults \in Nat

VARIABLES
  written,      \* the value stored last (history)
  replica,      \* the three copies
  faults,       \* faults since all three were last what was written (history)
  total         \* all faults

vars == <<written, replica, faults, total>>

checksum(v) == v
Same(a, b)  == checksum(a) = checksum(b) /\ equals(a, b)

Init == written \in Values /\ replica = [i \in 0 .. 2 |-> written] /\ faults = 0 /\ total = 0

(* The copy that wins, -1 if none does.                                    *)
Winner(r) ==
  CASE Same(r[0], r[1]) \/ Same(r[0], r[2]) -> 0
    [] ~Same(r[0], r[1]) /\ ~Same(r[0], r[2]) /\ Same(r[1], r[2]) -> 1
    [] OTHER -> -1

Outvoted(r) == {i \in DOMAIN r : i # Winner(r) /\ ~Same(r[i], r[Winner(r)])}

tmr_read(r) == IF Winner(r) = -1 THEN None ELSE r[Winner(r)]

(* The copies that lost are replaced by clones of the winner, but for      *)
(* those there is no memory for, which stay.                               *)
Repaired(r, failed) == [i \in DOMAIN r |-> IF i \in Outvoted(r) \ failed THEN tmr_read(r) ELSE r[i]]

Read(failed) ==
  /\ Winner(replica) # -1
  /\ replica' = Repaired(replica, failed)
  /\ faults' = IF \A i \in 0 .. 2 : replica'[i] = written THEN 0 ELSE faults
  /\ UNCHANGED <<written, total>>

(* A bug: the value is stored in two places.                               *)
StoredTwice(v) == [i \in 0 .. 2 |-> IF i < 2 THEN v ELSE replica[i]]
Stored(v)      == [i \in 0 .. 2 |-> v]

(* nyxj_tmr_write clones three times before it replaces anything; without  *)
(* memory it changes nothing.                                              *)
Write(v) == written' = v /\ replica' = Stored(v) /\ faults' = 0 /\ UNCHANGED total

Corrupt(i, v) ==
  /\ total < MaxFaults /\ v # replica[i]
  /\ replica' = [replica EXCEPT ![i] = v]
  /\ faults' = faults + 1 /\ total' = total + 1
  /\ UNCHANGED written

Next ==
  \/ \E failed \in SUBSET (0 .. 2) : Read(failed)
  \/ \E v \in Values : Write(v)
  \/ \E i \in 0 .. 2, v \in Values : Corrupt(i, v)

Spec == Init /\ [][Next]_vars

(* nyxj_parse_verified, of a primary and a shadow.                         *)
parse_verified(primary, shadow) == IF Same(primary, shadow) THEN primary ELSE None

-----------------------------------------------------------------------------
(* One fault since the copies were last made alike never shows, in any     *)
(* copy and to any value, and the read that repairs it makes room for      *)
(* another; a repair that found no memory leaves the vote as it was. A     *)
(* value that does not equal itself reads as NULL, with one fault as with  *)
(* none, never as what the fault left. Two faults show as the absence of a *)
(* majority unless they made two copies alike. And one fault in one of two *)
(* parses is never taken for the text.                                     *)
MasksOneFault ==
  /\ faults <= 1 => tmr_read(replica) = IF equals(written, written) THEN written ELSE None
  /\ tmr_read(replica) \notin {None, written} =>
       \E i, j \in 0 .. 2 : i # j /\ replica[i] # written /\ replica[j] # written
  /\ \A i, j \in 0 .. 2 : i # j /\ written \in {replica[i], replica[j]} => parse_verified(replica[i], replica[j]) \in {written, None}
=============================================================================
