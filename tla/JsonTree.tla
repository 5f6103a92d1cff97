------------------------------ MODULE JsonTree ------------------------------
(* The value tree of src/core/value.c. A value is a pair of its kind and   *)
(* its content: <<"lit", word>> for null, true and false, <<"num", n>>,    *)
(* <<"str", s>>, <<"arr", items>> and <<"obj", pairs>>; a pair is          *)
(* <<key, value>>. The pairs keep the order of the linked list of the      *)
(* code, and the parser may put one key there twice. Indices of arrays     *)
(* count from 0, as in the code. Trees are values here: a clone is the     *)
(* tree itself, and freeing it leaves nothing to model.                    *)
EXTENDS Integers, Sequences, SequencesExt

None == <<"none">>      \* the NULL pointer

Null      == <<"lit", "n">>
Bool(b)   == <<"lit", IF b THEN "t" ELSE "f">>
Arr(s)    == <<"arr", s>>
Obj(s)    == <<"obj", s>>
Kind(v)   == v[1]
IsObj(v)  == Kind(v) = "obj"
IsArr(v)  == Kind(v) = "arr"
Pairs(o)  == o[2]

(* Where the first pair of that key stands, 0 when there is none.          *)
PairOf(o, key) ==
  LET at == {i \in 1 .. Len(Pairs(o)) : Pairs(o)[i][1] = key}
  IN  IF at = {} THEN 0 ELSE CHOOSE i \in at : \A j \in at : i <= j

get_member(o, key) ==
  IF IsObj(o) /\ PairOf(o, key) # 0 THEN Pairs(o)[PairOf(o, key)][2] ELSE None

array_get(a, i) ==
  LET j == IF IsArr(a) /\ i < 0 THEN i + Len(a[2]) ELSE i
  IN  IF IsArr(a) /\ j \in 0 .. Len(a[2]) - 1 THEN a[2][j + 1] ELSE None

(* An existing key keeps its place, a new one goes to the end.             *)
object_set(o, key, v) ==
  Obj(IF PairOf(o, key) # 0 THEN [Pairs(o) EXCEPT ![PairOf(o, key)] = <<key, v>>]
      ELSE Append(Pairs(o), <<key, v>>))

object_detach(o, key) ==
  IF IsObj(o) /\ PairOf(o, key) # 0 THEN Obj(RemoveAt(Pairs(o), PairOf(o, key))) ELSE o

array_insert(a, i, v) == Arr(InsertAt(a[2], i + 1, v))
array_detach(a, i)    == Arr(RemoveAt(a[2], i + 1))

(* Objects compare as the code does: as many pairs, and each pair of a     *)
(* equal to the FIRST pair of its key in b. It is not reflexive when an    *)
(* object holds a key twice.                                               *)
RECURSIVE equals(_, _)
equals(a, b) ==
  /\ Kind(a) = Kind(b)
  /\ CASE IsArr(a) -> /\ Len(a[2]) = Len(b[2])
                      /\ \A i \in 1 .. Len(a[2]) : equals(a[2][i], b[2][i])
       [] IsObj(a) -> /\ Len(Pairs(a)) = Len(Pairs(b))
                      /\ \A i \in 1 .. Len(Pairs(a)) :
                           LET other == get_member(b, Pairs(a)[i][1])
                           IN  other # None /\ equals(Pairs(a)[i][2], other)
       [] OTHER    -> a = b

(* A path is a sequence of steps <<"key", k>> and <<"idx", i>>; a step     *)
(* into nothing is nothing.                                                *)
get_path(root, path) ==
  FoldLeft(LAMBDA cur, step : IF cur = None THEN None
                              ELSE IF step[1] = "idx" THEN array_get(cur, step[2])
                              ELSE get_member(cur, step[2]),
           root, path)
=============================================================================
