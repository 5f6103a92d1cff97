------------------------------ MODULE DocPatch ------------------------------
(* JSON Pointer, JSON Patch and Merge Patch: src/modules/patch.c. A        *)
(* pointer is a sequence of bytes, with the escapes ~0 and ~1 as in the    *)
(* text. An operation is a record of op, path, from and value, with None   *)
(* for a member that is missing.                                           *)
EXTENDS JsonTree

CONSTANT TokenSize      \* the bytes of a reference token, with its NUL; 512

Numerals == <<"0", "1", "2", "3", "4", "5", "6", "7", "8", "9">>
Numeral(i) == <<Numerals[i + 1]>>       \* arrays of at most ten elements

(* One reference token, its escapes undone; None when it is malformed.     *)
next_token(raw) ==
  LET Put(s, c) == [s EXCEPT !.out = Append(@, c), !.tilde = FALSE, !.ok = Len(s.out) + 1 < TokenSize]
      Read(s, c) == CASE ~s.ok    -> s
                      [] s.tilde  -> IF c \in {"0", "1"} THEN Put(s, IF c = "0" THEN "~" ELSE "/")
                                     ELSE [s EXCEPT !.ok = FALSE]
                      [] c = "~"  -> [s EXCEPT !.tilde = TRUE]
                      [] OTHER    -> Put(s, c)
      Whole(all) == IF all.ok /\ ~all.tilde THEN all.out ELSE None
  IN  Whole(FoldLeft(Read, [out |-> <<>>, tilde |-> FALSE, ok |-> TRUE], raw))

(* The index a token stands for, -1 for none. At the end "-" is allowed,   *)
(* and the number of the elements.                                         *)
parse_index(tok, count, allow_end) ==
  IF allow_end /\ tok = <<"-">> THEN count
  ELSE IF \E i \in 0 .. (IF allow_end THEN count ELSE count - 1) : tok = Numeral(i)
       THEN CHOOSE i \in 0 .. count : tok = Numeral(i)
       ELSE -1

(* The reference tokens of a pointer that is empty or begins with "/".     *)
Tokens(pointer) ==
  LET Each(raw) == [i \in 1 .. Len(raw) |-> next_token(raw[i])]
  IN  Each(FoldLeft(LAMBDA s, c : IF c = "/" THEN Append(s, <<>>)
                                  ELSE [s EXCEPT ![Len(s)] = Append(@, c)], <<>>, pointer))

Element(v, i) == IF i = -1 THEN None ELSE array_get(v, i)

Child(v, tok) ==
  CASE IsObj(v) -> get_member(v, tok)
    [] IsArr(v) -> Element(v, parse_index(tok, Len(v[2]), FALSE))
    [] OTHER    -> None

At(root, toks) == FoldLeft(LAMBDA v, tok : IF v = None \/ tok = None THEN None ELSE Child(v, tok), root, toks)

IsPointer(p)            == p = <<>> \/ p[1] = "/"
pointer_get(root, path) == IF IsPointer(path) THEN At(root, Tokens(path)) ELSE None

(* The tree with another node where toks lead: what an assignment to the   *)
(* node does to the tree of the code.                                      *)
RECURSIVE With(_, _, _)
With(v, toks, new) ==
  CASE toks = <<>> -> new
    [] IsObj(v)    -> Obj([Pairs(v) EXCEPT ![PairOf(v, toks[1])] =
                             <<toks[1], With(Child(v, toks[1]), Tail(toks), new)>>])
    [] OTHER       -> Arr([v[2] EXCEPT ![parse_index(toks[1], Len(v[2]), FALSE) + 1] =
                             With(Child(v, toks[1]), Tail(toks), new)])

-----------------------------------------------------------------------------
(* The operations: the document after them, None if they fail.             *)
resolve_parent(root, toks) == IF Last(toks) = None THEN None ELSE At(root, Front(toks))

Inserted(parent, v, idx) == IF idx = -1 THEN None ELSE array_insert(parent, idx, v)

Put(parent, tok, v) ==
  CASE IsObj(parent) -> object_set(parent, tok, v)
    [] IsArr(parent) -> Inserted(parent, v, parse_index(tok, Len(parent[2]), TRUE))
    [] OTHER         -> None

Replaced(doc, toks, parent) == IF parent = None THEN None ELSE With(doc, Front(toks), parent)

PutAt(doc, toks, parent, v) == Replaced(doc, toks, IF parent = None THEN None ELSE Put(parent, Last(toks), v))
AddAt(doc, toks, v)         == PutAt(doc, toks, resolve_parent(doc, toks), v)

op_add(doc, path, v) == IF path = <<>> THEN v ELSE AddAt(doc, Tokens(path), v)

Less(parent, tok) == IF IsObj(parent) THEN object_detach(parent, tok)
                     ELSE array_detach(parent, parse_index(tok, Len(parent[2]), FALSE))

(* The document without what stood at path. The root cannot be detached.   *)
(* (A mistake: an element is taken out of a copy of its parent.)           *)
LeavesIt(doc, path) == IF path = <<>> \/ pointer_get(doc, path) = None THEN None ELSE doc

DetachAt(doc, toks) ==
  IF At(doc, toks) = None THEN None ELSE Replaced(doc, toks, Less(resolve_parent(doc, toks), Last(toks)))

op_detach(doc, path) == IF path = <<>> \/ ~IsPointer(path) THEN None ELSE DetachAt(doc, Tokens(path))

Op(name, path, value)  == [op |-> name, path |-> path, from |-> None, value |-> value]
Two(name, from, path)  == [op |-> name, path |-> path, from |-> from, value |-> None]

(* A move detaches what it moves from the document, a copy clones it.      *)
AddMoved(less, o, v) == IF less = None \/ v = None THEN None ELSE op_add(less, o.path, v)

move_or_copy(doc, o) ==
  CASE o.from = None \/ ~IsPointer(o.from)   -> None
    [] o.op = "move" /\ o.from = o.path      -> doc
    [] o.op = "move" /\ IsPrefix(Append(o.from, "/"), o.path) -> None
    [] OTHER -> AddMoved(IF o.op = "move" THEN op_detach(doc, o.from) ELSE doc, o, pointer_get(doc, o.from))

(* What the operations that need a value do with it; cur is what stands    *)
(* at the path.                                                            *)
Valued(doc, o, cur) ==
  CASE o.value = None -> None
    [] o.value # None /\ o.op = "test" -> IF cur # None /\ equals(cur, o.value) THEN doc ELSE None
    [] o.op = "replace" /\ cur = None  -> None
    [] OTHER -> AddMoved(IF o.op = "replace" /\ o.path # <<>> THEN op_detach(doc, o.path) ELSE doc, o, o.value)

apply_one(doc, o) ==
  CASE o.path = None \/ ~IsPointer(o.path)      -> None
    [] o.op = "remove"                          -> op_detach(doc, o.path)
    [] o.op \in {"move", "copy"}                -> move_or_copy(doc, o)
    [] o.op \in {"add", "replace", "test"}      -> Valued(doc, o, pointer_get(doc, o.path))
    [] OTHER                                    -> None

(* A whole patch, as patch_apply runs it when nothing interrupts it.       *)
apply_all(doc, ops) == FoldLeft(LAMBDA d, o : IF d = None THEN None ELSE apply_one(d, o), doc, ops)

-----------------------------------------------------------------------------
(* The path of a member; a mistake would be not to escape its name.        *)
push_raw_token(path, tok) == path \o <<"/">> \o tok

push_token(path, tok) ==
  path \o <<"/">> \o FlattenSeq([i \in 1 .. Len(tok) |-> CASE tok[i] = "~" -> <<"~", "0">>
                                                           [] tok[i] = "/" -> <<"~", "1">>
                                                           [] OTHER        -> <<tok[i]>>])

(* The patch from a to b. The buffer of the path holds arbitrary bytes     *)
(* until the first token is pushed: fresh is what stands there before its  *)
(* first NUL, and the path of an operation on the root.                    *)
RECURSIVE diff_rec(_, _, _, _)

Removals(path, gone) == [i \in 1 .. Len(gone) |-> Op("remove", push_token(path, gone[i][1]), None)]

DiffMember(path, m, old, fresh) ==
  IF old = None THEN <<Op("add", push_token(path, m[1]), m[2])>>
  ELSE diff_rec(push_token(path, m[1]), old, m[2], fresh)

DiffObjects(path, a, b, fresh) ==
  Removals(path, SelectSeq(Pairs(a), LAMBDA m : get_member(b, m[1]) = None))
  \o FlattenSeq([i \in 1 .. Len(Pairs(b)) |-> DiffMember(path, Pairs(b)[i], get_member(a, Pairs(b)[i][1]), fresh)])

(* The common elements, then those b has more, or a from the end.          *)
DiffArrays(path, a, b, na, nb, fresh) ==
  FlattenSeq([i \in 1 .. IF na < nb THEN na ELSE nb |-> diff_rec(push_token(path, Numeral(i - 1)), a[i], b[i], fresh)])
  \o [i \in 1 .. nb - na |-> Op("add", push_token(path, Numeral(na + i - 1)), b[na + i])]
  \o [i \in 1 .. na - nb |-> Op("remove", push_token(path, Numeral(na - i)), None)]

Diff(path, a, b, fresh) ==
  CASE IsObj(a) /\ IsObj(b) -> DiffObjects(path, a, b, fresh)
    [] IsArr(a) /\ IsArr(b) -> DiffArrays(path, a[2], b[2], Len(a[2]), Len(b[2]), fresh)
    [] OTHER                -> <<Op("replace", IF path = <<>> THEN fresh ELSE path, b)>>

diff_rec(path, a, b, fresh) == IF equals(a, b) THEN <<>> ELSE Diff(path, a, b, fresh)

diff(from, to, fresh) == diff_rec(<<>>, from, to, fresh)

-----------------------------------------------------------------------------
(* Merge patches, where null deletes; target may be None.                  *)
RECURSIVE merge_patch(_, _)
merge_patch(target, patch) ==
  IF ~IsObj(patch) THEN patch
  ELSE FoldLeft(LAMBDA t, m : IF m[2] = Null THEN object_detach(t, m[1])
                              ELSE object_set(object_detach(t, m[1]), m[1], merge_patch(get_member(t, m[1]), m[2])),
                IF target = None \/ ~IsObj(target) THEN Obj(<<>>) ELSE target,
                Pairs(patch))

RECURSIVE merge_diff(_, _)
MergeMember(out, m, old) ==
  CASE old = None -> object_set(out, m[1], m[2])
    [] old # None /\ equals(old, m[2]) -> out
    [] OTHER -> object_set(out, m[1], IF IsObj(old) /\ IsObj(m[2]) THEN merge_diff(old, m[2]) ELSE m[2])

merge_diff(from, to) ==
  LET Gone(out, m) == IF get_member(to, m[1]) = None THEN object_set(out, m[1], Null) ELSE out
  IN  IF ~IsObj(from) \/ ~IsObj(to) THEN to
      ELSE FoldLeft(LAMBDA out, m : MergeMember(out, m, get_member(from, m[1])),
                    FoldLeft(Gone, Obj(<<>>), Pairs(from)), Pairs(to))
=============================================================================
