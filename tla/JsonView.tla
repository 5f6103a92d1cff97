------------------------------ MODULE JsonView ------------------------------
(* The zero-copy view of src/modules/view.c: the text is indexed into a    *)
(* flat array of tokens, each with its span in the text (from start up to  *)
(* but not including end), the number of its elements, and next, the token *)
(* after its subtree. Positions in the text count from 1, tokens from 0 as *)
(* in the code. v holds max_depth and cap, the capacity of the token array *)
(* the caller gave, 0 for one that grows.                                  *)
EXTENDS JsonText

NoTok == -1                             \* NYXJ_VIEW_NONE

Indexed(toks, p) == [ok |-> TRUE, toks |-> toks, p |-> p, size |-> 0, code |-> "OK"]
tfail(code)      == [ok |-> FALSE, toks |-> <<>>, p |-> 0, size |-> 0, code |-> code]

(* Appends a token for t[s .. e-1]; the reading goes on at p.              *)
emit(toks, v, type, s, e, escaped, p) ==
  IF v.cap # 0 /\ Len(toks) = v.cap THEN tfail("ELEMENT_LIMIT")
  ELSE Indexed(Append(toks, [type |-> type, start |-> s, end |-> e, size |-> 0,
                             next |-> Len(toks) + 1, escaped |-> escaped]), p)

(* The closing quote: escapes are checked on the way, UTF-8 at the end.    *)
RECURSIVE StringEnd(_, _)
StringEnd(t, p) ==
  LET r == scan_string_special(t, p)
      e == decode_escape(t, r, Len(t) + 1)
  IN  CASE At(t, r) = "end"                -> [code |-> "INVALID_STRING", p |-> r]
        [] At(t, r) = Quote                -> [code |-> "OK", p |-> r]
        [] At(t, r) = Back /\ e.used = 0   -> [code |-> e.code, p |-> r]
        [] At(t, r) = Back /\ e.used # 0   -> StringEnd(t, r + e.used)
        [] OTHER                           -> [code |-> "CONTROL_CHAR", p |-> r]

tok_string(t, p, v, toks) ==
  LET end == StringEnd(t, p + 1)
  IN  CASE end.code # "OK"               -> tfail(end.code)
        [] ~utf8_valid(t, p + 1, end.p)  -> tfail("INVALID_UTF8")
        [] OTHER -> emit(toks, v, "STRING", p + 1, end.p, \E i \in p + 1 .. end.p - 1 : t[i] = Back, end.p + 1)

RECURSIVE tok_value(_, _, _, _, _)
RECURSIVE TokRest(_, _, _, _, _, _, _)

Unexpected(t, p) == tfail(IF At(t, p) = "end" THEN "UNEXPECTED_EOF" ELSE "UNEXPECTED_CHAR")

(* The key of a member and its ':'; an element of an array has none.       *)
TokKey(t, p, v, toks, close) ==
  LET key   == tok_string(t, p, v, toks)
      colon == scan_ws(t, key.p)
  IN  CASE close = "]"          -> Indexed(toks, p)
        [] At(t, p) # Quote     -> Unexpected(t, p)
        [] ~key.ok              -> key
        [] At(t, colon) # ":"   -> Unexpected(t, colon)
        [] OTHER                -> [key EXCEPT !.p = colon + 1]

(* The loop over the elements, counting them.                              *)
TokAfter(t, elem, d, v, close, size) ==
  LET q == scan_ws(t, elem.p)
  IN  CASE ~elem.ok          -> elem
        [] At(t, q) = close  -> [elem EXCEPT !.p = q + 1, !.size = size + 1]
        [] At(t, q) = ","    -> TokRest(t, q + 1, d, v, elem.toks, close, size + 1)
        [] OTHER             -> Unexpected(t, q)

TokElement(t, key, d, v, close, size) ==
  IF key.ok THEN TokAfter(t, tok_value(t, key.p, d, v, key.toks), d, v, close, size) ELSE key

TokRest(t, p, d, v, toks, close, size) ==
  TokElement(t, TokKey(t, scan_ws(t, p), v, toks, close), d, v, close, size)

(* The token of a container is written first and completed at its end.     *)
Completed(all, at) ==
  LET own == [all.toks[at] EXCEPT !.end = all.p, !.size = all.size, !.next = Len(all.toks)]
  IN  IF all.ok THEN Indexed([all.toks EXCEPT ![at] = own], all.p) ELSE all

tok_container(t, p, d, v, toks, close) ==
  LET open == emit(toks, v, IF close = "}" THEN "OBJECT" ELSE "ARRAY", p, p, FALSE, scan_ws(t, p + 1))
  IN  CASE d + 1 > v.depth  -> tfail("DEPTH_LIMIT")
        [] ~open.ok         -> open
        [] OTHER            -> Completed(IF At(t, open.p) = close THEN [open EXCEPT !.p = @ + 1]
                                         ELSE TokRest(t, open.p, d + 1, v, open.toks, close, 0), Len(toks) + 1)

tok_literal(t, p, v, toks) ==
  IF At(t, p + 1) = Words[t[p]][2] THEN emit(toks, v, t[p], p, p + 2, FALSE, p + 2) ELSE tfail("INVALID_LITERAL")

ValueTok(t, p, d, v, toks) ==
  LET c == At(t, p)
      e == scan_number(t, p)
  IN  CASE c = "end"             -> tfail("UNEXPECTED_EOF")
        [] c \in {"{", "["}      -> tok_container(t, p, d, v, toks, IF c = "{" THEN "}" ELSE "]")
        [] c = Quote             -> tok_string(t, p, v, toks)
        [] c \in DOMAIN Words    -> tok_literal(t, p, v, toks)
        [] e # 0                 -> emit(toks, v, "NUMBER", p, e, FALSE, e)
        [] OTHER -> tfail(IF c \in Digit \cup {"-"} THEN "INVALID_NUMBER" ELSE "UNEXPECTED_CHAR")

tok_value(t, p, d, v, toks) == ValueTok(t, scan_ws(t, p), d, v, toks)

OnlyOne(t, r)    == IF r.ok /\ scan_ws(t, r.p) <= Len(t) THEN tfail("TRAILING_DATA") ELSE r
view_parse(t, v) == OnlyOne(t, tok_value(t, IF IsPrefix(BOM, t) THEN 4 ELSE 1, 0, v, <<>>))

-----------------------------------------------------------------------------
(* Navigation, over the tokens only.                                       *)
Tok(toks, i) == toks[i + 1]

view_string(t, toks, i) ==
  LET k == Tok(toks, i)
  IN  IF k.type # "STRING" THEN <<>>
      ELSE IF k.escaped THEN Decode(t, k.start, k.end).out ELSE SubSeq(t, k.start, k.end - 1)

view_eq(t, toks, i, s) == Tok(toks, i).type = "STRING" /\ view_string(t, toks, i) = s

(* A bug: elements are taken to be one token each.                         *)
FlatSibling(toks, i, n, step) == i + n * step

(* The n-th element after the first, by the chain of next.                 *)
RECURSIVE Sibling(_, _, _, _)
Sibling(toks, i, n, step) == IF n = 0 THEN i ELSE Sibling(toks, Tok(toks, i + step - 1).next, n - 1, step)

view_index(toks, arr, n) ==
  IF Tok(toks, arr).type = "ARRAY" /\ n < Tok(toks, arr).size THEN Sibling(toks, arr + 1, n, 1) ELSE NoTok

(* The value of the first member with that key; a member is two tokens.    *)
view_find(t, toks, obj, key) ==
  LET Key(n) == Sibling(toks, obj + 1, n, 2)
      at     == IF Tok(toks, obj).type # "OBJECT" THEN {}
                ELSE {n \in 0 .. Tok(toks, obj).size - 1 : view_eq(t, toks, Key(n), key)}
  IN  IF at = {} THEN NoTok ELSE Key(CHOOSE n \in at : \A m \in at : n <= m) + 1

(* A path is a sequence of steps, as for get_path, from the root.          *)
view_path(t, toks, path) ==
  FoldLeft(LAMBDA cur, step : IF cur = NoTok THEN NoTok
                              ELSE IF step[1] = "idx" THEN view_index(toks, cur, step[2])
                              ELSE view_find(t, toks, cur, step[2]),
           0, path)

RECURSIVE view_to_value(_, _, _)
view_to_value(t, toks, i) ==
  LET k      == Tok(toks, i)
      Key(n) == Sibling(toks, i + 1, n - 1, 2)
  IN  CASE k.type \in DOMAIN Words -> <<"lit", k.type>>
        [] k.type = "NUMBER" -> <<"num", number_value(SubSeq(t, k.start, k.end - 1))>>
        [] k.type = "STRING" -> <<"str", CString(view_string(t, toks, i))>>
        [] k.type = "ARRAY"  -> Arr([n \in 1 .. k.size |-> view_to_value(t, toks, Sibling(toks, i + 1, n - 1, 1))])
        [] k.type = "OBJECT" ->
             FoldLeft(LAMBDA o, n : object_set(o, CString(view_string(t, toks, Key(n))),
                                               view_to_value(t, toks, Key(n) + 1)),
                      Obj(<<>>), [n \in 1 .. k.size |-> n])
=============================================================================
