------------------------------ MODULE JsonRepair ------------------------------
(* The heuristic repair of src/modules/repair.c. One record holds the rctx *)
(* of the code: p, the place in the text; out, the text written; frames,   *)
(* the open containers; done and stop; fixes, the kinds of correction made *)
(* (the report also counts them). A frame is an object or not, with the    *)
(* fstate and whether a comma was seen after the last element.             *)
EXTENDS JsonText

Tick == "bq"      \* the backquote

fix(c, kind)    == [c EXCEPT !.fixes = @ \cup {kind}]
write(c, bytes) == [c EXCEPT !.out = @ \o bytes]
When(b, c, d)   == IF b THEN c ELSE d
move(c, p)      == [c EXCEPT !.p = p]

Outside(c)  == c.frames = <<>>
Depth(c)    == Len(c.frames)
top(c)      == IF Outside(c) THEN [obj |-> FALSE, st |-> "NONE", comma |-> FALSE] ELSE Last(c.frames)
enter(c, state) == [c EXCEPT !.frames[Depth(c)].st = state]

at_key_position(c) == top(c).obj /\ top(c).st \in {"KEY", "AFTER"}

Comma(c) == write(When(top(c).comma, c, fix(c, "missing_comma")), <<",">>)

(* The separators a value needs; a second value outside ends the reading.  *)
Separated(c) ==
  IF top(c).st = "AFTER" THEN enter(Comma(c), IF top(c).obj THEN "KEY" ELSE "VALUE") ELSE c

BeforeValue(c) ==
  CASE Outside(c) /\ c.done -> [fix(c, "trailing_data") EXCEPT !.stop = TRUE]
    [] Outside(c)           -> c
    [] top(c).obj /\ top(c).st = "KEY"   -> enter(write(fix(c, "garbage"), <<Quote, Quote, ":">>), "VALUE")
    [] top(c).obj /\ top(c).st = "COLON" -> enter(write(fix(c, "missing_colon"), <<":">>), "VALUE")
    [] OTHER                -> enter(c, "VALUE")

prepare_value(c) == BeforeValue(Separated(c))

value_done(c) ==
  IF Outside(c) THEN [c EXCEPT !.done = TRUE]
  ELSE [enter(c, "AFTER") EXCEPT !.frames[Depth(c)].comma = FALSE]

(* A bug: the comma before a key is forgotten.                             *)
prepare_bare_key(c) == enter(c, "COLON")

prepare_key(c) == enter(When(top(c).st = "AFTER", Comma(c), c), "COLON")

close_pending_member(c) ==
  CASE top(c).obj /\ top(c).st = "COLON" -> write(fix(c, "missing_value"), <<":">> \o Words.n)
    [] top(c).obj /\ top(c).st = "VALUE" -> write(fix(c, "missing_value"), Words.n)
    [] OTHER -> c

(* Writes the bracket that closes the innermost container.                 *)
Close(c) ==
  LET d == When(top(c).st = "AFTER" /\ top(c).comma, fix(c, "trailing_comma"), c)
      e == write(close_pending_member(d), <<IF top(c).obj THEN "}" ELSE "]">>)
  IN  value_done([e EXCEPT !.frames = Front(@)])

close_container(c, ch) ==
  IF Outside(c) THEN fix(c, "garbage")
  ELSE Close(When((ch = "}") # top(c).obj, fix(c, "bracket"), c))

Opened(c, obj, max) ==
  IF c.stop \/ Depth(c) >= max THEN [c EXCEPT !.stop = TRUE]
  ELSE write([c EXCEPT !.frames = Append(@, [obj |-> obj, st |-> IF obj THEN "KEY" ELSE "VALUE", comma |-> FALSE])],
             <<IF obj THEN "{" ELSE "[">>)

open_container(c, obj, max) == Opened(prepare_value(c), obj, max)

emit_escaped_control(ch) == IF ch = "NUL" THEN <<Back, "u", "0", "0", "0", "0">> ELSE EscapeOf(ch)

IsUnit(c, t) == c.p + 5 <= Len(t) /\ UnitAt(t, c.p) >= 0

(* Copies the string that opens at c.p into a string of JSON.              *)
RECURSIVE CopyRest(_, _, _)
CopyRest(c, t, quote) ==
  LET ch   == At(t, c.p)
      n    == At(t, c.p + 1)
      Go(d, k, bytes) == CopyRest(write(move(d, c.p + k), bytes), t, quote)
      Fixed == fix(c, "escape")
  IN  CASE ch = "end" -> write(fix(c, "unclosed"), <<Quote>>)
        [] ch = quote -> write(move(c, c.p + 1), <<Quote>>)
        [] ch = Back /\ n = "end"                              -> Go(Fixed, 1, <<>>)
        [] ch = Back /\ n \in DOMAIN Unescape                  -> Go(c, 2, <<Back, n>>)
        [] ch = Back /\ n = "u" /\ IsUnit(c, t)               -> Go(c, 6, SubSeq(t, c.p, c.p + 5))
        [] ch = Back /\ n = quote                              -> Go(c, 2, <<n>>)
        [] ch = Back /\ n = "\n"                               -> Go(Fixed, 2, <<>>)
        [] ch = Back                                           -> Go(Fixed, 1, <<Back, Back>>)
        [] ch = Quote                                          -> Go(c, 1, <<Back, Quote>>)
        [] ch \in Control                                      -> Go(Fixed, 1, emit_escaped_control(ch))
        [] OTHER                                               -> Go(c, 1, <<ch>>)

copy_string(c, t) ==
  CopyRest(write(move(When(t[c.p] = Quote, c, fix(c, "quotes")), c.p + 1), <<Quote>>), t, t[c.p])

Alpha     == (HexDigit \ Digit) \cup {"n", "r", "t", "u", "x", "T", "N", "I"}
WordStart == Alpha \cup {"_", "$"} \cup High
WordChar  == WordStart \cup Digit \cup {"-", "."}
Infinity  == <<"I", "f">>
Lax       == [w \in {<<"T", "r">>, <<"F", "a">>, <<"N", "u">>, Infinity} |->     \* True, FALSE, None, NaN
               CASE w[1] = "T" -> "t" [] w[1] = "F" -> "f" [] OTHER -> "n"]

(* A word or a number where a key stands is the key, in quotes.            *)
AsKey(c, word) == write(fix(prepare_key(c), "unquoted_key"), json_string(word))

WordValue(c, word) ==
  CASE c.stop                  -> c
    [] word \in Range(Words)   -> value_done(write(c, word))
    [] word \in DOMAIN Lax     -> value_done(write(fix(c, "literal"), Words[Lax[word]]))
    [] OTHER                   -> value_done(write(fix(c, "quotes"), json_string(word)))

(* The rewriting of sloppy numbers: +1, 007, .5, 5., and hexadecimal ones. *)
(* After 0x, strtoull takes another sign and another 0x; a negative value  *)
(* wraps to twenty digits, for which a 9 stands here.                      *)
Signed(s)   == At(s, 1) \in {"+", "-"}
Unsigned(s) == IF Signed(s) THEN Tail(s) ELSE s
Sign(s)     == IF At(s, 1) = "-" THEN <<"-">> ELSE <<>>
IsHex(s)    == IsPrefix(<<"0", "x">>, s) /\ Len(s) > 2

ULL(negative, digits) ==
  IF digits = <<>> \/ ~(Range(digits) \subseteq HexDigit) THEN <<>>
  ELSE IF negative /\ Range(digits) # {"0"} THEN <<"9">> ELSE Decimal(HexValue(digits))

BareHex(s)  == IF IsHex(s) THEN SubSeq(s, 3, Len(s)) ELSE s
strtoull(s) == ULL(At(s, 1) = "-", BareHex(Unsigned(s)))      \* <<>>: not all of it was read

WithoutZeros(body, zeros) ==
  SubSeq(body, (IF At(body, zeros + 1) \in Digit \/ zeros = 0 THEN zeros ELSE zeros - 1) + 1, Len(body))

WithDigits(rest) ==
  FlattenSeq([i \in 1 .. Len(rest) |-> IF rest[i] = "." /\ At(rest, i + 1) \notin Digit THEN <<>> ELSE <<rest[i]>>])

Pointed(rest) == (IF At(rest, 1) = "." THEN <<"0">> ELSE <<>>) \o WithDigits(rest)
Trimmed(body) == Pointed(WithoutZeros(body, PastAll(body, 1, {"0"}) - 1))

IsNumber(k) == k # <<>> /\ scan_number(k, 1) = Len(k) + 1

Normalised(c, s, norm) ==
  IF IsNumber(norm) THEN write(fix(c, "number"), norm) ELSE write(fix(c, "quotes"), json_string(s))

Sloppy(c, s, body, hex) ==
  CASE body = Infinity -> write(fix(c, "literal"), Words.n)
    [] hex # <<>>      -> write(fix(c, "number"), Sign(s) \o hex)
    [] OTHER           -> Normalised(c, s, Sign(s) \o Trimmed(body))

HexOf(body) == IF IsHex(body) THEN strtoull(SubSeq(body, 3, Len(body))) ELSE <<>>

NumberValue(c, s) ==
  CASE c.stop      -> c
    [] IsNumber(s) -> value_done(write(c, s))
    [] OTHER       -> value_done(Sloppy(c, s, Unsigned(s), HexOf(Unsigned(s))))

(* A key, or the value that handle_number or handle_word makes of it.      *)
Scanned(c, s, number) ==
  CASE at_key_position(c) -> AsKey(c, s)
    [] ~at_key_position(c) /\ number -> NumberValue(prepare_value(c), s)
    [] OTHER -> WordValue(prepare_value(c), s)

UpTo(c, t, end, number) == Scanned(move(c, end), SubSeq(t, c.p, end - 1), number)

handle_word(c, t)   == UpTo(c, t, PastAll(t, c.p, WordChar), FALSE)
handle_number(c, t) == UpTo(c, t, PastAll(t, c.p, Alpha \cup Digit \cup {"+", "-", "."}), TRUE)

comma(c0) ==
  LET c == move(c0, c0.p + 1)
      f == top(c)
      Seen(d) == [d EXCEPT !.frames[Depth(d)].comma = TRUE]
  IN  CASE f.obj /\ f.st \in {"COLON", "VALUE"} -> Seen(enter(close_pending_member(c), "AFTER"))
        [] f.st = "AFTER" /\ ~f.comma           -> Seen(c)
        [] OTHER                                -> fix(c, "garbage")

colon(c0, ch) ==
  LET c == move(c0, c0.p + 1)
  IN  IF top(c).obj /\ top(c).st = "COLON"
      THEN enter(write(When(ch = ":", c, fix(c, "missing_colon")), <<":">>), "VALUE")
      ELSE fix(c, "garbage")

QuotedValue(c, t) == IF c.stop THEN c ELSE value_done(copy_string(c, t))

quoted(c, t) ==
  IF at_key_position(c) THEN copy_string(prepare_key(c), t) ELSE QuotedValue(prepare_value(c), t)

skip_line(c, t) == move(c, FirstOf(t, c.p, {"\n"}))

(* One turn of the loop of nyxj_repair.                                    *)
Turn(c, t, max) ==
  LET ch   == t[c.p]
      two  == At(t, c.p + 1)
      note == fix(c, "comment")
      end  == CommentEnd(t, c.p + 2)
      fence == ch = Tick /\ two = Tick /\ At(t, c.p + 2) = Tick
  IN  CASE ch \in Blank -> move(c, c.p + 1)
        [] fence -> IF c.done /\ Outside(c) THEN [fix(c, "code_fence") EXCEPT !.stop = TRUE]
                    ELSE skip_line(fix(c, "code_fence"), t)
        [] ch = "#" \/ (ch = "/" /\ two = "/") -> skip_line(note, t)
        [] ch = "/" /\ two = "*" -> move(note, IF end = 0 THEN Len(t) + 1 ELSE end)
        [] ch = "{" -> open_container(move(c, c.p + 1), TRUE, max)
        [] ch = "[" -> open_container(move(c, c.p + 1), FALSE, max)
        [] ch \in {"}", "]"} -> close_container(move(c, c.p + 1), ch)
        [] ch = "," -> comma(c)
        [] ch \in {":", "="} -> colon(c, ch)
        [] ch \in {Quote, "'", Tick} /\ ~fence -> quoted(c, t)
        [] ch \in Digit \cup {"-", "+", "."} -> handle_number(c, t)
        [] ch \in WordStart -> handle_word(c, t)
        [] OTHER -> move(fix(c, "garbage"), c.p + 1)

RECURSIVE Turns(_, _, _)
Turns(c, t, max) == IF c.p > Len(t) \/ c.stop THEN c ELSE Turns(Turn(c, t, max), t, max)

RECURSIVE CloseAll(_)
CloseAll(c) == IF Outside(c) THEN c ELSE CloseAll(Close(c))

Start(t) == [p |-> IF IsPrefix(BOM, t) THEN 4 ELSE 1, out |-> <<>>, frames |-> <<>>, done |-> FALSE,
             stop |-> FALSE, fixes |-> IF IsPrefix(BOM, t) THEN {"bom"} ELSE {}]

(* The repaired text and the fixes; ok is FALSE for the NULL of the code.  *)
Result(c) == [ok |-> c.done, out |-> c.out, fixes |-> c.fixes]

AtTheEndOf(c) == Result(CloseAll(When(Outside(c), c, fix(c, "unclosed"))))

repair(t, max) == AtTheEndOf(Turns(Start(t), t, max))

(* The strict reading if there is one, else that of the repaired text.     *)
Lenient(strict, ok, again) == IF ~strict.ok /\ ok /\ again.ok THEN again ELSE strict

LenientAfter(strict, r, o) == Lenient(strict, r.ok, parse_ex(r.out, o))

parse_lenient(t, o) == LenientAfter(parse_ex(t, o), repair(t, o.depth), o)
=============================================================================
