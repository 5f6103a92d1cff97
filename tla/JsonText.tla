------------------------------ MODULE JsonText ------------------------------
(* Reading and writing JSON text: the scanning primitives of               *)
(* src/core/scan.h, the recursive descent parser of src/core/parser.c and  *)
(* the serializer of src/core/serializer.c.                                *)
(*                                                                         *)
(* A text is a sequence of bytes, and a byte is a string: "{" or "a", or   *)
(* the hexadecimal code of a byte above 7F. What the code tells apart is   *)
(* kept and the rest is represented: a literal is cut to its first two     *)
(* letters, and bytes that mean the same to all code stand for each other  *)
(* ("ctl", "x", "80").                                                     *)
EXTENDS JsonTree

Quote == "\""
Back  == "\\"
Blank == {" ", "\n", "\t", "\r"}                            \* nyxj_is_ws
Control == {"\n", "\t", "\r", "\f", "BS", "NUL", "ctl"}     \* below 0x20
Figures == <<"0", "1", "2", "3", "4", "5", "6", "7", "8", "9">>
Digit == Range(Figures)
Words == [t |-> <<"t", "r">>, f |-> <<"f", "a">>, n |-> <<"n", "u">>]
BOM   == <<"EF", "BB", "BF">>

(* Past the end there is "end", which is no byte.                          *)
At(t, p) == IF p \in 1 .. Len(t) THEN t[p] ELSE "end"

RECURSIVE FirstOf(_, _, _)
FirstOf(t, p, S) == IF At(t, p) \in S \cup {"end"} THEN p ELSE FirstOf(t, p + 1, S)

RECURSIVE PastAll(_, _, _)
PastAll(t, p, S) == IF At(t, p) \in S THEN PastAll(t, p + 1, S) ELSE p

scan_ws(t, p)             == PastAll(t, p, Blank)
scan_string_special(t, p) == FirstOf(t, p, {Quote, Back} \cup Control)

(* UTF-8. Continuation bytes: 80 stands for 80..8F, 90 for 90..9F, the     *)
(* others for A0..BF. Per leading byte, what may follow.                   *)
Cont == {"80", "90", "A0", "BB", "BF"}
Follow == [C3 |-> <<Cont>>,
           E0 |-> <<Cont \ {"80", "90"}, Cont>>, E1 |-> <<Cont, Cont>>, EF |-> <<Cont, Cont>>,
           ED |-> <<{"80", "90"}, Cont>>,
           F0 |-> <<Cont \ {"80"}, Cont, Cont>>, F1 |-> <<Cont, Cont, Cont>>,
           F4 |-> <<{"80"}, Cont, Cont>>]
High == Cont \cup DOMAIN Follow \cup {"C0", "FF"}

(* How many bytes the character at p takes before e, 0 if it is invalid.   *)
Utf8Len(t, p, e) ==
  IF t[p] \notin High THEN 1
  ELSE IF /\ t[p] \in DOMAIN Follow
          /\ p + Len(Follow[t[p]]) < e
          /\ \A i \in 1 .. Len(Follow[t[p]]) : t[p + i] \in Follow[t[p]][i]
       THEN 1 + Len(Follow[t[p]])
       ELSE 0

RECURSIVE utf8_valid(_, _, _)
utf8_valid(t, p, e) == p = e \/ (Utf8Len(t, p, e) # 0 /\ utf8_valid(t, p + Utf8Len(t, p, e), e))

(* Code points. What \u does not spell as itself is "ctl" or "x".          *)
Ascii(cp) ==
  CASE cp \in 48 .. 57 -> Figures[cp - 47]
    [] cp = 0  -> "NUL" [] cp = 8  -> "BS"  [] cp = 9  -> "\t" [] cp = 10 -> "\n" [] cp = 12 -> "\f"
    [] cp = 13 -> "\r"  [] cp = 34 -> Quote [] cp = 92 -> Back [] cp = 97 -> "a"
    [] cp \in 0 .. 31 \ {0, 8, 9, 10, 12, 13}          -> "ctl"
    [] cp \in 32 .. 127 \ (48 .. 57 \cup {34, 92, 97}) -> "x"

Lead(cp) ==
  CASE cp \in 128 .. 2047   -> "C3"
    [] cp \in 2048 .. 65535 -> LET h == cp \div 4096
                               IN  CASE h = 0 -> "E0" [] h = 13 -> "ED" [] h = 15 -> "EF" [] OTHER -> "E1"
    [] cp > 65535           -> LET h == cp \div 262144 IN IF h = 0 THEN "F0" ELSE IF h < 4 THEN "F1" ELSE "F4"

utf8_encode(cp) ==
  LET Six(n) == LET six == (cp \div n) % 64 IN IF six < 16 THEN "80" ELSE IF six < 32 THEN "90" ELSE "A0"
  IN  CASE cp < 128               -> <<Ascii(cp)>>
        [] cp \in 128 .. 2047     -> <<Lead(cp), Six(1)>>
        [] cp \in 2048 .. 65535   -> <<Lead(cp), Six(64), Six(1)>>
        [] cp > 65535             -> <<Lead(cp), Six(4096), Six(64), Six(1)>>

(* Four hexadecimal digits are a code point or half of a surrogate pair.   *)
HexDigits   == Figures \o <<"a", "b", "c", "d", "e", "f", "A", "B", "C", "D", "E", "F">>
HexDigit    == Range(HexDigits)
Nibble      == [d \in HexDigit |-> LET k == SelectInSeq(HexDigits, LAMBDA h : h = d) - 1
                                   IN  IF k > 15 THEN k - 6 ELSE k]
HexValue(s) == FoldLeft(LAMBDA n, d : 16 * n + Nibble[d], 0, s)
hex4(s)     == IF Len(s) = 4 /\ Range(s) \subseteq HexDigit THEN HexValue(s) ELSE -1

HighHalf  == 55296 .. 56319                             \* D800 .. DBFF
LowHalf   == 56320 .. 57343                             \* DC00 .. DFFF
Joined(high, low) == 65536 + (high - 55296) * 1024 + (low - 56320)

(* Escapes.                                                                *)
Unescape == [c \in {Quote, Back, "/", "b", "f", "n", "r", "t"} |->
               CASE c = "b" -> "BS" [] c = "f" -> "\f" [] c = "n" -> "\n"
                 [] c = "r" -> "\r" [] c = "t" -> "\t" [] OTHER -> c]

Bad(code)     == [used |-> 0, out |-> <<>>, code |-> code]
Got(n, bytes) == [used |-> n, out |-> bytes, code |-> "OK"]

(* After \u: one unit, or two that are a pair.                             *)
UnitAt(t, p)       == hex4(SubSeq(t, p + 2, p + 5))
AnotherAt(t, p, e) == p + 6 <= e /\ At(t, p) = Back /\ At(t, p + 1) = "u"

PairFrom(high, low) ==
  IF low \in LowHalf THEN Got(12, utf8_encode(Joined(high, low))) ELSE Bad("INVALID_UNICODE")

FromUnit(t, p, e, cp) ==
  CASE cp < 0 \/ cp \in LowHalf                         -> Bad("INVALID_UNICODE")
    [] cp \in HighHalf /\ ~AnotherAt(t, p + 6, e)       -> Bad("INVALID_UNICODE")
    [] cp \in HighHalf /\ AnotherAt(t, p + 6, e)        -> PairFrom(cp, UnitAt(t, p + 6))
    [] cp >= 0 /\ cp \notin HighHalf \cup LowHalf        -> Got(6, utf8_encode(cp))

(* The escape at p, within the bytes before e.                             *)
decode_escape(t, p, e) ==
  LET c == IF p + 1 < e THEN At(t, p + 1) ELSE "end"
  IN  CASE c = "end"              -> Bad("UNEXPECTED_EOF")
        [] c \in DOMAIN Unescape  -> Got(2, <<Unescape[c]>>)
        [] c = "u" /\ p + 6 > e   -> Bad("UNEXPECTED_EOF")
        [] c = "u" /\ p + 6 <= e  -> FromUnit(t, p, e, UnitAt(t, p))
        [] OTHER                  -> Bad("INVALID_ESCAPE")

(* The grammar of numbers: where the number at p ends, 0 if there is none. *)
SomeDigits(t, p) == IF At(t, p) \in Digit THEN PastAll(t, p, Digit) ELSE 0
IntEnd(t, p)     == IF At(t, p) = "0" THEN p + 1 ELSE SomeDigits(t, p)
FractionEnd(t, p) == IF At(t, p) = "." THEN SomeDigits(t, p + 1) ELSE p
ExponentEnd(t, p) == IF At(t, p) # "e" THEN p
                     ELSE SomeDigits(t, IF At(t, p + 1) \in {"+", "-"} THEN p + 2 ELSE p + 1)

scan_number(t, p) == ExponentEnd(t, FractionEnd(t, IntEnd(t, IF At(t, p) = "-" THEN p + 1 ELSE p)))

(* The double of a number: <<m, e>> for m * 10^e, m without a trailing     *)
(* zero, so that equal doubles are equal pairs; 0 and -0 compare equal.    *)
(* Beyond the range of a double there are infinity and 0, as from strtod.  *)
Infinite == 1000
Digits(s) == FoldLeft(LAMBDA n, c : 10 * n + (CHOOSE k \in 0 .. 9 : Figures[k + 1] = c), 0, s)

DigitsOf(q) == SelectSeq(q, LAMBDA c : c \in Digit)

(* all: the digits, the last-th the last but for zeros, 10^e that one's    *)
(* weight; e + last less the leading zeros are the digits before the point.*)
DoubleOf(sign, all, last, e) ==
  LET size == e + last - (SelectInSeq(all, LAMBDA c : c # "0") - 1)
  IN  CASE last = 0 \/ size < -323 -> <<0, 0>>
        [] last # 0 /\ size > 309  -> <<sign, Infinite>>
        [] OTHER                   -> <<sign * Digits(SubSeq(all, 1, last)), e>>

Scaled(s, dot, exp, all, last) ==
  LET ten == Digits(DigitsOf(SubSeq(s, exp, Len(s)))) * (IF At(s, exp + 1) = "-" THEN -1 ELSE 1)
  IN  DoubleOf(IF s[1] = "-" THEN -1 ELSE 1, all, last,
               ten + Len(all) - last - (IF dot < exp THEN exp - dot - 1 ELSE 0))

Split(s, dot, exp, all) == Scaled(s, dot, exp, all, SelectLastInSeq(all, LAMBDA c : c # "0"))
Parts(s, dot, exp)      == Split(s, dot, exp, DigitsOf(SubSeq(s, 1, exp - 1)))
number_value(s)         == Parts(s, FirstOf(s, 1, {".", "e"}), FirstOf(s, 1, {"e"}))

(* A string of the tree ends at its first NUL, whatever was decoded.       *)
CString(s) == SubSeq(s, 1, FirstOf(s, 1, {"NUL"}) - 1)

-----------------------------------------------------------------------------
(* The parser. Options: the limits (0 is none, but for the depth) and the  *)
(* flags of nyxj_parse_options.                                            *)
DefaultOptions == [depth |-> 4, str |-> 0, elems |-> 0, comments |-> FALSE, trailing |-> FALSE, reject |-> FALSE]

Ok(v, p)   == [ok |-> TRUE, v |-> v, p |-> p, code |-> "OK"]
Fail(code) == [ok |-> FALSE, v |-> None, p |-> 0, code |-> code]

RECURSIVE CommentEnd(_, _)
CommentEnd(t, p) == IF At(t, p + 1) = "end" THEN 0
                    ELSE IF t[p] = "*" /\ t[p + 1] = "/" THEN p + 2 ELSE CommentEnd(t, p + 1)

(* 0 stands for an unterminated comment, which fails as UNEXPECTED_EOF.    *)
RECURSIVE skip_ws(_, _, _)
skip_ws(t, p, o) ==
  LET q == scan_ws(t, p)
      End == CommentEnd(t, q + 2)
  IN  CASE ~o.comments \/ At(t, q) # "/" -> q
        [] At(t, q + 1) = "/" -> skip_ws(t, FirstOf(t, q + 2, {"\n"}), o)
        [] At(t, q + 1) = "*" -> IF End = 0 THEN 0 ELSE skip_ws(t, End, o)
        [] OTHER              -> q

(* The closing quote of a string, and what keeps it from being found.      *)
RECURSIVE Closing(_, _)
Closing(t, p) ==
  LET r == scan_string_special(t, p)
  IN  CASE At(t, r) = Quote                    -> [code |-> "OK", p |-> r]
        [] At(t, r) = Back /\ r < Len(t)       -> Closing(t, r + 2)
        [] At(t, r) \in {Back, "end"}          -> [code |-> "INVALID_STRING", p |-> r]
        [] OTHER                               -> [code |-> "CONTROL_CHAR", p |-> r]

DecodeCharacter(t, x, r, n) == IF n = 0 THEN Bad("INVALID_UTF8") ELSE Got(n, SubSeq(t, x, x + n - 1))

DecodeOne(t, x, r) ==
  IF t[x] = Back THEN decode_escape(t, x, r) ELSE DecodeCharacter(t, x, r, Utf8Len(t, x, r))

RECURSIVE Decode(_, _, _)
DecodeAfter(t, x, r, d) ==
  CASE d.code = "UNEXPECTED_EOF" -> Bad(IF t[x + 1] = "u" THEN "INVALID_UNICODE" ELSE "INVALID_ESCAPE")
    [] d.code # "OK" /\ d.code # "UNEXPECTED_EOF" -> d
    [] OTHER -> LET Prepend(rest) == [rest EXCEPT !.out = d.out \o @] IN Prepend(Decode(t, x + d.used, r))

Decode(t, x, r) == IF x = r THEN Got(0, <<>>) ELSE DecodeAfter(t, x, r, DecodeOne(t, x, r))

Long(n, o) == o.str # 0 /\ n > o.str

Decoded(d, end, o) ==
  CASE d.code # "OK"    -> Fail(d.code)
    [] Long(Len(d.out), o) -> Fail("STRING_LIMIT")
    [] OTHER            -> Ok(CString(d.out), end + 1)

StringUpTo(t, p, end, o) ==
  LET escaped == \E i \in p + 1 .. end.p - 1 : t[i] = Back
  IN  CASE end.code # "OK"                 -> Fail(end.code)
        [] ~escaped /\ Long(end.p - p - 1, o) -> Fail("STRING_LIMIT")
        [] OTHER                           -> Decoded(Decode(t, p + 1, end.p), end.p, o)

parse_string(t, p, o) == StringUpTo(t, p, Closing(t, p + 1), o)

parse_literal(t, p) ==
  IF At(t, p + 1) = Words[t[p]][2] THEN Ok(<<"lit", t[p]>>, p + 2) ELSE Fail("INVALID_LITERAL")

NumberUpTo(t, p, end) ==
  IF end = 0 THEN Fail("INVALID_NUMBER") ELSE Ok(<<"num", number_value(SubSeq(t, p, end - 1))>>, end)

parse_number(t, p) == NumberUpTo(t, p, scan_number(t, p))

RECURSIVE parse_value(_, _, _, _)
RECURSIVE ParseRest(_, _, _, _, _, _)

(* One member of an object: its key, the duplicate check, ':', its value.  *)
AfterKey(t, key, colon, value, o, pairs) ==
  CASE ~key.ok                           -> key
    [] o.reject /\ \E i \in 1 .. Len(pairs) : pairs[i][1] = key.v -> Fail("DUPLICATE_KEY")
    [] colon = 0 \/ At(t, colon) = "end" -> Fail("UNEXPECTED_EOF")
    [] At(t, colon) # ":"                -> Fail("UNEXPECTED_CHAR")
    [] ~value.ok                         -> value
    [] OTHER                             -> Ok(<<key.v, value.v>>, value.p)

AfterColon(t, key, colon, d, o, pairs) == AfterKey(t, key, colon, parse_value(t, colon + 1, d, o), o, pairs)
KeyRead(t, key, d, o, pairs)           == AfterColon(t, key, skip_ws(t, key.p, o), d, o, pairs)

MemberAt(t, p, d, o, pairs) ==
  CASE p = 0 \/ At(t, p) = "end" -> Fail("UNEXPECTED_EOF")
    [] p # 0 /\ At(t, p) \notin {"end", Quote} -> Fail("UNEXPECTED_CHAR")
    [] OTHER                     -> KeyRead(t, parse_string(t, p, o), d, o, pairs)

ParseMember(t, p0, d, o, pairs) == MemberAt(t, skip_ws(t, p0, o), d, o, pairs)

(* The loop of parse_array and of parse_object, from the element at p on.  *)
AfterElement(t, elem, q, d, o, close, done) ==
  LET all   == Append(done, elem.v)
      whole == IF close = "}" THEN Obj(all) ELSE Arr(all)
      next  == IF o.trailing THEN skip_ws(t, q + 1, o) ELSE q + 1
  IN  CASE ~elem.ok                                    -> elem
        [] o.elems # 0 /\ Len(all) > o.elems           -> Fail("ELEMENT_LIMIT")
        [] q = 0 \/ At(t, q) = "end"                   -> Fail("UNEXPECTED_EOF")
        [] At(t, q) = close                            -> Ok(whole, q + 1)
        [] At(t, q) # ","                              -> Fail("UNEXPECTED_CHAR")
        [] next = 0                                    -> Fail("UNEXPECTED_EOF")
        [] o.trailing /\ At(t, next) = close           -> Ok(whole, next + 1)
        [] OTHER                                       -> ParseRest(t, q + 1, d, o, close, all)

AfterBlanks(t, elem, d, o, close, done) == AfterElement(t, elem, skip_ws(t, elem.p, o), d, o, close, done)

ParseRest(t, p, d, o, close, done) ==
  AfterBlanks(t, IF close = "}" THEN ParseMember(t, p, d, o, done) ELSE parse_value(t, p, d, o), d, o, close, done)

(* parse_array and parse_object; the code raises the depth before it looks.*)
ParseContainer(t, p, d, o, close) ==
  LET q == skip_ws(t, p + 1, o)
  IN  CASE d + 1 > o.depth    -> Fail("DEPTH_LIMIT")
        [] q = 0              -> Fail("UNEXPECTED_EOF")
        [] At(t, q) = close   -> Ok(IF close = "}" THEN Obj(<<>>) ELSE Arr(<<>>), q + 1)
        [] OTHER              -> ParseRest(t, q, d + 1, o, close, <<>>)

StringValue(s) == IF s.ok THEN Ok(<<"str", s.v>>, s.p) ELSE s

ValueAt(t, p, d, o) ==
  LET c == At(t, p)
  IN  CASE p = 0 \/ c = "end"         -> Fail("UNEXPECTED_EOF")
        [] c \in {"{", "["}           -> ParseContainer(t, p, d, o, IF c = "{" THEN "}" ELSE "]")
        [] c = Quote                  -> StringValue(parse_string(t, p, o))
        [] c \in DOMAIN Words         -> parse_literal(t, p)
        [] c \in Digit \cup {"-"}     -> parse_number(t, p)
        [] OTHER                      -> Fail("UNEXPECTED_CHAR")

parse_value(t, p, d, o) == ValueAt(t, skip_ws(t, p, o), d, o)

(* A value, after the byte order mark if there is one, and nothing more.   *)
AtTheEnd(t, r, rest) ==
  IF r.ok /\ (rest = 0 \/ rest <= Len(t))
  THEN Fail(IF rest = 0 THEN "UNEXPECTED_EOF" ELSE "TRAILING_DATA")
  ELSE r

AfterValue(t, r, o) == AtTheEnd(t, r, skip_ws(t, r.p, o))
parse_ex(t, o)      == AfterValue(t, parse_value(t, IF IsPrefix(BOM, t) THEN 4 ELSE 1, 0, o), o)

-----------------------------------------------------------------------------
(* The serializer, compact.                                                *)
EscapeOf(c) ==
  CASE c \in {Quote, Back} -> <<Back, c>>
    [] c = "BS" -> <<Back, "b">> [] c = "\f" -> <<Back, "f">> [] c = "\n" -> <<Back, "n">>
    [] c = "\r" -> <<Back, "r">> [] c = "\t" -> <<Back, "t">>
    [] c = "ctl" -> <<Back, "u", "0", "0", "0", "1">>
    [] OTHER    -> <<c>>

(* A bug: nothing is escaped.                                              *)
json_string_raw(s) == <<Quote>> \o s \o <<Quote>>

json_string(s) == <<Quote>> \o FlattenSeq([i \in 1 .. Len(s) |-> EscapeOf(s[i])]) \o <<Quote>>

RECURSIVE Decimal(_)
Decimal(n) == IF n < 10 THEN <<Figures[n + 1]>> ELSE Decimal(n \div 10) \o Decimal(n % 10)

Zeros(n) == [i \in 1 .. n |-> "0"]

(* Integers are printed in full up to 2^53, here sixteen digits, others as *)
(* %g prints them: with a dot from 10^-4 up to 10^15, or with an exponent. *)
json_number(n) ==
  LET d     == Decimal(IF n[1] < 0 THEN -n[1] ELSE n[1])
      point == Len(d) + n[2]                            \* digits before the point
      frac  == IF Len(d) = 1 THEN <<>> ELSE <<".">> \o Tail(d)
      exp   == IF point > 0 THEN <<"+">> \o Decimal(point - 1) ELSE <<"-">> \o Decimal(1 - point)
      size  == CASE n[2] >= 0 /\ point <= 16            -> d \o Zeros(n[2])
                 [] n[2] < 0 /\ point \in 1 .. 15       -> SubSeq(d, 1, point) \o <<".">> \o SubSeq(d, point + 1, Len(d))
                 [] n[2] < 0 /\ point \in -3 .. 0       -> <<"0", ".">> \o Zeros(-point) \o d
                 [] OTHER                               -> <<d[1]>> \o frac \o <<"e">> \o exp
  IN  IF n[2] = Infinite THEN Words.n ELSE (IF n[1] < 0 THEN <<"-">> ELSE <<>>) \o size

RECURSIVE write_value(_)
write_value(v) ==
  LET Commas(parts) == FlattenSeq([i \in 1 .. Len(parts) |-> IF i = 1 THEN parts[i] ELSE <<",">> \o parts[i]])
  IN  CASE Kind(v) = "lit" -> Words[v[2]]
        [] Kind(v) = "num" -> json_number(v[2])
        [] Kind(v) = "str" -> json_string(v[2])
        [] IsArr(v) -> <<"[">> \o Commas([i \in 1 .. Len(v[2]) |-> write_value(v[2][i])]) \o <<"]">>
        [] IsObj(v) -> <<"{">> \o Commas([i \in 1 .. Len(v[2]) |->
                         json_string(v[2][i][1]) \o <<":">> \o write_value(v[2][i][2])]) \o <<"}">>
=============================================================================
