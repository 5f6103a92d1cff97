------------------------------ MODULE SaxParser ------------------------------
(* The streaming parser of src/modules/sax.c, one byte at a time: whatever *)
(* the chunks are, all that nyxj_sax_feed keeps between two bytes is in    *)
(* the struct, and here in one record:                                     *)
(*   st     the sax_state, in capitals      stack  the open containers     *)
(*   counts their elements so far           tok    the token so far        *)
(*   key    str_is_key                      rest   the literal to come     *)
(*   high   pending_high, 0 if there is none                               *)
(*   hex    the digits after \u so far      need   the UTF-8 bytes to come *)
(*   bom    bytes of the byte order mark    off    bytes consumed          *)
(*   ev     the events the handler got      docs   documents completed     *)
(*   err    the error code                                                 *)
(* The options: depth, token, elems (0 for no limit), multi, and left, how *)
(* many events the handler takes before it returns false.                  *)
EXTENDS JsonText

Created == [st |-> "VALUE", stack |-> <<>>, counts |-> <<>>, tok |-> <<>>, key |-> FALSE,
            rest |-> <<>>, high |-> 0, hex |-> <<>>, need |-> <<>>, bom |-> 0, off |-> 0,
            ev |-> <<>>, docs |-> 0, err |-> "OK"]

(* A bug: the reset forgets the bytes a character still needs.             *)
reset_keeping_need(s) == [Created EXCEPT !.key = s.key, !.rest = s.rest, !.hex = s.hex, !.need = s.need]

(* Ready for another input; what is written before it is read stays as it  *)
(* was: key, rest and hex. The handler starts a new list.                  *)
reset(s) == [Created EXCEPT !.key = s.key, !.rest = s.rest, !.hex = s.hex]

Failed(s)     == s.st = "ERROR"
sfail(s, code) == IF Failed(s) THEN s ELSE [s EXCEPT !.st = "ERROR", !.err = code]

(* An event to the handler, which may have had enough of them.             *)
CB(s, o, event) ==
  IF Failed(s) THEN s
  ELSE IF Len(s.ev) >= o.left THEN sfail(s, "INVALID_ARGUMENT") ELSE [s EXCEPT !.ev = Append(@, event)]

tok_put(s, o, bytes) ==
  IF Len(s.tok) + Len(bytes) > o.token THEN sfail(s, "STRING_LIMIT") ELSE [s EXCEPT !.tok = @ \o bytes]

end_value(s, o) ==
  LET n == Len(s.stack)
  IN  CASE Failed(s) -> s
        [] n = 0     -> CB([s EXCEPT !.docs = @ + 1, !.st = "DONE"], o, <<"end">>)
        [] o.elems # 0 /\ s.counts[n] + 1 > o.elems -> sfail(s, "ELEMENT_LIMIT")
        [] OTHER     -> [s EXCEPT !.counts[n] = IF o.elems # 0 THEN @ + 1 ELSE @, !.st = "AFTER_VALUE"]

push(s, o, kind) ==
  IF Len(s.stack) >= o.depth THEN sfail(s, "DEPTH_LIMIT")
  ELSE [s EXCEPT !.stack = Append(@, kind), !.counts = Append(@, 0)]

close_container(s, o, kind) ==
  IF s.stack = <<>> \/ Last(s.stack) # kind THEN sfail(s, "UNEXPECTED_CHAR")
  ELSE end_value(CB([s EXCEPT !.stack = Front(@), !.counts = Front(@)], o, <<"close", kind>>), o)

Opened(s, o, kind, state) ==
  LET in == CB(push(s, o, kind), o, <<"open", kind>>)
  IN  IF Failed(in) THEN in ELSE [in EXCEPT !.st = state]

begin_value(s, o, ch) ==
  CASE ch = "{" -> Opened(s, o, "O", "OBJECT_FIRST")
    [] ch = "[" -> Opened(s, o, "A", "ARRAY_FIRST")
    [] ch = Quote -> [s EXCEPT !.key = FALSE, !.tok = <<>>, !.st = "STRING"]
    [] ch \in DOMAIN Words -> [s EXCEPT !.rest = Tail(Words[ch]), !.tok = <<ch>>, !.st = "LITERAL"]
    [] ch \in Digit \cup {"-"} -> tok_put([s EXCEPT !.tok = <<>>, !.st = "NUMBER"], o, <<ch>>)
    [] OTHER -> sfail(s, "UNEXPECTED_CHAR")

finish_number(s, o) ==
  IF scan_number(s.tok, 1) # Len(s.tok) + 1 THEN sfail(s, "INVALID_NUMBER")
  ELSE end_value(CB(s, o, <<"num", number_value(s.tok)>>), o)

finish_string(s, o) ==
  IF ~s.key THEN end_value(CB(s, o, <<"str", s.tok>>), o)
  ELSE LET told == CB(s, o, <<"key", s.tok>>) IN IF Failed(told) THEN told ELSE [told EXCEPT !.st = "COLON"]

string_byte(s, o, ch) ==
  CASE s.high # 0 -> IF ch = Back THEN [s EXCEPT !.st = "STRING_ESC"] ELSE sfail(s, "INVALID_UNICODE")
    [] s.high = 0 /\ s.need # <<>> ->
         IF ch \in Head(s.need) THEN tok_put([s EXCEPT !.need = Tail(@)], o, <<ch>>) ELSE sfail(s, "INVALID_UTF8")
    [] OTHER ->
         CASE ch = Quote                             -> finish_string(s, o)
           [] ch = Back                              -> [s EXCEPT !.st = "STRING_ESC"]
           [] ch \in Control                         -> sfail(s, "CONTROL_CHAR")
           [] ch \in High /\ ch \notin DOMAIN Follow -> sfail(s, "INVALID_UTF8")
           [] OTHER -> tok_put([s EXCEPT !.need = IF ch \in High THEN Follow[ch] ELSE <<>>], o, <<ch>>)

escape_byte(s, o, ch) ==
  CASE s.high # 0 /\ ch # "u"   -> sfail(s, "INVALID_UNICODE")
    [] ch \in DOMAIN Unescape   -> tok_put([s EXCEPT !.st = "STRING"], o, <<Unescape[ch]>>)
    [] ch = "u"                 -> [s EXCEPT !.st = "STRING_U", !.hex = <<>>]
    [] OTHER                    -> sfail(s, "INVALID_ESCAPE")

(* A unit is complete: a character, or half of one.                        *)
UnitRead(s, o, u) ==
  CASE s.high # 0 /\ u \in LowHalf    -> tok_put([s EXCEPT !.high = 0], o, utf8_encode(Joined(s.high, u)))
    [] s.high # 0 /\ u \notin LowHalf -> sfail(s, "INVALID_UNICODE")
    [] s.high = 0 /\ u \in HighHalf   -> [s EXCEPT !.high = u]
    [] s.high = 0 /\ u \in LowHalf    -> sfail(s, "INVALID_UNICODE")
    [] OTHER                          -> tok_put(s, o, utf8_encode(u))

(* One of the four digits after \u.                                        *)
unicode_byte(s, o, ch) ==
  LET next == [s EXCEPT !.hex = Append(@, ch)]
  IN  CASE ch \notin HexDigit               -> sfail(s, "INVALID_UNICODE")
        [] ch \in HexDigit /\ Len(s.hex) < 3 -> next
        [] ch \in HexDigit /\ Len(s.hex) = 3 -> UnitRead([next EXCEPT !.st = "STRING"], o, HexValue(next.hex))

NumberChar == Digit \cup {"-", "+", ".", "e"}

literal_byte(s, o, ch) ==
  CASE ch # Head(s.rest)   -> sfail(s, "INVALID_LITERAL")
    [] Len(s.rest) > 1     -> [s EXCEPT !.rest = Tail(@)]
    [] OTHER               -> end_value(CB(s, o, <<"lit", s.tok[1]>>), o)

(* What the state makes of a byte that is not skipped as white space.      *)
Dispatch(s, o, ch) ==
  CASE s.st = "VALUE"       -> begin_value(s, o, ch)
    [] s.st = "ARRAY_FIRST" -> IF ch = "]" THEN close_container(s, o, "A") ELSE begin_value(s, o, ch)
    [] s.st \in {"OBJECT_FIRST", "KEY"} ->
         IF ch = Quote THEN [s EXCEPT !.key = TRUE, !.tok = <<>>, !.st = "STRING"]
         ELSE IF ch = "}" /\ s.st = "OBJECT_FIRST" THEN close_container(s, o, "O")
         ELSE sfail(s, "UNEXPECTED_CHAR")
    [] s.st = "COLON"       -> IF ch = ":" THEN [s EXCEPT !.st = "VALUE"] ELSE sfail(s, "UNEXPECTED_CHAR")
    [] s.st = "AFTER_VALUE" ->
         CASE ch = "," -> [s EXCEPT !.st = IF Last(s.stack) = "O" THEN "KEY" ELSE "VALUE"]
           [] ch = "}" -> close_container(s, o, "O")
           [] ch = "]" -> close_container(s, o, "A")
           [] OTHER    -> sfail(s, "UNEXPECTED_CHAR")
    [] s.st = "DONE"        -> IF o.multi THEN begin_value(s, o, ch) ELSE sfail(s, "TRAILING_DATA")
    [] s.st = "STRING"      -> string_byte(s, o, ch)
    [] s.st = "STRING_ESC"  -> escape_byte(s, o, ch)
    [] s.st = "STRING_U"    -> unicode_byte(s, o, ch)
    [] s.st = "LITERAL"     -> literal_byte(s, o, ch)
    [] s.st = "NUMBER"      -> tok_put(s, o, <<ch>>)
    [] s.st = "ERROR"       -> s

Structural == {"VALUE", "ARRAY_FIRST", "OBJECT_FIRST", "KEY", "COLON", "AFTER_VALUE", "DONE"}

AfterNumber(s, o, ch) == IF s.st = "NUMBER" /\ ch \notin NumberChar THEN finish_number(s, o) ELSE s

Consumed(s) == IF Failed(s) THEN s ELSE [s EXCEPT !.off = @ + 1]

Take(s, o, ch) == Consumed(IF s.st \in Structural /\ ch \in Blank THEN s ELSE Dispatch(s, o, ch))

(* One turn of the loop of nyxj_sax_feed. A byte that ends a number is     *)
(* processed again, in the state the number leads to.                      *)
Byte(s, o, ch) ==
  LET atMark == s.off < 3 /\ s.bom = s.off /\ s.st = "VALUE" /\ s.stack = <<>>
  IN  CASE Failed(s)                       -> s
        [] atMark /\ ch = BOM[s.bom + 1]   -> [s EXCEPT !.bom = @ + 1, !.off = @ + 1]
        [] atMark /\ s.bom > 0             -> sfail(s, "INVALID_UTF8")
        [] OTHER                           -> Take(AfterNumber(s, o, ch), o, ch)

feed(s, o, data) == FoldLeft(LAMBDA d, ch : Byte(d, o, ch), s, data)

LastNumber(s, o) == IF s.st = "NUMBER" THEN finish_number(s, o) ELSE s

(* A bug: the end is not checked to be the end of a document.              *)
finish_anywhere(s, o) == LastNumber(s, o)

Complete(s, o) ==
  IF s.st \in {"ERROR", "DONE"} \/ (o.multi /\ s.st = "VALUE" /\ s.stack = <<>>) THEN s
  ELSE sfail(s, "UNEXPECTED_EOF")

(* The end of the input; an empty stream is a stream of no documents.      *)
finish(s, o) == Complete(LastNumber(s, o), o)

sax_validate(t, o) == finish(feed(Created, o, t), o)
=============================================================================
