----------------------------- MODULE JsonReaders -----------------------------
(* The readers of JSON side by side. A client feeds a text to a streaming  *)
(* parser piece by piece; at every moment the same bytes, as one text, can *)
(* be given to the parser, the gate, the view and the repair. The readers  *)
(* are five pieces of code that must agree on one language.                *)
EXTENDS SafeGate, FiniteSets

View   == INSTANCE JsonView
Repair == INSTANCE JsonRepair

CONSTANTS Jobs          \* what may be fed: records of
                        \*   pieces   the chunks fed, sequences of bytes
                        \*   size     how many bytes at most (a bound)
                        \*   sax      the options of the streaming parser
                        \*   broken   whether to go on after an error
                        \*   again    whether the parser may be reset

VARIABLES
  job,      \* the one of Jobs that was chosen
  sax,      \* the streaming parser
  text,     \* what it was fed since it was created or reset
  again     \* it was reset

vars == <<job, sax, text, again>>

Init == job \in Jobs /\ sax = Created /\ text = <<>> /\ again = FALSE

(* nyxj_sax_feed, with one more piece. A client stops at an error.         *)
Feed(data) ==
  /\ Len(text) + Len(data) <= job.size
  /\ job.broken \/ ~Failed(sax)
  /\ sax' = feed(sax, job.sax, data)
  /\ text' = text \o data
  /\ UNCHANGED <<job, again>>

(* nyxj_sax_reset, after an error in most cases, once per behaviour.       *)
Reset ==
  /\ ~again /\ text # <<>>
  /\ job.again
  /\ sax' = reset(sax) /\ text' = <<>> /\ again' = TRUE
  /\ UNCHANGED job

Next == (\E data \in job.pieces : Feed(data)) \/ Reset

Spec == Init /\ [][Next]_vars

-----------------------------------------------------------------------------
(* What the handler hears of a tree: the order of the text, duplicates     *)
(* included.                                                               *)
RECURSIVE Events(_)
Events(v) ==
  LET n == Len(v[2])
  IN  CASE IsArr(v) -> <<<<"open", "A">>>> \o FlattenSeq([i \in 1 .. n |-> Events(v[2][i])]) \o <<<<"close", "A">>>>
        [] IsObj(v) -> <<<<"open", "O">>>>
                       \o FlattenSeq([i \in 1 .. n |-> <<<<"key", v[2][i][1]>>>> \o Events(v[2][i][2])])
                       \o <<<<"close", "O">>>>
        [] OTHER    -> <<v>>

Heard(ev) == [i \in 1 .. Len(ev) |-> IF ev[i][1] \in {"key", "str"} THEN <<ev[i][1], CString(ev[i][2])>> ELSE ev[i]]

(* The documents of a stream, one after the other. A number ends where no  *)
(* byte of a number follows.                                               *)
RECURSIVE Documents(_, _, _)
Documents(t, p, o) ==
  LET Before(rest, v) == [ok |-> rest.ok, docs |-> <<v>> \o rest.docs]
      After(r) == IF ~r.ok \/ (Kind(r.v) = "num" /\ At(t, r.p) \in NumberChar) THEN [ok |-> FALSE, docs |-> <<>>]
                  ELSE Before(Documents(t, r.p, o), r.v)
  IN  IF scan_ws(t, p) > Len(t) THEN [ok |-> TRUE, docs |-> <<>>] ELSE After(parse_value(t, p, 0, o))

Reading == [DefaultOptions EXCEPT !.depth = job.sax.depth, !.elems = job.sax.elems]

(* The handler heard all of it, or as much as it let itself be told.        *)
SaxHears(end, ok, all) ==
  IF ok THEN /\ Failed(end) <=> Len(all) > job.sax.left
             /\ Heard(end.ev) = SubSeq(all, 1, Min({job.sax.left, Len(all)}))
  ELSE Failed(end)

(* A stream that ends within a byte order mark: nyxj_sax_finish finds the  *)
(* parser before a value and takes the stream for an empty one (sax.c:366),*)
(* where nyxj_sax_feed calls a mark that goes on differently an error      *)
(* (sax.c:300) and the tree parser refuses the text.                       *)
EndsInMark == text \in {SubSeq(BOM, 1, n) : n \in 1 .. 2}
TakenForEmpty(end) == ~Failed(end) /\ end.ev = <<>> /\ ~parse_ex(text, Reading).ok

OneByOne(docs) == FlattenSeq([i \in 1 .. Len(docs) |-> Append(Events(docs[i]), <<"end">>)])

(* However the text was cut, and whatever the parser read before its       *)
(* reset, the streaming parser accepts what the tree parser accepts, under *)
(* the same limits, and tells its handler the tree; a handler that stops   *)
(* has heard the beginning of it. A stream of documents is the documents   *)
(* one by one, but for the one text the two differ on: a mark cut short is *)
(* a stream of no documents. (sax.c keeps a number, an escape and how many *)
(* of its digits were read, half a pair, a literal or a character in its   *)
(* struct from one call to the next; SAX strings may hold NUL.)            *)
SaxAgreesWithParser ==
  LET end        == finish(sax, job.sax)
      Single(r)  == SaxHears(end, r.ok, IF r.ok THEN OneByOne(<<r.v>>) ELSE <<>>)
      Many(read) == IF EndsInMark THEN TakenForEmpty(end) ELSE SaxHears(end, read.ok, OneByOne(read.docs))
  IN  IF job.sax.multi THEN Many(Documents(text, IF IsPrefix(BOM, text) THEN 4 ELSE 1, Reading))
      ELSE Single(parse_ex(text, Reading))

(* The bytes of the tokens of the text, at least as many as the gate       *)
(* counts for a string or a number.                                        *)
Policies == {[size |-> 0, depth |-> 2, string |-> 2, elems |-> 1, empty |-> FALSE, object |-> FALSE],
             [size |-> 4, depth |-> 4, string |-> 9, elems |-> 0, empty |-> TRUE, object |-> TRUE]}

LimitCodes == {"SIZE_LIMIT", "DEPTH_LIMIT", "STRING_LIMIT", "ELEMENT_LIMIT", "TYPE_MISMATCH"}

StandsFor(verdict, body, r, p) ==
  LET blank == scan_ws(body, 1) > Len(body)
  IN  /\ verdict.allowed /\ ~(blank /\ p.empty) => r.ok /\ (p.object => IsObj(r.v))
      /\ ~verdict.allowed /\ verdict.code \notin LimitCodes => ~r.ok

(* What the gate lets pass, and is not blank, the parser behind it reads   *)
(* within the limits of the policy; what the gate finds malformed the      *)
(* parser refuses. (gate.c: the check is the only one the proxy makes.)    *)
GateStandsForParser ==
  \A p \in Policies :
    LET body == IF IsPrefix(BOM, text) THEN SubSeq(text, 4, Len(text)) ELSE text
    IN  StandsFor(gate_check(text, p), body,
                  parse_ex(body, [DefaultOptions EXCEPT !.depth = p.depth, !.str = p.string, !.elems = p.elems]), p)

(* The tree with the last of equal keys, where the first one stood.        *)
RECURSIVE LastOfEach(_)
LastOfEach(v) ==
  CASE IsArr(v) -> Arr([i \in 1 .. Len(v[2]) |-> LastOfEach(v[2][i])])
    [] IsObj(v) -> FoldLeft(LAMBDA o, m : object_set(o, m[1], LastOfEach(m[2])), Obj(<<>>), v[2])
    [] OTHER    -> v

(* Paths of two steps, some of which lead somewhere.                       *)
Step  == {<<"key", <<"a">>>>, <<"key", <<"b">>>>, <<"idx", 0>>, <<"idx", 1>>}
Paths == {<<f, s>> : f \in Step, s \in Step} \cup {<<f>> : f \in Step}

(* A tree r, a view w of the same text, and the tree without duplicates.   *)
SameTree(r, w, once) ==
  LET Of(i) == IF i = View!NoTok THEN None ELSE View!view_to_value(text, w.toks, i)
      Last1(v) == IF v = None THEN None ELSE LastOfEach(v)
  IN  /\ w.ok <=> r.ok
      /\ once.ok <=> r.ok /\ LastOfEach(r.v) = r.v
      /\ r.ok => /\ Of(0) = LastOfEach(r.v)
                 /\ \A path \in Paths : Of(View!view_path(text, w.toks, path)) = Last1(get_path(r.v, path))
                 /\ \A cap \in 1 .. Len(w.toks) :
                       View!view_parse(text, [depth |-> Reading.depth, cap |-> cap]).ok <=> cap = Len(w.toks)

(* The zero-copy view accepts the texts the parser accepts; its tokens are *)
(* the tree, the last of equal keys winning, and a parser that rejects     *)
(* duplicates refuses exactly the texts where there is a choice; a path    *)
(* leads to the same value by the links from token to token as in the      *)
(* tree; and a smaller array of tokens is refused, never overrun. (view.c: *)
(* next and size are completed only when a container closes.)              *)
ViewAgreesWithParser ==
  job.sax.elems = 0 =>
    SameTree(parse_ex(text, Reading), View!view_parse(text, [depth |-> Reading.depth, cap |-> 0]),
             parse_ex(text, [Reading EXCEPT !.reject = TRUE]))

(* What of the text no correction of the repair touches.                   *)
Shallow == Cardinality({i \in 1 .. Len(text) : text[i] \in {"{", "["}}) <= DefaultOptions.depth
Halves  == \E i \in 1 .. Len(text) - 5 :
             /\ SubSeq(text, i, i + 1) = <<Back, "u">>
             /\ UnitAt(text, i) \in HighHalf \cup LowHalf
Bytes8  == \E i \in 1 .. Len(text) : text[i] \in High

Repaired(strict, lax, r, back) ==
  /\ strict.ok => r.ok /\ r.fixes \subseteq {"bom"} /\ lax = strict
  /\ lax.ok => r.ok /\ back.ok /\ back.v = lax.v /\ r.fixes \subseteq {"bom", "comment", "trailing_comma"}
  /\ r.ok /\ ~Halves /\ ~Bytes8 /\ Shallow => back.ok
  /\ Repair!parse_lenient(text, DefaultOptions).ok <=> r.ok /\ back.ok

(* A valid text is repaired to the same tree without a correction, a byte  *)
(* order mark apart, and so is one that is valid but for comments and      *)
(* trailing commas. Any other text nested less deeply than the limit,      *)
(* without a half of a surrogate pair and bytes above 7F, is repaired to   *)
(* a text that parses, or to nothing. (repair.c: a state per open          *)
(* container decides what is missing.)                                     *)
RepairIsSound ==
  LET Then(r) == Repaired(parse_ex(text, DefaultOptions),
                          parse_ex(text, [DefaultOptions EXCEPT !.comments = TRUE, !.trailing = TRUE]),
                          r, parse_ex(r.out, DefaultOptions))
  IN  Then(Repair!repair(text, DefaultOptions.depth))

(* The tree with null for what is too large for a double.                 *)
RECURSIVE Finite(_)
Finite(v) ==
  CASE IsArr(v) -> Arr([i \in 1 .. Len(v[2]) |-> Finite(v[2][i])])
    [] IsObj(v) -> Obj([i \in 1 .. Len(v[2]) |-> <<v[2][i][1], Finite(v[2][i][2])>>])
    [] OTHER    -> IF Kind(v) = "num" /\ v[2][2] = Infinite THEN Null ELSE v

(* What the serializer writes of a tree is read back as that tree, and     *)
(* null for a number beyond the doubles. (serializer.c and buf.c escape    *)
(* strings and choose a form for numbers.)                                 *)
WrittenTextReadsBack ==
  LET Same(r, s) == s.ok /\ s.v = Finite(r.v)
      Back2(r)   == r.ok => Same(r, parse_ex(write_value(r.v), Reading))
  IN  Back2(parse_ex(text, Reading))
=============================================================================
