---------------------------- MODULE MCJsonReaders ----------------------------
(* Pieces that belong together, fed in every order up to a size. Limits    *)
(* are small enough to be met: two levels, one or two elements, a handler  *)
(* that stops after four events.                                           *)
EXTENDS JsonReaders

Tick == Repair!Tick
Str(c) == <<Quote, c, Quote>>

Sax == [depth |-> 4, token |-> 100, elems |-> 0, multi |-> FALSE, left |-> NoEnd]

(* Brackets, members, keys that repeat.                                    *)
Nest == {<<"{">>, <<"}">>, <<"[">>, <<"]">>, <<",">>, Str("a"), Str("b") \o <<":", "1">>, <<":">>}

Structure == [pieces |-> Nest, size |-> 12, sax |-> Sax, broken |-> FALSE, again |-> FALSE]

(* Several documents, a byte order mark, a literal cut in two.             *)
Stream == [pieces |-> {<<"[">>, <<"]">>, <<"1">>, <<" ">>, <<"t">>, <<"r">>, <<"EF">>, <<"BB", "BF">>},
           size |-> 6, sax |-> [Sax EXCEPT !.multi = TRUE], broken |-> FALSE, again |-> TRUE]

(* Strings: escapes, control bytes, quotes, NUL.                           *)
Strings == [pieces |-> {<<Quote>>, <<Back>>, <<"n">>, <<"a">>, <<"\n">>, <<"ctl">>, <<"NUL">>,
                        <<Back, "u", "0", "0">>, <<"0", "1">>},
            size |-> 9, sax |-> [Sax EXCEPT !.token = 4], broken |-> FALSE, again |-> FALSE]

(* Units after \u, cut at any digit, and pairs of them.                    *)
Units == [pieces |-> {<<Quote>>, <<Back, "u">>, <<"0">>, <<"D", "8">>, <<"D", "C">>},
          size |-> 14, sax |-> Sax, broken |-> FALSE, again |-> FALSE]

(* UTF-8 between quotes, well and badly formed, and a parser that was      *)
(* reset in the middle of it.                                              *)
Utf8 == [pieces |-> {<<Quote>>, <<"C3">>, <<"E0">>, <<"E1">>, <<"ED">>, <<"F0">>, <<"F4">>, <<"80">>, <<"90">>, <<"A0">>,
                     <<"C0">>, <<"FF">>, <<Back>>},
         size |-> 6, sax |-> Sax, broken |-> FALSE, again |-> TRUE]

(* Numbers, some too large or too small for a double.                      *)
Numbers == [pieces |-> {<<"-">>, <<"0">>, <<"1">>, <<"9", "9", "9">>, <<".">>, <<"e">>, <<"+">>, <<"]">>, <<"[">>},
            size |-> 6, sax |-> Sax, broken |-> FALSE, again |-> FALSE]

(* Texts that are almost JSON.                                             *)
Almost == {<<"{">>, <<"}">>, <<"[">>, <<"]">>, <<",">>, <<":">>, <<"=">>, Str("a"), <<"a">>, <<"1">>,
           <<"T", "r">>, <<"\n">>, <<"/", "*">>}

Broken == [pieces |-> Almost, size |-> 5, sax |-> Sax, broken |-> TRUE, again |-> FALSE]

(* Quotes, comments, fences; and numbers no JSON number looks like.        *)
Marks == {<<"'">>, <<Quote>>, <<Back>>, <<"{">>, <<":">>, <<"a">>, <<"/", "*">>, <<"*", "/">>, <<"/", "/">>,
          <<"\n">>, <<Tick, Tick, Tick>>, <<"NUL">>}
Sloppy == {<<"0">>, <<"x">>, <<".">>, <<"+">>, <<"-">>, <<"1">>, <<"e">>, <<"{">>, <<"[">>, <<"I", "f">>}

(* Strings with escapes, in quotes of either kind, whole or broken off.    *)
Escaped == {<<"'">>, <<Quote>>, <<Back>>, <<"u", "0">>, <<"0", "6", "1">>, <<"D", "8", "0", "0">>}

MCJobs == {Structure, Stream, Strings, Units, Utf8, Numbers, Broken, [Broken EXCEPT !.pieces = Marks],
  [Broken EXCEPT !.pieces = Sloppy], [Broken EXCEPT !.pieces = Escaped, !.size = 8],
  [Structure EXCEPT !.size = 9, !.sax = [Sax EXCEPT !.depth = 2, !.elems = 1, !.left = 4]]}
=============================================================================
