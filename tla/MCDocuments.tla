----------------------------- MODULE MCDocuments -----------------------------
(* Documents and operations for TLC. Two keys that need escapes and one    *)
(* that does not; arrays that grow and shrink at either end, objects       *)
(* inside arrays and arrays inside objects.                                *)
EXTENDS DocPatch

N(i)      == <<"num", i>>
Sl        == <<"/">>
Ti        == <<"~">>
A         == <<"a">>

MCDocs == {
  Obj(<<>>),
  Obj(<<<<A, N(1)>>, <<Sl, N(2)>>>>),
  Obj(<<<<Sl, N(3)>>, <<A, Arr(<<N(1), N(2), N(3)>>)>>>>),
  Obj(<<<<A, Arr(<<N(2), N(3)>>)>>, <<Ti, Obj(<<<<A, N(1)>>, <<Sl, Arr(<<>>)>>>>)>>>>),
  Obj(<<<<Ti, Obj(<<<<Sl, Arr(<<N(1)>>)>>>>)>>, <<A, Arr(<<Obj(<<<<A, N(1)>>>>), N(3)>>)>>>>) }

P_a  == <<"/", "a">>
P_a0 == <<"/", "a", "/", "0">>
P_a2 == <<"/", "a", "/", "2">>
P_ae == <<"/", "a", "/", "-">>
P_b  == <<"/", "b">>
P_sl == <<"/", "~", "1">>
P_ti == <<"/", "~", "0">>

MCEdits == {
  Two("move", P_a0, P_a2), Two("move", P_a0, P_ae), Two("move", P_a, P_b), Two("move", P_a, P_a0),
  Two("move", P_sl, P_ae), Two("move", P_ti, P_a0), Two("copy", P_a, P_ae), Two("copy", P_ti, P_b),
  Op("remove", P_a0, None), Op("add", P_a2, N(4)), Op("replace", P_ti, Arr(<<N(5)>>)),
  Op("add", <<"/", "~", "2">>, N(4)), Op("test", P_a, N(1)), Op("add", P_a, None) }

NoFresh  == {<<>>}

(* Documents with roots of different kinds, and bytes a buffer may hold.   *)
RootDocs  == {Arr(<<N(1)>>), Obj(<<<<A, N(1)>>>>)}
SomeFresh == {<<>>, <<"/", "a">>, <<"z">>}
=============================================================================
