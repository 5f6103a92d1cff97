---------------------------- MODULE MCAsyncServer ----------------------------
(* AsyncServer on small instances: constants for TLC.                      *)
EXTENDS AsyncServer

CONSTANTS c1, c2, r1, r2, r3, r4, b1

TwoConns == {c1, c2}
NoBeats  == {}
OneBeat  == {b1}

(* Two ASYNC requests pipelined on c1, the second asking to close, and two *)
(* on c2 that compete with them for the pool: one ASYNC, one plain.        *)
Mixed      == {r1, r2, r3, r4}
MixedFrom  == [r \in Mixed |-> IF r \in {r1, r2} THEN c1 ELSE c2]
MixedAsync == {r1, r2, r3}
MixedClose == {r2}

(* One connection that pipelines an ASYNC, a plain and an oversized        *)
(* request, next to an ASYNC request on the other that asks to close.       *)
LargeFrom  == [r \in Mixed |-> IF r \in {r1, r2, r3} THEN c1 ELSE c2]
LargeAsync == {r1, r4}
LargeHuge  == {r3}
LargeClose == {r4}

(* A plain request asking to close is followed by an ASYNC one.            *)
Few        == {r1, r2, r3}
FewFrom    == [r \in Few |-> IF r \in {r1, r2} THEN c1 ELSE c2]
FewAsync   == {r2, r3}
FewClose   == {r1}
None       == {}
=============================================================================
