------------------------------- MODULE SafeGate -------------------------------
(* The check of src/modules/gate.c that a payload passes before anything   *)
(* else reads it: its size, emptiness, NUL bytes, root, and then the whole *)
(* of it with the streaming parser. A policy: size, depth, string and      *)
(* elems (0 for no limit), empty (may the payload be), object (must it be).*)
EXTENDS SaxParser

Allowed   == [allowed |-> TRUE, code |-> "OK"]
deny(code) == [allowed |-> FALSE, code |-> code]

NoEnd == 1000000        \* events a handler that is not there can take

gate_check(t, p) ==
  LET body  == IF IsPrefix(BOM, t) THEN SubSeq(t, 4, Len(t)) ELSE t
      first == At(body, scan_ws(body, 1))
      s     == sax_validate(body, [depth |-> p.depth, token |-> p.string, elems |-> p.elems,
                                   multi |-> FALSE, left |-> NoEnd])
  IN  CASE p.size # 0 /\ Len(t) > p.size             -> deny("SIZE_LIMIT")
        [] first = "end" /\ p.empty                  -> Allowed
        [] first = "end" /\ ~p.empty                 -> deny("UNEXPECTED_EOF")
        [] \E i \in 1 .. Len(body) : body[i] = "NUL" -> deny("CONTROL_CHAR")
        [] p.object /\ first # "{"                   -> deny("TYPE_MISMATCH")
        [] Failed(s)                                 -> deny(s.err)
        [] OTHER                                     -> Allowed
=============================================================================
