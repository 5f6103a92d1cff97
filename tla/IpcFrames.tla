------------------------------ MODULE IpcFrames ------------------------------
(* Length-prefixed frames over a Unix domain socket: the first half of     *)
(* src/runtime/ipc.c. One process sends, another receives with a timeout   *)
(* and asks again when it was in vain, as NYXJ_ERR_TIMEOUT invites to; at  *)
(* any other error it closes the channel. Each may die at any moment.      *)
(*                                                                         *)
(* The socket is a queue of units: the header of a message, which the four *)
(* bytes of one send always make together, and the bytes of its body.      *)
EXTENDS Naturals, Sequences

CONSTANTS Messages,
          Size,         \* bytes of the body of each
          MaxFrame      \* the largest body, 64 MiB

(* Both are numbers of bytes.                                              *)
FramesAssumption == Size \in [Messages -> Nat] /\ MaxFrame \in Nat

VARIABLES
  unsent,       \* messages the sender has still to send
  out,          \* the units of the message under way, not yet sent
  sending,      \* the sender's end: "open" or "closed"
  wire,         \* units in the socket
  rpc,          \* the receiver: "idle", "header", "body" or "closed"
  hdr,          \* the unit that was read as a header
  need,         \* bytes of the body to come
  buf,          \* bytes of the body so far
  accepted,     \* messages sent in full and not returned (history)
  got           \* what the receiver was given (history)

sender   == <<unsent, out, sending>>
receiver == <<rpc, hdr, need, buf>>
history  == <<accepted, got>>
vars     == <<sender, wire, receiver, history>>

Nothing   == <<>>
Unit(m, k) == [msg |-> m, at |-> k]
Frame(m)   == [k \in 1 .. Size[m] + 1 |-> Unit(m, k - 1)]
Junk       == "junk"

Init ==
  /\ unsent = Messages /\ out = <<>> /\ sending = "open" /\ wire = <<>>
  /\ rpc = "idle" /\ hdr = Nothing /\ need = 0 /\ buf = <<>>
  /\ accepted = <<>> /\ got = <<>>

(* nyxj_ipc_send refuses a frame that is too large before it writes.       *)
Send(m) ==
  /\ sending = "open" /\ out = <<>> /\ m \in unsent
  /\ unsent' = unsent \ {m}
  /\ out' = IF Size[m] > MaxFrame THEN <<>> ELSE Frame(m)
  /\ UNCHANGED <<sending, wire, receiver, history>>

(* send_all: as much at a time as the socket takes; an error once the      *)
(* other end is closed.                                                    *)
Put ==
  /\ out # <<>>
  /\ IF rpc = "closed" THEN out' = <<>> /\ UNCHANGED <<wire, accepted>>
     ELSE /\ wire' = Append(wire, Head(out)) /\ out' = Tail(out)
          /\ accepted' = IF Tail(out) = <<>> THEN Append(accepted, Head(out).msg) ELSE accepted
  /\ UNCHANGED <<unsent, sending, receiver, got>>

(* nyxj_ipc_close, or the end of the process in the middle of a frame.     *)
SenderEnds ==
  /\ sending = "open"
  /\ sending' = "closed" /\ out' = <<>> /\ unsent' = {}
  /\ UNCHANGED <<wire, receiver, history>>

-----------------------------------------------------------------------------
Goto(state) == rpc' = state /\ hdr' = Nothing /\ need' = 0 /\ buf' = <<>>

Recv == rpc = "idle" /\ Goto("header") /\ UNCHANGED <<sender, wire, history>>

(* No header within the time: NYXJ_ERR_TIMEOUT, and the caller comes back. *)
TimedOut == rpc = "header" /\ wire = <<>> /\ Goto("idle") /\ UNCHANGED <<sender, wire, history>>

(* The size a unit stands for, read as a header. Four bytes of a body may  *)
(* be any size.                                                            *)
SizesAt(unit) == IF unit.at = 0 THEN {Size[unit.msg]} ELSE 0 .. MaxFrame + 1

GetHeader ==
  /\ rpc = "header" /\ wire # <<>>
  /\ \E n \in SizesAt(Head(wire)) :
       IF n > MaxFrame THEN Goto("closed")
       ELSE rpc' = "body" /\ hdr' = Head(wire) /\ need' = n /\ buf' = <<>>
  /\ wire' = Tail(wire)
  /\ UNCHANGED <<sender, history>>

GetBody ==
  /\ rpc = "body" /\ Len(buf) < need /\ wire # <<>>
  /\ buf' = Append(buf, Head(wire)) /\ wire' = Tail(wire)
  /\ UNCHANGED <<sender, rpc, hdr, need, history>>

(* A bug: a body that does not come in time is reported as a timeout.      *)
TriesAgain == "idle"
AfterTruncation == "closed"

(* The rest of a body does not come in time or not at all, or there is no  *)
(* memory for it: "truncated frame", which the caller may not retry.       *)
Truncated ==
  /\ rpc = "body"
  /\ buf = <<>> \/ (wire = <<>> /\ Len(buf) < need)
  /\ Goto(AfterTruncation)
  /\ UNCHANGED <<sender, wire, history>>

Message == IF hdr.at = 0 /\ <<hdr>> \o buf = Frame(hdr.msg) THEN hdr.msg ELSE Junk

Return ==
  /\ rpc = "body" /\ Len(buf) = need
  /\ got' = Append(got, Message)
  /\ accepted' = IF accepted = <<>> THEN <<>> ELSE Tail(accepted)
  /\ Goto("idle")
  /\ UNCHANGED <<sender, wire>>

(* The sender is gone: an error, after what was in the socket; or the      *)
(* receiver's own end.                                                     *)
Disconnected ==
  /\ rpc = "idle" \/ (rpc = "header" /\ sending = "closed" /\ wire = <<>>)
  /\ Goto("closed") /\ UNCHANGED <<sender, wire, history>>

Next ==
  \/ \E m \in Messages : Send(m)
  \/ Put \/ SenderEnds
  \/ Recv \/ TimedOut \/ GetHeader \/ GetBody \/ Truncated \/ Return \/ Disconnected

Spec == Init /\ [][Next]_vars

-----------------------------------------------------------------------------
(* What is received is what was sent, whole, once and in order, for as     *)
(* long as the receiver listens: timeouts between frames lose nothing, and *)
(* no part of a frame, however it was cut off, is taken for another one.   *)
(* (recv_all drops what it has read when the time is over; nyxj_ipc_recv   *)
(* tells a timeout before the header from one after it.)                   *)
Channel == INSTANCE FrameChannel WITH queue <- accepted, received <- got

ImplementsChannel == Channel!Spec
=============================================================================
