----------------------------- MODULE FrameStream -----------------------------
(***************************************************************************)
(* What the write half of a connection promises its peer (RFC 6455,        *)
(* sections 5.4, 5.5 and 5.5.1): the bytes on the wire parse as a sequence *)
(* of frames in which the fragments of a data message are never mixed with *)
(* those of another one, control frames may appear anywhere, nothing       *)
(* follows a close frame, and nothing follows a frame that was cut short.  *)
(***************************************************************************)
EXTENDS Naturals, Sequences

CONSTANTS Msg,      \* identities of the messages the application sends
          NoMsg     \* "no data message is in progress"

VARIABLES wire,     \* the complete frames put on the network, in order
          open,     \* the data message whose final frame is still to come
          status    \* "open", "closed" by a close frame, or "broken"

vars == <<wire, open, status>>

DataOps    == {"data", "cont"}
ControlOps == {"ping", "close"}
Frame      == [msg : Msg, op : DataOps \cup ControlOps, fin : BOOLEAN]

Init ==
    /\ wire = <<>>
    /\ open = NoMsg
    /\ status = "open"

(* One fragment of message m: the first one when no message is open, a     *)
(* continuation when m is.                                                 *)
SendData(m, fin) ==
    /\ status = "open"
    /\ open \in {NoMsg, m}
    /\ wire' = Append(wire, [msg |-> m,
                             op  |-> IF open = m THEN "cont" ELSE "data",
                             fin |-> fin])
    /\ open' = IF fin THEN NoMsg ELSE m
    /\ UNCHANGED status

(* A ping or pong, between any two frames.                                 *)
SendPing(m) ==
    /\ status = "open"
    /\ wire' = Append(wire, [msg |-> m, op |-> "ping", fin |-> TRUE])
    /\ UNCHANGED <<open, status>>

(* A close frame is the last frame; an open message is never finished.     *)
SendClose(m) ==
    /\ status = "open"
    /\ wire' = Append(wire, [msg |-> m, op |-> "close", fin |-> TRUE])
    /\ open' = NoMsg
    /\ status' = "closed"

(* A write failed: part of a frame may be on the wire after the last       *)
(* complete one, so nothing may be written any more.                       *)
Break ==
    /\ status = "open"
    /\ open' = NoMsg
    /\ status' = "broken"
    /\ UNCHANGED wire

Next ==
    \/ \E m \in Msg, fin \in BOOLEAN : SendData(m, fin)
    \/ \E m \in Msg : SendPing(m) \/ SendClose(m)
    \/ Break

Spec == Init /\ [][Next]_vars
=============================================================================
