------------------------------ MODULE TruncWriter ------------------------------
(***************************************************************************)
(* truncWriter of compression.go: it keeps the last four bytes of what a   *)
(* compressor writes back, because the end of a flushed block is not sent. *)
(* The compressor writes in pieces of any length; its bytes are numbered.  *)
(* A write to the message writer below that fails ends the message, and is *)
(* left to MessageWriter.                                                  *)
(***************************************************************************)
EXTENDS Integers, Sequences

CONSTANT MaxBytes  \* bound: bytes written in all

ASSUME BytesAssumption == MaxBytes \in Nat

VARIABLES held,   \* w.p[:w.n]
          sent,   \* what the message writer got
          written   \* how many bytes the compressor wrote

tvars == <<held, sent, written>>

Tail4       == 4  \* len(w.p)
First(t, k) == SubSeq(t, 1, k)
Behind(t, k) == SubSeq(t, k + 1, Len(t))
Lesser(a, b) == IF a < b THEN a ELSE b

TruncInit == held = <<>> /\ sent = <<>> /\ written = 0

(* Faulty: a piece shorter than four bytes replaces all that is held.      *)
ForwardAll(full, rest) ==
    LET m == Lesser(Len(rest), Tail4)
    IN  /\ sent' = sent \o full \o First(rest, Len(rest) - m)
        /\ held' = Behind(rest, Len(rest) - m)

(* With four bytes held, as many of them as the piece has make room for its*)
(* last bytes; what is before these goes out behind them.                  *)
Forward(full, rest) ==
    LET m == Lesser(Len(rest), Tail4)
    IN  /\ sent' = sent \o First(full, m) \o First(rest, Len(rest) - m)
        /\ held' = Behind(full, m) \o Behind(rest, Len(rest) - m)

TruncWrite(len) ==
    /\ written + len <= MaxBytes
    /\ written' = written + len
    /\ LET new  == [i \in 1..len |-> written + i]
           fill == Lesser(Tail4 - Len(held), len)
       IN  \/ /\ fill = len
              /\ held' = held \o new /\ UNCHANGED sent
           \/ /\ fill < len
              /\ Forward(held \o First(new, fill), Behind(new, fill))

TruncStep == \E len \in 0 .. MaxBytes - written : TruncWrite(len)

TruncSpec == TruncInit /\ [][TruncStep]_tvars
-----------------------------------------------------------------------------
(* Nothing is lost, doubled or moved, and of what was written only the last*)
(* four bytes are held back, however the compressor cuts its output        *)
(* (compression.go:224).                                                   *)
TailHeldBack ==
    /\ sent \o held = [i \in 1..written |-> i]
    /\ Len(held) = Lesser(written, Tail4)
=============================================================================
