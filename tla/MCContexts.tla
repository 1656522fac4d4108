------------------------------- MODULE MCContexts -------------------------------
(***************************************************************************)
(* An instance of Contexts for TLC.                                        *)
(***************************************************************************)
EXTENDS Contexts

(* A header with its payload, pongs before and between messages.           *)
Head1(n) == [is |-> "head", len |-> n]
Byte     == [is |-> "byte", len |-> 0]
Pong     == [is |-> "pong", len |-> 0]
SomeStreams == {<<Head1(2), Byte, Byte, Pong, Head1(0)>>,
                <<Pong, Head1(0), Head1(2), Byte, Byte, Head1(1), Byte>>}
=============================================================================
