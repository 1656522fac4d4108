------------------------------ MODULE Negotiation ------------------------------
(***************************************************************************)
(* What the two ends of an opening handshake decide from each other's      *)
(* headers: permessage-deflate (compression.go, server.go, client.go,      *)
(* h2.go) and the subprotocol.  Pure operators; Handshake has the steps.   *)
(*                                                                         *)
(* An entry of a Sec-WebSocket-Extensions header is what parsePMDeflate    *)
(* makes of it: is it permessage-deflate, the two no_context_takeover      *)
(* parameters, and are all window sizes absent or 15?                      *)
(***************************************************************************)
EXTENDS Naturals, Sequences

CONSTANT None  \* the empty string, no message, no value

Modes      == {"default", "disabled", "noTakeover", "takeover"}
Extensions == [pmd : BOOLEAN, serverNo : BOOLEAN, clientNo : BOOLEAN, bits : BOOLEAN]

PMD(serverNo, clientNo) ==
    [pmd |-> TRUE, serverNo |-> serverNo, clientNo |-> clientNo, bits |-> TRUE]

(* A direction that takes the context over keeps one compressor for all    *)
(* messages; "write" and "read" are seen from the end that holds this.     *)
NoCompression == [compress |-> FALSE, write |-> FALSE, read |-> FALSE]

EffectiveMode(mode, enable) ==
    IF mode # "default" THEN mode ELSE IF enable THEN "noTakeover" ELSE "disabled"

(* compressionOfferHeader.                                                 *)
Offer(mode) ==
    CASE mode = "noTakeover" -> <<PMD(TRUE, TRUE)>>
      [] mode = "takeover"   -> <<PMD(FALSE, FALSE)>>
      [] OTHER               -> <<>>

(* Both ends look at the first permessage-deflate entry only.              *)
Deflates(exts) == {i \in DOMAIN exts : exts[i].pmd}
First(exts)    == exts[CHOOSE i \in Deflates(exts) : \A j \in Deflates(exts) : i <= j]

(* Faulty: the server answers with the two parameters exchanged.           *)
AnswerSwapped(accepted) ==
    IF accepted.compress THEN <<PMD(~ accepted.read, ~ accepted.write)>> ELSE <<>>

(* The server declines an entry with another window size, and with it all  *)
(* that come behind.                                                       *)
Accept(mode, exts) ==
    IF mode = "disabled" \/ Deflates(exts) = {} \/ ~ First(exts).bits THEN NoCompression
    ELSE [compress |-> TRUE,
          write    |-> mode = "takeover" /\ ~ First(exts).serverNo,
          read     |-> mode = "takeover" /\ ~ First(exts).clientNo]

Answer(accepted) ==
    IF accepted.compress THEN <<PMD(~ accepted.write, ~ accepted.read)>> ELSE <<>>

(* The client: is the answer one it can live with, and what does it take   *)
(* from it?  Only the HTTP/2 path ignores an answer it did not ask for.    *)
AnswerValid(mode, exts) ==
    Deflates(exts) # {} =>
        /\ First(exts).bits
        /\ mode = "noTakeover" => First(exts).serverNo /\ First(exts).clientNo

Ignores(transport, mode, exts) ==
    Deflates(exts) = {} \/ (transport = "h2" /\ mode = "disabled")

Adopt(transport, mode, exts) ==
    IF Ignores(transport, mode, exts) THEN NoCompression
    ELSE [compress |-> TRUE,
          write    |-> mode = "takeover" /\ ~ First(exts).clientNo,
          read     |-> mode = "takeover" /\ ~ First(exts).serverNo]
-----------------------------------------------------------------------------
(* Subprotocols are model values.  The server selects by a hook of the     *)
(* application, by its list in the client's order of preference, or takes  *)
(* the one in the response header it was given.                            *)
SelectSubprotocol(selector, offered) ==
    CASE selector.by \in {"hook", "header"} -> selector.pick
      [] OTHER ->
           LET common == SelectSeq(offered, LAMBDA s : s \in selector.list)
           IN  IF common = <<>> THEN None ELSE Head(common)
=============================================================================
