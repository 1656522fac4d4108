---------------------------- MODULE MessageWriter ----------------------------
(***************************************************************************)
(* How magilla cuts one message into frames (conn.go): the messageWriter   *)
(* that NextWriter returns and that WriteMessage uses, with its buffer,    *)
(* the optional cap on the size of a frame and the unbuffered fast paths,  *)
(* and the utf8ValidatingWriter stacked on it for text messages.  ConnWrite*)
(* has the locking around it; here one goroutine writes one message.       *)
(*                                                                         *)
(* With compression, the bytes of Text stand for those that leave flate.   *)
(***************************************************************************)
EXTENDS Text, FiniteSets

CONSTANTS BufSize,     \* writeBufferSize: room for payload in c.writeBuf
          HeaderSize,  \* maxFrameHeaderSize, reserved in front of it
          MaxControl,  \* maxControlFramePayloadSize
          FrameCaps,   \* the values of c.writeFrameSize; 0 is no cap
          Pieces,      \* the byte strings the application passes to a call
          MaxWrites    \* bound: calls of Write per message

Types == {"text", "binary", "control"}

ASSUME SizesAssumption  == /\ BufSize \in Nat \ {0} /\ HeaderSize \in Nat
                           /\ MaxControl \in Nat /\ MaxWrites \in Nat
                           /\ FrameCaps \subseteq Nat
ASSUME PiecesAssumption == Pieces \subseteq Seq(Bytes)

Configs == [server : BOOLEAN, cap : FrameCaps, compress : BOOLEAN, skipUTF8 : BOOLEAN]

VARIABLES
    conf,      \* the connection: isServer, writeFrameSize, compression, skipUTF8Validation
    type,      \* the message's type, "none" before NextWriter
    buf,       \* writeBuf[maxFrameHeaderSize:w.pos]
    first,     \* is w.frameType still the message's own type?
    compress,  \* w.compress: does the next frame carry RSV1?
    err,       \* w.err: "nil", "closed" or an error
    utf8State, \* state of the utf8ValidatingWriter
    failed,    \* its failed flag
    pc,        \* "idle", "write" in Write, or in a loop: "copy", "readFrom"
    pending,   \* bytes of the current call that are not in the buffer yet
    closing,   \* is Close called after them (WriteMessage)?
    writes,    \* calls of Write so far
    given,     \* the bytes handed to messageWriter
    result,    \* what the last call returned
    wire       \* the message's frames

vars == <<conf, type, buf, first, compress, err, utf8State, failed, pc, pending, closing,
          writes, given, result, wire>>

Results == {"ok", "closed", "invalidControl", "internal", "failed", "utf8"}

Init ==
    /\ conf \in Configs
    /\ type = "none"
    /\ buf = <<>> /\ first = TRUE /\ compress = FALSE /\ err = "nil"
    /\ utf8State = "accept" /\ failed = FALSE
    /\ pc = "idle" /\ pending = <<>> /\ closing = FALSE
    /\ writes = 0 /\ given = <<>> /\ result = "ok" /\ wire = <<>>

Validated == type = "text" /\ ~conf.skipUTF8
-----------------------------------------------------------------------------
(* NextWriter and beginMessage.                                            *)
NextWriter ==
    /\ type = "none"
    /\ type' \in Types
    /\ compress' = (conf.compress /\ type' # "control")
    /\ UNCHANGED <<conf, buf, first, err, utf8State, failed, pc, pending, closing, writes,
                   given, result, wire>>

(* endMessage, called once: the error stays in the writer.                 *)
End(e) ==
    /\ err' = e
    /\ result' = IF e = "closed" THEN "ok" ELSE e
    /\ pc' = "idle" /\ pending' = <<>> /\ closing' = FALSE

(* Faulty: the buffer is sent but not emptied.                             *)
SendFrameKeepsBuffer(final, extra) ==
    /\ wire' = Append(wire, [op |-> IF first THEN type ELSE "cont", fin |-> final,
                             rsv1 |-> compress, body |-> buf \o extra])
    /\ first' = FALSE /\ compress' = FALSE
    /\ UNCHANGED buf

(* Faulty: RSV1 is set on every frame of a compressed message.             *)
SendFrameKeepsRSV1(final, extra) ==
    /\ wire' = Append(wire, [op |-> IF first THEN type ELSE "cont", fin |-> final,
                             rsv1 |-> compress, body |-> buf \o extra])
    /\ first' = FALSE /\ buf' = <<>>
    /\ UNCHANGED compress

SendFrame(final, extra) ==
    /\ wire' = Append(wire, [op |-> IF first THEN type ELSE "cont", fin |-> final,
                             rsv1 |-> compress, body |-> buf \o extra])
    /\ first' = FALSE /\ compress' = FALSE /\ buf' = <<>>

(* flushFrame.  Bytes outside the buffer (extra) cannot be masked, so only *)
(* a server may pass them.  Whether or not the frame goes out, the flag    *)
(* for RSV1 is spent.                                                      *)
FlushFrame(final, extra) ==
    IF type = "control" /\ (~final \/ Len(buf \o extra) > MaxControl)
    THEN End("invalidControl") /\ UNCHANGED <<first, compress, buf, wire>>
    ELSE \/ /\ compress' = FALSE
            /\ UNCHANGED <<first, buf, wire>>
            /\ IF ~conf.server /\ extra # <<>> THEN End("internal") ELSE End("failed")
         \/ /\ conf.server \/ extra = <<>>
            /\ SendFrame(final, extra)
            /\ IF final
               THEN End("closed")
               ELSE /\ pc' = IF extra = <<>> THEN pc ELSE "copy"
                    /\ pending' = IF extra = <<>> THEN pending ELSE <<>>
                    /\ UNCHANGED <<err, result, closing>>

(* payloadRoom: what fits in the current frame.                            *)
PayloadRoom ==
    LET room == BufSize - Len(buf)
    IN  IF conf.cap > 0 /\ conf.cap < room + Len(buf)
        THEN IF conf.cap > Len(buf) THEN conf.cap - Len(buf) ELSE 0
        ELSE room
-----------------------------------------------------------------------------
(* Faulty: the bad bytes are forwarded, the error is returned later.       *)
ValidateLate(p) ==
    /\ utf8State' = Utf8Run(utf8State, p)
    /\ failed' = (utf8State' = "reject")
    /\ pc' = "write" /\ pending' = p /\ given' = given \o p
    /\ UNCHANGED result

(* utf8ValidatingWriter.Write: nothing of a call with a bad byte in it     *)
(* reaches the writer below, and no later call does.                       *)
Validate(p) ==
    LET state == IF failed THEN "reject" ELSE Utf8Run(utf8State, p)
    IN  /\ utf8State' = state
        /\ failed' = (state = "reject")
        /\ IF failed'
           THEN result' = "utf8" /\ UNCHANGED <<pc, pending, given>>
           ELSE pc' = "write" /\ pending' = p /\ given' = given \o p /\ UNCHANGED result

Usable == type # "none" /\ pc = "idle" /\ err = "nil"

Write ==
    /\ Usable /\ writes < MaxWrites
    /\ writes' = writes + 1
    /\ \E p \in Pieces :
        IF Validated THEN Validate(p)
        ELSE /\ pc' = "write" /\ pending' = p /\ given' = given \o p
             /\ UNCHANGED <<utf8State, failed, result>>
    /\ UNCHANGED <<conf, type, buf, first, compress, err, closing, wire>>

(* WriteString never takes the fast path, and ReadFrom reads straight into *)
(* the buffer; both are only reachable on a bare messageWriter.            *)
StartLoop(loop) ==
    /\ Usable /\ writes < MaxWrites
    /\ ~Validated /\ (conf.compress => type = "control")
    /\ writes' = writes + 1
    /\ pc' = loop
    /\ \E p \in Pieces : pending' = p /\ given' = given \o p
    /\ UNCHANGED <<conf, type, buf, first, compress, err, utf8State, failed, closing,
                   result, wire>>

WriteString == StartLoop("copy")
ReadFrom    == StartLoop("readFrom")

Flush(final, extra) ==
    /\ FlushFrame(final, extra)
    /\ UNCHANGED <<conf, type, utf8State, failed, writes, given>>

(* messageWriter.Write: a server sends a large argument as one frame,      *)
(* together with what is in the buffer.                                    *)
FastPath(p) ==
    /\ conf.server
    /\ Len(p) > 2 * (BufSize + HeaderSize)
    /\ conf.cap = 0 \/ Len(p) <= conf.cap

WriteBytes ==
    /\ pc = "write"
    /\ IF FastPath(pending)
       THEN Flush(FALSE, pending)
       ELSE /\ pc' = "copy"
            /\ UNCHANGED <<conf, type, buf, first, compress, err, utf8State, failed, pending,
                           closing, writes, given, result, wire>>

Fill(n) ==
    /\ buf' = buf \o SubSeq(pending, 1, n)
    /\ pending' = SubSeq(pending, n + 1, Len(pending))
    /\ UNCHANGED <<conf, type, first, compress, err, utf8State, failed, pc, closing, writes,
                   given, result, wire>>

(* The loop of Write and WriteString: ncopy makes room by a flush.         *)
Copy ==
    /\ pc = "copy" /\ pending # <<>>
    /\ IF PayloadRoom = 0 THEN Flush(FALSE, <<>>)
       ELSE Fill(IF PayloadRoom < Len(pending) THEN PayloadRoom ELSE Len(pending))

(* The loop of ReadFrom: it makes room before it knows whether there is    *)
(* anything to read, and the reader may return less than fits.             *)
ReadMore ==
    /\ pc = "readFrom"
    /\ \/ PayloadRoom = 0 /\ Flush(FALSE, <<>>)
       \/ pending # <<>> /\ \E n \in 1..PayloadRoom : n <= Len(pending) /\ Fill(n)

(* The loop is over; in WriteMessage, Close follows.                       *)
Return ==
    /\ pc = "copy" \/ (pc = "readFrom" /\ PayloadRoom > 0)
    /\ pending = <<>>
    /\ IF closing
       THEN Flush(TRUE, <<>>)
       ELSE /\ pc' = "idle" /\ result' = "ok"
            /\ UNCHANGED <<conf, type, buf, first, compress, err, utf8State, failed, pending,
                           closing, writes, given, wire>>

InvalidText == Validated /\ (failed \/ utf8State # "accept")

Close == Usable /\ ~InvalidText /\ Flush(TRUE, <<>>)

(* Close on the validator when the text is invalid or truncated: it closes *)
(* the writer below all the same, so that the lock is released, and drops  *)
(* its result.                                                             *)
CloseInvalid ==
    /\ Usable /\ InvalidText
    /\ failed' = TRUE /\ result' = "utf8"
    /\ compress' = FALSE
    /\ \/ SendFrame(TRUE, <<>>) /\ err' = "closed"
       \/ err' = "failed" /\ UNCHANGED <<first, buf, wire>>
    /\ UNCHANGED <<conf, type, utf8State, pc, pending, closing, writes, given>>

(* WriteMessage.  Text is validated before anything else.                  *)
RejectMessage ==
    /\ type = "none" /\ ~conf.skipUTF8
    /\ \E p \in Pieces : Utf8Run("accept", p) # "accept"
    /\ result' = "utf8"
    /\ UNCHANGED <<conf, type, buf, first, compress, err, utf8State, failed, pc, pending,
                   closing, writes, given, wire>>

(* A server without compression sends one frame, unless the cap forbids    *)
(* it; otherwise the message takes the slow path: NextWriter, Write, Close.*)
WriteMessage ==
    /\ type = "none"
    /\ type' \in Types
    /\ \E p \in Pieces :
        /\ (type' = "text" /\ ~conf.skipUTF8) => Utf8Run("accept", p) = "accept"
        /\ given' = p
        /\ IF conf.server /\ ~conf.compress /\ (conf.cap = 0 \/ Len(p) <= conf.cap)
           THEN /\ IF type' = "control" /\ Len(p) > MaxControl
                   THEN End("invalidControl") /\ UNCHANGED wire
                   ELSE \/ End("failed") /\ UNCHANGED wire
                        \/ /\ End("closed")
                           /\ wire' = <<[op |-> type', fin |-> TRUE, rsv1 |-> FALSE,
                                         body |-> p]>>
                /\ UNCHANGED <<buf, first, compress>>
           ELSE /\ compress' = (conf.compress /\ type' # "control")
                /\ pc' = "write" /\ pending' = p /\ closing' = TRUE
                /\ UNCHANGED <<buf, first, err, result, wire>>
    /\ UNCHANGED <<conf, utf8State, failed, writes>>

Next ==
    \/ NextWriter \/ WriteMessage \/ RejectMessage
    \/ Write \/ WriteString \/ ReadFrom \/ WriteBytes \/ Copy \/ ReadMore \/ Return
    \/ Close \/ CloseInvalid

Spec == Init /\ [][Next]_vars
-----------------------------------------------------------------------------
Joined(frames) == FoldLeft(LAMBDA acc, f : acc \o f.body, <<>>, frames)
Bodies == Joined(wire)

(* No byte is lost, repeated or reordered on the way from the application  *)
(* through the buffer to the frames, whichever paths a message takes       *)
(* (conn.go 805-990): fast path after buffered bytes, ncopy, ReadFrom.     *)
PayloadPreserved ==
    IF err \in {"nil", "closed"} THEN Bodies \o buf \o pending = given
                                 ELSE IsPrefix(Bodies, given)

(* The frames of a message parse as one (RFC 6455, 5.4 and RFC 7692, 6):   *)
(* its type is on the first one only, and so is RSV1, which says that the  *)
(* message is compressed; FIN is on the last one, and nothing follows; a   *)
(* control message is one short frame.  A client never tries to send bytes *)
(* from outside the buffer, which it could not mask.                       *)
FramesWellFormed ==
    /\ \A i \in DOMAIN wire :
          /\ wire[i].op = IF i = 1 THEN type ELSE "cont"
          /\ wire[i].rsv1 <=> (i = 1 /\ conf.compress /\ type # "control")
          /\ wire[i].fin <=> (err = "closed" /\ i = Len(wire))
          /\ type = "control" => Len(wire) = 1 /\ wire[i].fin /\ Len(wire[i].body) <= MaxControl
    /\ err # "internal"

(* A text message whose Close, or WriteMessage, returned nil is valid, and *)
(* the writer below never sees a byte that makes it invalid ("before the   *)
(* underlying writer sees the bad bytes", conn.go 734-737).                *)
OnlyValidText ==
    Validated => /\ Utf8Run("accept", given) # "reject"
                 /\ (err = "closed" /\ result = "ok") => Utf8Run("accept", given) = "accept"

(* "SetWriteFrameSize caps the payload size of each outgoing WebSocket     *)
(* frame" (conn.go 1159).                                                  *)
FrameCapRespected == \A i \in DOMAIN wire : conf.cap > 0 => Len(wire[i].body) <= conf.cap

(* A text message that reaches the peer is valid UTF-8.                    *)
SentTextValid ==
    (Validated /\ wire # <<>> /\ Last(wire).fin) => Utf8Run("accept", Bodies) = "accept"
=============================================================================
