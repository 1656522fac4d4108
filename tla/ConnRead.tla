------------------------------- MODULE ConnRead -------------------------------
(***************************************************************************)
(* The read half of magilla.Conn (conn.go): the frame parser advanceFrame, *)
(* shared by NextReader and by Read on the message reader it returns.  The *)
(* peer's frames arrive piecemeal, so a deadline or the end of the stream  *)
(* may strike between any two pieces, and the parser has to leave the      *)
(* connection in a state from which the next call can go on.               *)
(*                                                                         *)
(* A frame is cut into units that arrive one by one: its two header bytes, *)
(* one unit for the extended length and the mask key, and its payload.     *)
(* Text has what a byte of it may be.                                      *)
(***************************************************************************)
EXTENDS Text, FiniteSets

CONSTANTS Scripts,      \* the frame sequences that the peer may send
          ReadLimit,    \* c.readLimit; 0 is no limit
          SpinLimit,    \* failed calls of NextReader before it panics (1000)
          RetryTimeout, \* does the application go on after a timeout?
          EOFWithData   \* may the net.Conn return io.EOF with the last bytes?

DataOps    == {"text", "binary", "cont"}
ControlOps == {"ping", "pong", "close"}

(* flaw: "header" is whatever the first two bytes get wrong by themselves  *)
(* (reserved bits, opcode, mask, a long or fragmented control frame),      *)
(* "length" a 64-bit length with its top bit set, "payload" a close frame  *)
(* with a bad code or bad text.                                            *)
Frame == [op : DataOps \cup ControlOps, fin : BOOLEAN, body : Seq(Bytes),
          flaw : {"none", "header", "length", "payload"}]

ASSUME ScriptsAssumption == Scripts \subseteq Seq(Frame)
ASSUME LimitAssumption   == ReadLimit \in Nat /\ SpinLimit \in Nat \ {0}
ASSUME FlagsAssumption   == RetryTimeout \in BOOLEAN /\ EOFWithData \in BOOLEAN

VARIABLES
    peer,          \* the script the peer follows
    arrived,       \* units of its stream that have reached this side
    eof,           \* has the stream ended after them?
    pos,           \* units consumed
    readErr,       \* c.readErr
    readErrCount,  \* c.readErrCount
    readRemaining, \* c.readRemaining: payload left in the current frame
    readFinal,     \* c.readFinal: was the last data frame a final one?
    readLength,    \* c.readLength: size of the message so far
    messageReader, \* c.messageReader: index of its first frame, 0 for nil
    validating,    \* is that reader wrapped in a utf8ValidatingReader?
    utf8State,     \* c.readUTF8State
    closeSent,     \* has the write half latched ErrCloseSent?
    replies,       \* control frames this side has sent
    pc,            \* what the running call does next
    caller,        \* which call runs advanceFrame: "next" or "read"
    frame,         \* index of the frame advanceFrame is parsing
    result,        \* what the last call returned
    got,           \* per message: the payload delivered
    complete       \* messages whose reader returned io.EOF

netVars  == <<peer, arrived, eof>>
connVars == <<readErr, readErrCount, readRemaining, readFinal, readLength,
              messageReader, validating, utf8State>>
outVars  == <<closeSent, replies>>
appVars  == <<got, complete>>
vars     == <<netVars, pos, connVars, outVars, pc, caller, frame, result, appVars>>

Errors == {"eof", "unexpectedEOF", "protocol", "limit", "closed", "utf8",
           "timeout", "handler", "internal"}

-----------------------------------------------------------------------------
(* The units of a script.                                                  *)
FrameUnits(f, i) ==
    <<[part |-> "h1", frame |-> i, byte |-> "a"], [part |-> "h2", frame |-> i, byte |-> "a"],
      [part |-> "key", frame |-> i, byte |-> "a"]>>
      \o [k \in DOMAIN f.body |-> [part |-> "body", frame |-> i, byte |-> f.body[k]]]

Stream == [s \in Scripts |-> FlattenSeq([i \in DOMAIN s |-> FrameUnits(s[i], i)])]
stream == Stream[peer]

Init ==
    /\ peer \in Scripts
    /\ arrived = 0 /\ eof = FALSE /\ pos = 0
    /\ readErr = "nil" /\ readErrCount = 0
    /\ readRemaining = 0 /\ readFinal = TRUE /\ readLength = 0
    /\ messageReader = 0 /\ validating = FALSE /\ utf8State = "accept"
    /\ closeSent = FALSE /\ replies = <<>>
    /\ pc = "idle" /\ caller = "next" /\ frame = 0 /\ result = "none"
    /\ got = [i \in DOMAIN peer |-> <<>>] /\ complete = {}
-----------------------------------------------------------------------------
(* What the running call can use: c.read(n) and the io.CopyN that skips a  *)
(* payload need n units, Read on a message takes what there is.            *)
Needed == CASE pc = "skip" -> readRemaining
            [] pc = "head" -> 2
            [] pc = "key"  -> 1
            [] pc = "read" -> readRemaining
            [] pc = "payload" -> IF peer[frame].op \in ControlOps THEN readRemaining ELSE 0
            [] OTHER -> 0

Available == arrived - pos
unit(k)   == stream[pos + k]

(* The net.Conn behind the bufio.Reader.  What arrives shows only once a   *)
(* call needs it; a Read may find the start of the next frame there too.   *)
Arrive ==
    /\ ~eof /\ arrived < Len(stream)
    /\ Available < Needed + (IF pc = "read" THEN 1 ELSE 0)
    /\ arrived' = arrived + 1
    /\ UNCHANGED <<peer, eof, pos, connVars, outVars, pc, caller, frame, result, appVars>>

StreamEnds ==
    /\ ~eof /\ (Available < Needed \/ EOFWithData)
    /\ eof' = TRUE
    /\ UNCHANGED <<peer, arrived, pos, connVars, outVars, pc, caller, frame, result, appVars>>

(* Another goroutine of the application sends a close frame.               *)
AppCloses ==
    /\ ~closeSent
    /\ closeSent' = TRUE
    /\ replies' = Append(replies, [op |-> "close", why |-> "app", frame |-> frame])
    /\ UNCHANGED <<netVars, pos, connVars, pc, caller, frame, result, appVars>>

(* What the call does with an error of advanceFrame.  NextReader latches   *)
(* every one but a timeout, and counts the calls that fail for good; Read  *)
(* latches every one.                                                      *)
NextReaderFails(e) ==
    IF e = "timeout"
    THEN /\ result' = e /\ pc' = "idle"
         /\ UNCHANGED <<readErr, readErrCount>>
    ELSE /\ readErr' = e /\ result' = e
         /\ readErrCount' = readErrCount + 1
         /\ pc' = IF readErrCount + 1 >= SpinLimit THEN "panicked" ELSE "idle"

ReadFails(e) ==
    /\ readErr' = e /\ result' = IF e = "eof" THEN "unexpectedEOF" ELSE e
    /\ pc' = "idle"
    /\ UNCHANGED readErrCount

Fail(e) == IF caller = "next" THEN NextReaderFails(e) ELSE ReadFails(e)

(* Faulty: a control frame may follow a close frame.                       *)
ReplyAlways(op, why, i) ==
    \/ /\ replies' = Append(replies, [op |-> op, why |-> why, frame |-> i])
       /\ closeSent' = (closeSent \/ op = "close")
    \/ UNCHANGED outVars

(* WriteControl, as the read half uses it: a best effort, whose failure is *)
(* ignored; nothing follows a close frame.                                 *)
Reply(op, why, i) ==
    IF closeSent THEN UNCHANGED outVars
    ELSE \/ /\ replies' = Append(replies, [op |-> op, why |-> why, frame |-> i])
            /\ closeSent' = (op = "close")
         \/ UNCHANGED outVars

(* A read of the header or of a control frame fails: what was there of it  *)
(* is consumed all the same.  readRemaining is cleared in a control frame. *)
Interrupted(e, consumed) ==
    /\ pos' = pos + consumed
    /\ Fail(e)
    /\ readRemaining' = IF pc = "payload" THEN 0 ELSE readRemaining
    /\ UNCHANGED <<netVars, readFinal, readLength, messageReader, validating, utf8State,
                   outVars, caller, frame, appVars>>

ReadTimeout ==
    /\ pc # "read"
    /\ \E k \in 0..Available : k < Needed /\ Interrupted("timeout", k)

(* c.read turns io.EOF into errUnexpectedEOF; the skipping of a payload    *)
(* does not.                                                               *)
ReadEOF ==
    /\ pc # "read"
    /\ eof /\ Available < Needed
    /\ Interrupted(IF pc = "skip" THEN "eof" ELSE "unexpectedEOF", Available)
-----------------------------------------------------------------------------
(* NextReader up to its loop: the previous message is dropped.             *)
NextReader ==
    /\ pc = "idle"
    /\ result = "timeout" => RetryTimeout
    /\ messageReader' = 0 /\ validating' = FALSE
    /\ readLength' = 0
    /\ caller' = "next"
    /\ IF readErr # "nil"
       THEN NextReaderFails(readErr)
       ELSE /\ pc' = IF readRemaining > 0 THEN "skip" ELSE "head"
            /\ UNCHANGED <<readErr, readErrCount, result>>
    /\ UNCHANGED <<netVars, pos, readRemaining, readFinal, utf8State, outVars, frame, appVars>>

(* Step 1 of advanceFrame: the rest of the previous frame.  readRemaining  *)
(* keeps its value until the next header is there.                         *)
SkipFrame ==
    /\ pc = "skip"
    /\ Available >= Needed
    /\ pos' = pos + readRemaining
    /\ pc' = "head"
    /\ UNCHANGED <<netVars, connVars, outVars, caller, frame, result, appVars>>

HeaderError(f) ==
    \/ f.flaw = "header"
    \/ f.op \in {"text", "binary"} /\ ~readFinal
    \/ f.op = "cont" /\ readFinal

(* Step 2: the first two bytes.  All their errors are collected before the *)
(* connection is failed with 1002.                                         *)
ReadHead ==
    /\ pc = "head"
    /\ Available >= Needed
    /\ unit(1).part = "h1"
    /\ LET f == peer[unit(1).frame]
       IN  /\ frame' = unit(1).frame
           /\ readRemaining' = Len(f.body)
           /\ readFinal' = IF f.op \in DataOps THEN f.fin ELSE readFinal
           /\ IF HeaderError(f)
              THEN Fail("protocol") /\ Reply("close", "protocol", unit(1).frame)
              ELSE pc' = "key" /\ UNCHANGED <<readErr, readErrCount, result, outVars>>
    /\ pos' = pos + 2
    /\ UNCHANGED <<netVars, readLength, messageReader, validating, utf8State, caller, appVars>>

(* Steps 3 and 4: the extended length and the mask key.                    *)
ReadKey ==
    /\ pc = "key"
    /\ Available >= Needed
    /\ pos' = pos + 1
    /\ IF peer[frame].flaw = "length"
       THEN Fail("limit")
       ELSE pc' = "payload" /\ UNCHANGED <<readErr, readErrCount, result>>
    /\ UNCHANGED <<netVars, readRemaining, readFinal, readLength, messageReader, validating,
                   utf8State, outVars, caller, frame, appVars>>

(* The end of a successful advanceFrame that returned no new message.      *)
FrameDone(remaining) ==
    IF caller = "read"
    THEN pc' = "read" /\ UNCHANGED readErrCount
    ELSE pc' = (IF remaining > 0 THEN "skip" ELSE "head") /\ readErrCount' = 0

(* Faulty: each frame is held against the limit, not the message.          *)
OverLimitPerFrame(length) == ReadLimit > 0 /\ length - readLength > ReadLimit

OverLimit(length) == ReadLimit > 0 /\ length > ReadLimit

(* Step 5: a data frame.  NextReader returns a reader for the first frame  *)
(* of a message and goes on after any other; a text message gets a fresh   *)
(* validator.                                                              *)
DataFrame ==
    /\ pc = "payload" /\ peer[frame].op \in DataOps
    /\ readLength' = readLength + readRemaining
    /\ IF OverLimit(readLength + readRemaining)
       THEN /\ Fail("limit") /\ Reply("close", "limit", frame)
            /\ UNCHANGED <<messageReader, validating, utf8State>>
       ELSE /\ UNCHANGED outVars
            /\ IF peer[frame].op = "cont"
               THEN /\ FrameDone(readRemaining)
                    /\ UNCHANGED <<readErr, result, messageReader, validating, utf8State>>
               ELSE IF caller = "read"
               THEN Fail("internal") /\ UNCHANGED <<messageReader, validating, utf8State>>
               ELSE /\ messageReader' = frame
                    /\ validating' = (peer[frame].op = "text")
                    /\ utf8State' = IF validating' THEN "accept" ELSE utf8State
                    /\ readErrCount' = 0
                    /\ result' = "reader" /\ pc' = "idle"
                    /\ UNCHANGED readErr
    /\ UNCHANGED <<netVars, pos, readRemaining, readFinal, caller, frame, appVars>>

(* Faulty: readRemaining is not cleared.                                   *)
ReadControlKeepsRemaining ==
    /\ pc = "payload" /\ peer[frame].op \in ControlOps
    /\ Available >= Needed
    /\ pos' = pos + readRemaining
    /\ UNCHANGED <<netVars, readRemaining, readFinal, readLength, messageReader, validating,
                   utf8State, caller, frame, appVars>>

(* Steps 6 and 7: the payload of a control frame and its handler.  The     *)
(* default handlers answer and return nil; an application's handler may    *)
(* return an error, which is latched.                                      *)
ReadControl ==
    /\ pc = "payload" /\ peer[frame].op \in ControlOps
    /\ Available >= Needed
    /\ pos' = pos + readRemaining
    /\ readRemaining' = 0
    /\ UNCHANGED <<netVars, readFinal, readLength, messageReader, validating, utf8State,
                   caller, frame, appVars>>

Ping ==
    /\ ReadControl
    /\ peer[frame].op = "ping"
    /\ Reply("pong", "ping", frame)
    /\ FrameDone(0)
    /\ UNCHANGED <<readErr, result>>

Pong ==
    /\ ReadControl
    /\ peer[frame].op = "pong"
    /\ FrameDone(0)
    /\ UNCHANGED <<readErr, result, outVars>>

Close ==
    /\ ReadControl
    /\ peer[frame].op = "close"
    /\ LET e == IF peer[frame].flaw = "payload" THEN "protocol" ELSE "closed"
       IN  Reply("close", e, frame) /\ Fail(e)

HandlerFails ==
    /\ ReadControl
    /\ peer[frame].flaw = "none"
    /\ Fail("handler")
    /\ UNCHANGED outVars
-----------------------------------------------------------------------------
(* utf8ValidatingReader.failed, as far as it shows.                        *)
Failed == validating /\ utf8State # "accept"

(* Read on the reader that NextReader returned.                            *)
Read ==
    /\ pc = "idle" /\ messageReader # 0
    /\ caller' = "read"
    /\ IF readErr = "nil"
       THEN pc' = "read" /\ UNCHANGED result
       ELSE /\ result' = IF readErr = "eof" /\ ~Failed THEN "unexpectedEOF" ELSE readErr
            /\ UNCHANGED pc
    /\ UNCHANGED <<netVars, pos, connVars, outVars, frame, appVars>>

(* rejectUTF8 tells the peer, and latches the error unless there is one.   *)
Reject(err, returned) ==
    /\ Reply("close", "utf8", frame)
    /\ readErr' = IF err = "nil" THEN "utf8" ELSE err
    /\ result' = returned
    /\ complete' = IF returned = "eof" THEN complete \cup {messageReader} ELSE complete
    /\ UNCHANGED got

ReadSizes == {n \in 1..Available : n <= readRemaining}

(* messageReader.Read takes what is there of the payload, and the          *)
(* utf8ValidatingReader around it checks those bytes before the            *)
(* application sees them.                                                  *)
ReadBody ==
    /\ pc = "read" /\ readRemaining > 0
    /\ \E n \in ReadSizes, e \in {"nil", "eof"} :
        /\ e = "eof" => EOFWithData /\ eof /\ n = Available
        /\ LET bytes == [k \in 1..n |-> unit(k).byte]
               state == IF validating THEN Utf8Run(utf8State, bytes) ELSE utf8State
               err   == IF e = "eof" /\ n < readRemaining THEN "unexpectedEOF" ELSE e
           IN  /\ pos' = pos + n
               /\ readRemaining' = readRemaining - n
               /\ utf8State' = state
               /\ IF state = "reject" THEN Reject(err, "utf8")
                  ELSE IF err = "eof" /\ state # "accept" THEN Reject(err, "eof")
                  ELSE /\ readErr' = err
                       /\ result' = IF err = "nil" THEN "data" ELSE err
                       /\ got' = [got EXCEPT ![messageReader] = @ \o bytes]
                       /\ complete' = IF err = "eof" THEN complete \cup {messageReader}
                                                     ELSE complete
                       /\ UNCHANGED outVars
    /\ pc' = "idle"
    /\ UNCHANGED <<netVars, readErrCount, readFinal, readLength, messageReader, validating,
                   caller, frame>>

(* A read of the payload that gets nothing: the error is latched.          *)
ReadBodyFails ==
    /\ pc = "read" /\ readRemaining > 0
    /\ \/ Fail("timeout")
       \/ eof /\ Available = 0 /\ Fail("unexpectedEOF")
    /\ UNCHANGED <<netVars, pos, readRemaining, readFinal, readLength, messageReader,
                   validating, utf8State, outVars, caller, frame, appVars>>

(* Faulty: the end of a frame counts as the end of the message.            *)
MessageEndsWithFrame == readRemaining = 0

MessageEnds == readRemaining = 0 /\ readFinal

(* The end of the message, where a truncated character is an error; or the *)
(* next frame of it.                                                       *)
ReadEnd ==
    /\ pc = "read" /\ MessageEnds
    /\ messageReader' = 0
    /\ IF Failed
       THEN Reject("nil", "utf8")
       ELSE /\ result' = "eof"
            /\ complete' = complete \cup {messageReader}
            /\ UNCHANGED <<readErr, got, outVars>>
    /\ pc' = "idle"
    /\ UNCHANGED <<netVars, pos, readErrCount, readRemaining, readFinal, readLength,
                   validating, utf8State, caller, frame>>

ReadOn ==
    /\ pc = "read" /\ readRemaining = 0 /\ ~MessageEnds
    /\ pc' = "head"
    /\ UNCHANGED <<netVars, pos, connVars, outVars, caller, frame, result, appVars>>

Next ==
    \/ Arrive \/ StreamEnds \/ AppCloses
    \/ NextReader \/ SkipFrame \/ ReadHead \/ ReadKey \/ DataFrame
    \/ Ping \/ Pong \/ Close \/ HandlerFails \/ ReadTimeout \/ ReadEOF
    \/ Read \/ ReadBody \/ ReadBodyFails \/ ReadEnd \/ ReadOn

Spec == Init /\ [][Next]_vars
-----------------------------------------------------------------------------
(* What the peer's script means.                                           *)
Starts == {i \in DOMAIN peer : peer[i].op \in {"text", "binary"}}

Conts(m) ==             \* the frames of the message that starts with frame m
    {i \in DOMAIN peer : /\ i >= m /\ peer[i].op \in DataOps
                         /\ \A j \in m..(i - 1) : peer[j].op \in DataOps => ~peer[j].fin
                         /\ \A j \in (m + 1)..i : peer[j].op \notin {"text", "binary"}}

Payload(m) == FoldLeft(LAMBDA acc, i : IF i \in Conts(m) THEN acc \o peer[i].body ELSE acc,
                       <<>>, [i \in DOMAIN peer |-> i])

Ended(m) == \E i \in Conts(m) : peer[i].fin

(* The parser never loses its place: a header is only ever read where the  *)
(* peer wrote one (conn.go 1182-1291: readRemaining, skipping, masks).     *)
FramesInStep == (pc = "head" /\ pos < Len(stream)) => unit(1).part = "h1"

(* The application gets a prefix of what was sent, and a reader returns    *)
(* io.EOF only when the message has been delivered to its last byte,       *)
(* whatever control frames, errors and discarded messages came in between  *)
(* (conn.go 1385-1441, 1501-1546).                                         *)
DeliversMessages ==
    /\ \A m \in DOMAIN peer : got[m] # <<>> => m \in Starts /\ IsPrefix(got[m], Payload(m))
    /\ \A m \in complete : Ended(m) /\ got[m] = Payload(m)

(* No message delivers more than the read limit, and no text message that  *)
(* is not valid UTF-8 is ever complete (conn.go 1301-1316, 1459-1477).     *)
GuardsApplication ==
    /\ \A m \in DOMAIN peer : ReadLimit > 0 => Len(got[m]) <= ReadLimit
    /\ \A m \in complete : peer[m].op = "text" => Utf8Run("accept", got[m]) = "accept"

(* The peer is told about the error that the application gets, once and as *)
(* the last thing; and every pong answers a ping, in the order of arrival  *)
(* and none twice (conn.go 1336-1360, 1365-1373, 1489-1497).               *)
AnswersPeer ==
    /\ \A i \in DOMAIN replies : replies[i].op = "close" =>
           /\ i = Len(replies)
           /\ replies[i].why # "app" => readErr = replies[i].why
    /\ \A i, j \in DOMAIN replies :
           (i < j /\ replies[j].op = "pong") => replies[i].frame < replies[j].frame
    /\ \A i \in DOMAIN replies : replies[i].op = "pong" => peer[replies[i].frame].op = "ping"

(* "If a message exceeds the limit, the connection sends a close message   *)
(* to the peer and returns ErrReadLimit" (conn.go 1655-1657): no other     *)
(* message does that.                                                      *)
LimitMeansTooBig ==
    readErr = "limit" => \/ peer[frame].flaw = "length"
                         \/ \E m \in Starts : frame \in Conts(m) /\ Len(Payload(m)) > ReadLimit
=============================================================================
