------------------------------ MODULE ReadContext ------------------------------
(***************************************************************************)
(* The calls that read messages: NextReader and NextReaderContext with the *)
(* watchdog goroutine that sets a deadline in the past when the context is *)
(* done, and what is built on them: ReadMessage, ReadMessageContext,       *)
(* ReadJSON and JoinMessages (conn.go, json.go, join.go).  They differ in  *)
(* whether they have a context, and in whether they take a message whole.  *)
(*                                                                         *)
(* The peer's stream is a sequence of units: a header, one byte of payload,*)
(* or a pong.  bufio.Reader fetches units from the net.Conn, which fails   *)
(* once the deadline has passed even if there is something to read.        *)
(* ConnRead has headers byte by byte, and all that is wrong with frames.   *)
(***************************************************************************)
EXTENDS Naturals, Sequences, FiniteSets

CONSTANTS Streams,   \* what the peer may send: [is : {"head", "byte", "pong"}, len : Nat]
          MaxReads   \* bound: calls

ASSUME ReadsAssumption == MaxReads \in Nat

(* After a header come the bytes it announces, unless the stream ends.     *)
ASSUME StreamsAssumption ==
    \A s \in Streams :
        /\ s \in Seq([is : {"head", "byte", "pong"}, len : Nat])
        /\ \A i \in 1..Len(s) : s[i].is = "head" =>
               \A j \in 1..Len(s) : i < j /\ j <= i + s[i].len => s[j].is = "byte"

VARIABLES
    stream,    \* the peer's units
    handler,   \* does the pong handler set a read deadline, as keepalives do?
    arrived, fetched, taken,  \* how many are at the net.Conn, in br, consumed
    remaining, \* c.readRemaining
    skipped,   \* how much of it NextReader has discarded by now
    readErr,   \* has c.readErr latched an error?
    readDl,    \* the read deadline: "none", "ctx", "app", "past" or "kick"
    step,      \* the reading goroutine: "idle", "check", "skip", "frame", "stop", "payload"
    call,      \* the call it is in: [ctx, whole]
    rctx,      \* its context: does it have a deadline, and is it done?
    watcher,   \* its watchdog: "none", "watch", "fired" or "quit"
    got,       \* has NextReader a message?
    count,     \* bytes of payload delivered of it
    returned,  \* what the last call returned: "nil", "timeout", "failed" or "ctx"
    handed,    \* messages given to the application
    lost,      \* did a timeout strike while a payload was being skipped?
    reads      \* calls so far

streamVars == <<stream, handler>>
parseVars  == <<fetched, taken, remaining, skipped, readErr>>
ctxVars    == <<call, rctx, watcher>>
outVars    == <<got, count, returned, handed, lost, reads>>
readVars   == <<streamVars, arrived, parseVars, readDl, step, ctxVars, outVars>>

Calls == [ctx : BOOLEAN, whole : BOOLEAN]

ReadInit(streams) ==
    /\ stream \in streams /\ handler \in BOOLEAN
    /\ arrived = 0 /\ fetched = 0 /\ taken = 0 /\ remaining = 0 /\ skipped = 0
    /\ readErr = FALSE /\ readDl = "none"
    /\ step = "idle" /\ call = [ctx |-> FALSE, whole |-> FALSE]
    /\ rctx = [dl |-> FALSE, done |-> FALSE] /\ watcher = "none"
    /\ got = FALSE /\ count = 0 /\ returned = "nil" /\ handed = 0 /\ lost = FALSE /\ reads = 0
-----------------------------------------------------------------------------
(* NextReader: what is left of the message before is skipped first.  A     *)
(* latched error is returned again.                                        *)
StartNextReader ==
    /\ got' = FALSE /\ count' = 0
    /\ IF readErr THEN step' = "stop" /\ returned' = "failed"
       ELSE step' = (IF remaining > 0 THEN "skip" ELSE "frame") /\ UNCHANGED returned

ReadCall(c, dl) ==
    /\ step = "idle" /\ reads < MaxReads /\ ~ lost
    /\ reads' = reads + 1
    /\ call' = c /\ rctx' = [dl |-> dl, done |-> FALSE] /\ watcher' = "none"
    /\ IF c.ctx THEN step' = "check" /\ UNCHANGED <<got, count, returned>> ELSE StartNextReader
    /\ UNCHANGED <<streamVars, arrived, parseVars, readDl, handed, lost>>

CheckContext ==
    /\ step = "check"
    /\ IF rctx.done THEN /\ returned' = "ctx" /\ step' = "idle" /\ got' = FALSE
                         /\ UNCHANGED <<readDl, watcher, count>>
       ELSE /\ readDl' = IF rctx.dl THEN "ctx" ELSE readDl
            /\ watcher' = "watch"
            /\ StartNextReader
    /\ UNCHANGED <<streamVars, arrived, parseVars, call, rctx, handed, lost, reads>>

(* br has something, or else the net.Conn is asked.                        *)
Fetch ==
    /\ step \in {"skip", "frame", "payload"} /\ (step = "payload" => remaining > 0)
    /\ taken = fetched /\ arrived > fetched /\ readDl \notin {"past", "kick"}
    /\ fetched' \in fetched + 1 .. arrived
    /\ UNCHANGED <<streamVars, arrived, taken, remaining, skipped, readErr, readDl, step, ctxVars, outVars>>

(* io.CopyN; readRemaining counts only once it has returned.               *)
Skip ==
    /\ step = "skip" /\ taken < fetched
    /\ taken' = taken + 1
    /\ IF skipped + 1 = remaining THEN remaining' = 0 /\ skipped' = 0 /\ step' = "frame"
       ELSE skipped' = skipped + 1 /\ UNCHANGED <<remaining, step>>
    /\ UNCHANGED <<streamVars, arrived, fetched, readErr, readDl, ctxVars, outVars>>

(* advanceFrame: a pong, whose handler may set a deadline, or a message.   *)
Frame ==
    /\ step = "frame" /\ taken < fetched
    /\ taken' = taken + 1
    /\ LET u == stream[taken + 1]
       IN  \/ /\ u.is = "pong"
              /\ readDl' = IF handler THEN "app" ELSE readDl
              /\ UNCHANGED <<remaining, step, got, returned>>
           \/ /\ u.is = "head"
              /\ remaining' = u.len /\ got' = TRUE /\ returned' = "nil" /\ step' = "stop"
              /\ UNCHANGED readDl
    /\ UNCHANGED <<streamVars, arrived, fetched, skipped, readErr, ctxVars, count, handed, lost, reads>>

(* NextReader returns a timeout and does not latch it; Read of a message   *)
(* latches every error.                                                    *)
ReadTimeout ==
    /\ taken = fetched /\ readDl \in {"past", "kick"}
    /\ \/ /\ step \in {"skip", "frame"}
          /\ returned' = "timeout" /\ step' = "stop"
          /\ lost' = (lost \/ skipped > 0) /\ skipped' = 0
          /\ UNCHANGED readErr
       \/ /\ step = "payload" /\ remaining > 0
          /\ returned' = "failed" /\ step' = "idle" /\ readErr' = TRUE
          /\ UNCHANGED <<lost, skipped>>
    /\ UNCHANGED <<streamVars, arrived, fetched, taken, remaining, readDl, ctxVars, got, count, handed, reads>>
-----------------------------------------------------------------------------
(* What the caller of NextReader makes of it.                              *)
HandOver(error) ==
    /\ returned' = error
    /\ step' = IF error = "nil" THEN "payload" ELSE "idle"
    /\ handed' = IF error = "nil" THEN handed + 1 ELSE handed

(* Without a context nothing is to be stopped.                             *)
Return ==
    /\ step = "stop" /\ ~ call.ctx
    /\ HandOver(IF got THEN "nil" ELSE returned)
    /\ UNCHANGED <<streamVars, arrived, parseVars, readDl, ctxVars, got, count, lost, reads>>

(* Faulty: the caller does not wait for the watchdog.                      *)
StopUnwatched ==
    /\ step = "stop" /\ call.ctx
    /\ readDl' = "none"
    /\ HandOver(IF got THEN "nil" ELSE IF rctx.done THEN "ctx" ELSE returned)
    /\ UNCHANGED <<streamVars, arrived, parseVars, ctxVars, got, count, lost, reads>>

(* Faulty: ctx.Err() is returned whatever NextReader has returned.         *)
ErrorOrContext(error, done) == IF done THEN "ctx" ELSE error

(* ctx.Err() replaces an error only.                                       *)
ContextError(error, done) == IF error # "nil" /\ done THEN "ctx" ELSE error

(* close(stop), and the watchdog has ended; the deadline is cleared, also  *)
(* one that the application had set.                                       *)
StopWatcher ==
    /\ step = "stop" /\ call.ctx /\ watcher \in {"fired", "quit"}
    /\ readDl' = "none"
    /\ HandOver(ContextError(IF got THEN "nil" ELSE returned, rctx.done))
    /\ UNCHANGED <<streamVars, arrived, parseVars, ctxVars, got, count, lost, reads>>

(* Read, of one byte.                                                      *)
Deliver ==
    /\ step = "payload" /\ remaining > 0 /\ taken < fetched
    /\ taken' = taken + 1 /\ remaining' = remaining - 1 /\ count' = count + 1
    /\ UNCHANGED <<streamVars, arrived, fetched, skipped, readErr, readDl, step, ctxVars, got, returned,
                   handed, lost, reads>>

(* io.EOF; or the caller has enough: of NextReader the application reads   *)
(* what it likes, ReadJSON up to the end of a value.                       *)
Finish ==
    /\ step = "payload" /\ (remaining = 0 \/ ~ call.whole)
    /\ step' = "idle"
    /\ UNCHANGED <<streamVars, arrived, parseVars, readDl, ctxVars, outVars>>
-----------------------------------------------------------------------------
(* Faulty: a context with a deadline is left to the net.Conn's timer.      *)
WatcherLeavesDeadline ==
    /\ watcher = "watch" /\ rctx.done
    /\ watcher' = "fired" /\ readDl' = IF rctx.dl THEN readDl ELSE "kick"
    /\ UNCHANGED <<streamVars, arrived, parseVars, step, call, rctx, outVars>>

(* The watchdog: select of stop and ctx.Done().                            *)
WatcherFires ==
    /\ watcher = "watch" /\ rctx.done
    /\ watcher' = "fired" /\ readDl' = "kick"
    /\ UNCHANGED <<streamVars, arrived, parseVars, step, call, rctx, outVars>>

WatcherQuits ==
    /\ watcher = "watch" /\ step = "stop"
    /\ watcher' = "quit"
    /\ UNCHANGED <<streamVars, arrived, parseVars, readDl, step, call, rctx, outVars>>

(* Others cancel contexts, deadlines pass; the timer of a context is not   *)
(* the timer of the net.Conn.                                              *)
ContextDone ==
    /\ call.ctx /\ step # "idle" /\ ~ rctx.done
    /\ rctx' = [rctx EXCEPT !.done = TRUE]
    /\ UNCHANGED <<streamVars, arrived, parseVars, readDl, step, call, watcher, outVars>>

DeadlinePasses ==
    /\ readDl \in {"ctx", "app"}
    /\ readDl' = "past"
    /\ UNCHANGED <<streamVars, arrived, parseVars, step, ctxVars, outVars>>

(* Before a call the application may set a deadline, or clear it.          *)
SetReadDeadline ==
    /\ step = "idle" /\ handler
    /\ readDl' \in {"none", "app"} \ {readDl}
    /\ UNCHANGED <<streamVars, arrived, parseVars, step, ctxVars, outVars>>

Arrive ==
    /\ arrived < Len(stream)
    /\ arrived' = arrived + 1
    /\ UNCHANGED <<streamVars, parseVars, readDl, step, ctxVars, outVars>>

Reading == CheckContext \/ Fetch \/ Skip \/ Frame \/ ReadTimeout \/ Return \/ StopWatcher \/ Deliver \/ Finish
Watcher == WatcherFires \/ WatcherQuits

ReadNext ==
    \/ \E c \in Calls, dl \in BOOLEAN : ReadCall(c, dl)
    \/ Reading \/ Watcher \/ ContextDone \/ DeadlinePasses \/ SetReadDeadline \/ Arrive

(* Both goroutines are scheduled.                                          *)
ReadFairness == WF_readVars(Reading) /\ WF_readVars(Watcher)
-----------------------------------------------------------------------------
(* Outside of NextReaderContext no watchdog runs and its deadline is not on*)
(* the net.Conn, so it cannot hit the reader that was returned, nor a later*)
(* call (conn.go:1614).                                                    *)
NoStaleReadKick ==
    step \in {"idle", "payload"} => watcher # "watch" /\ readDl \notin {"kick", "ctx"}

Heads(n) == Cardinality({i \in 1..n : stream[i].is = "head"})

(* A message that was taken off the stream is handed to the application    *)
(* although its context may be done by then, so none is lost when a call   *)
(* fails; and a call that takes messages whole has all of it (conn.go:1625,*)
(* join.go:36).                                                            *)
NothingLost ==
    /\ step \in {"idle", "payload"} /\ ~ lost => handed = Heads(taken)
    /\ step = "idle" /\ call.whole /\ returned = "nil" /\ got =>
           \E i \in 1..taken : /\ stream[i].is = "head" /\ Heads(i) = handed
                               /\ count = stream[i].len

(* A call whose context is done stops waiting for a message, whatever the  *)
(* peer does, as long as no handler sets a deadline over the watchdog's    *)
(* (conn.go:1606).                                                         *)
CancelReturns ==
    (call.ctx /\ rctx.done /\ ~ handler /\ step \in {"skip", "frame"}) ~> (step \in {"idle", "payload"})
=============================================================================
