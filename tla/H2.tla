---------------------------------- MODULE H2 ----------------------------------
(***************************************************************************)
(* WebSocket over HTTP/2 (h2.go, client.go 265-285): the dialer's attempt  *)
(* with its handshake watchdog and its fallback to HTTP/1.1, and then, for *)
(* the client and for the server alike, the h2StreamConn that makes a      *)
(* net.Conn of the stream, with a goroutine that reads, one that writes,   *)
(* one that closes, and deadlines that anyone sets and whose timers run by *)
(* themselves.                                                             *)
(*                                                                         *)
(* The stream is external.  As the comment in fireDeadline has it, closing *)
(* it ends the I/O that is in flight; cancelling its context does not.     *)
(***************************************************************************)
EXTENDS Naturals, FiniteSets

CONSTANT MaxDeadlines  \* bound: calls of SetReadDeadline and SetWriteDeadline

ASSUME BoundAssumption == MaxDeadlines \in Nat

Dirs   == {"read", "write"}
Peers  == {"ok", "badAnswer", "refuses", "noSetting", "noALPN"}
Errors == {"requiresHTTPS", "proxy", "header", "notAvailable", "notSupported", "network",
           "badHandshake"}

VARIABLES
    conf,          \* side; a client's mode, https, proxy, timeout (HandshakeTimeout), badHeader
                   \* and its peer
    dial,          \* "start", "headers", "roundTrip", "answered", "stream", "h1", "failed"
    answer,        \* what RoundTrip returned
    err,           \* the error of dialHTTP2
    watchdog,      \* "none", "wait", "fired" or "retired"
    handshakeDone, \* is the channel closed?
    pipe,          \* pw, or the ResponseWriter: "none", "open" or "closed"
    body,          \* resp.Body, or r.Body: "none", "open" or "closed"
    cancelled,     \* streamCtx
    reset,         \* has the peer, or the network, ended the stream?
    current,       \* c.readDeadline, c.writeDeadline: "none", "running" or "expired"
    running,       \* timers that will fire
    firing,        \* fireDeadline goroutines: at its start ("flag"), at the closer ("close")
    exceeded,      \* c.deadlineExceeded
    passed,        \* has a deadline passed?
    io,            \* Read and Write: "idle", "blocked" or "failed"
    result,        \* what the last one returned
    closing,       \* Close: "no", "timers", "closer" or "done"
    deadlines      \* deadlines set

dialVars   == <<conf, dial, answer, err, watchdog, handshakeDone>>
streamVars == <<pipe, body, cancelled, reset>>
timerVars  == <<current, running, firing, exceeded, passed, deadlines>>
vars       == <<dialVars, streamVars, timerVars, io, result, closing>>

Confs == [side : {"client"}, mode : {"auto", "required"}, https : BOOLEAN, proxy : BOOLEAN,
          timeout : BOOLEAN, badHeader : BOOLEAN, peer : Peers]

Dialing == conf \in Confs /\ dial = "start" /\ pipe = "none" /\ body = "none"

(* upgradeHTTP2 has flushed its answer and wraps the request as a stream.  *)
Upgraded == conf = [side |-> "server"] /\ dial = "stream" /\ pipe = "open" /\ body = "open"

Init ==
    /\ Dialing \/ Upgraded
    /\ answer = "none" /\ err = "nil"
    /\ watchdog = "none" /\ handshakeDone = FALSE
    /\ cancelled = FALSE /\ reset = FALSE
    /\ current = [d \in Dirs |-> "none"] /\ running = [d \in Dirs |-> 0]
    /\ firing = [s \in {"flag", "close"} |-> 0]
    /\ exceeded = FALSE /\ passed = FALSE /\ deadlines = 0
    /\ io = [d \in Dirs |-> "idle"] /\ result = [d \in Dirs |-> "ok"]
    /\ closing = "no"

ConnVars == <<timerVars, io, result, closing>>
-----------------------------------------------------------------------------
(* DialContext: which errors of dialHTTP2 lead on to HTTP/1.1.             *)
FallsBack(e) == conf.mode = "auto" /\ e \in {"notAvailable", "requiresHTTPS"}

Fail(e) ==
    /\ err' = e
    /\ dial' = IF FallsBack(e) THEN "h1" ELSE "failed"

(* dialHTTP2: checks, then the pipe, the stream's context and the watchdog.*)
Start ==
    /\ dial = "start"
    /\ IF ~conf.https \/ conf.proxy
       THEN /\ Fail(IF ~conf.https THEN "requiresHTTPS" ELSE "proxy")
            /\ UNCHANGED <<pipe, watchdog>>
       ELSE /\ dial' = "headers" /\ pipe' = "open"
            /\ watchdog' = IF conf.timeout THEN "wait" ELSE "none"
            /\ UNCHANGED err
    /\ UNCHANGED <<conf, answer, handshakeDone, body, cancelled, reset, ConnVars>>

(* An early return for a header leaves the watchdog to its timer.          *)
Headers ==
    /\ dial = "headers"
    /\ IF conf.badHeader
       THEN Fail("header") /\ pipe' = "closed" /\ cancelled' = TRUE
       ELSE dial' = "roundTrip" /\ UNCHANGED <<err, pipe, cancelled>>
    /\ UNCHANGED <<conf, answer, watchdog, handshakeDone, body, reset, ConnVars>>

RoundTrip ==
    /\ dial = "roundTrip"
    /\ dial' = "answered"
    /\ \/ answer' = conf.peer /\ ~cancelled
       \/ answer' = "network"
    /\ body' = IF answer' \in {"ok", "badAnswer", "refuses"} THEN "open" ELSE body
    /\ UNCHANGED <<conf, err, watchdog, handshakeDone, pipe, cancelled, reset, ConnVars>>

(* The select of the watchdog: when both are ready, either is taken.       *)
Watchdog ==
    /\ watchdog = "wait"
    /\ \/ handshakeDone /\ watchdog' = "retired" /\ UNCHANGED cancelled
       \/ watchdog' = "fired" /\ cancelled' = TRUE
    /\ UNCHANGED <<conf, dial, answer, err, handshakeDone, pipe, body, reset, ConnVars>>

(* Faulty: the body of a refused handshake stays open.                     *)
AnswerLeavesBody ==
    /\ dial = "answered"
    /\ handshakeDone' = conf.timeout
    /\ IF answer = "ok"
       THEN dial' = "stream" /\ UNCHANGED <<err, pipe, body, cancelled>>
       ELSE /\ pipe' = "closed" /\ cancelled' = TRUE
            /\ Fail(CASE answer = "network" -> "network" [] answer = "noSetting" -> "notSupported"
                      [] answer = "noALPN" -> "notAvailable" [] OTHER -> "badHandshake")
            /\ UNCHANGED body
    /\ UNCHANGED <<conf, answer, watchdog, reset, ConnVars>>

Answer ==
    /\ dial = "answered"
    /\ handshakeDone' = conf.timeout
    /\ IF answer = "ok"
       THEN dial' = "stream" /\ UNCHANGED <<err, pipe, body, cancelled>>
       ELSE /\ pipe' = "closed" /\ cancelled' = TRUE
            /\ body' = IF body = "open" THEN "closed" ELSE body
            /\ Fail(CASE answer = "network" -> "network" [] answer = "noSetting" -> "notSupported"
                      [] answer = "noALPN" -> "notAvailable" [] OTHER -> "badHandshake")
    /\ UNCHANGED <<conf, answer, watchdog, reset, ConnVars>>
-----------------------------------------------------------------------------
(* Faulty: the old timer is not stopped.                                   *)
ArmUnstopped(d, state, n) ==
    /\ current' = [current EXCEPT ![d] = state]
    /\ running' = [running EXCEPT ![d] = @ + n]

(* armDeadline stops the timer of the deadline it replaces; if that timer  *)
(* has expired its fireDeadline is under way and goes on.                  *)
Arm(d, state, n) ==
    /\ current' = [current EXCEPT ![d] = state]
    /\ running' = [running EXCEPT ![d] = @ - (IF current[d] = "running" THEN 1 ELSE 0) + n]

CanSet == dial = "stream" /\ deadlines < MaxDeadlines

SetZero(d) ==
    /\ CanSet /\ deadlines' = deadlines + 1
    /\ Arm(d, "none", 0)
    /\ UNCHANGED <<dialVars, streamVars, firing, exceeded, passed, io, result, closing>>

SetFuture(d) ==
    /\ CanSet /\ deadlines' = deadlines + 1
    /\ Arm(d, "running", 1)
    /\ UNCHANGED <<dialVars, streamVars, firing, exceeded, passed, io, result, closing>>

(* A deadline in the past: the flag, and the context.                      *)
SetPast(d) ==
    /\ CanSet /\ deadlines' = deadlines + 1
    /\ Arm(d, "none", 0)
    /\ exceeded' = TRUE /\ passed' = TRUE /\ cancelled' = TRUE
    /\ UNCHANGED <<dialVars, pipe, body, reset, firing, io, result, closing>>

Expire(d) ==
    /\ running[d] > 0
    /\ running' = [running EXCEPT ![d] = @ - 1]
    /\ firing' = [firing EXCEPT !["flag"] = @ + 1]
    /\ current' = [current EXCEPT ![d] = "expired"]
    /\ passed' = TRUE
    /\ UNCHANGED <<dialVars, streamVars, exceeded, deadlines, io, result, closing>>

(* closer and cancel.  A client's closer closes the pipe and the body of   *)
(* the response, a server's the body of the request alone: a Write of the  *)
(* server in flight goes on until the peer, or the HTTP/2 server, ends it. *)
RunCloser ==
    /\ body' = "closed" /\ cancelled' = TRUE
    /\ pipe' = IF conf.side = "client" THEN "closed" ELSE pipe

(* Faulty: the stream is closed, and then the flag is set.                 *)
FireFlagLate ==
    /\ firing["flag"] > 0
    /\ firing' = [firing EXCEPT !["flag"] = @ - 1, !["close"] = @ + 1]
    /\ RunCloser
    /\ UNCHANGED <<dialVars, reset, current, running, exceeded, passed, deadlines, io, result,
                   closing>>

(* fireDeadline: the flag under the mutex, then closer and cancel.         *)
FireFlag ==
    /\ firing["flag"] > 0
    /\ firing' = [firing EXCEPT !["flag"] = @ - 1, !["close"] = @ + 1]
    /\ exceeded' = TRUE
    /\ UNCHANGED <<dialVars, streamVars, current, running, passed, deadlines, io, result,
                   closing>>

(* Faulty: only the context is cancelled.                                  *)
FireCloseCancels ==
    /\ firing["close"] > 0
    /\ firing' = [firing EXCEPT !["close"] = @ - 1]
    /\ cancelled' = TRUE
    /\ UNCHANGED <<dialVars, pipe, body, reset, current, running, exceeded, passed, deadlines,
                   io, result, closing>>

FireClose ==
    /\ firing["close"] > 0
    /\ firing' = [firing EXCEPT !["close"] = @ - 1]
    /\ RunCloser
    /\ UNCHANGED <<dialVars, reset, current, running, exceeded, passed, deadlines, io, result,
                   closing>>
-----------------------------------------------------------------------------
Reset ==
    /\ dial = "stream" /\ ~reset
    /\ reset' = TRUE
    /\ UNCHANGED <<dialVars, pipe, body, cancelled, ConnVars>>

Goto(d, s) == io' = [io EXCEPT ![d] = s]

Call(d) ==
    /\ dial = "stream" /\ io[d] = "idle"
    /\ Goto(d, "blocked")
    /\ UNCHANGED <<dialVars, streamVars, timerVars, result, closing>>

StreamEnded(d) == reset \/ (IF d = "read" THEN body = "closed" ELSE pipe = "closed")

Succeed(d) ==
    /\ io[d] = "blocked" /\ ~StreamEnded(d)
    /\ Goto(d, "idle") /\ result' = [result EXCEPT ![d] = "ok"]
    /\ UNCHANGED <<dialVars, streamVars, timerVars, closing>>

Break(d) ==
    /\ io[d] = "blocked" /\ StreamEnded(d)
    /\ Goto(d, "failed")
    /\ UNCHANGED <<dialVars, streamVars, timerVars, result, closing>>

(* didDeadlineFire turns the error into os.ErrDeadlineExceeded.            *)
Return(d) ==
    /\ io[d] = "failed"
    /\ Goto(d, "idle")
    /\ result' = [result EXCEPT ![d] = IF exceeded THEN "deadline" ELSE "error"]
    /\ UNCHANGED <<dialVars, streamVars, timerVars, closing>>

(* Close, once: it stops the timers, and then runs closer and cancel.      *)
Close ==
    /\ dial = "stream" /\ closing = "no"
    /\ closing' = "closer"
    /\ current' = [d \in Dirs |-> "none"]
    /\ running' = [d \in Dirs |-> IF current[d] = "running" THEN running[d] - 1 ELSE running[d]]
    /\ UNCHANGED <<dialVars, streamVars, firing, exceeded, passed, deadlines, io, result>>

Closer ==
    /\ closing = "closer"
    /\ closing' = "done"
    /\ RunCloser
    /\ UNCHANGED <<dialVars, reset, timerVars, io, result>>

Dial == Start \/ Headers \/ RoundTrip \/ Answer

Next ==
    \/ Dial \/ Watchdog \/ Reset \/ Close \/ Closer \/ FireFlag \/ FireClose
    \/ \E d \in Dirs : \/ SetZero(d) \/ SetFuture(d) \/ SetPast(d) \/ Expire(d)
                       \/ Call(d) \/ Succeed(d) \/ Break(d) \/ Return(d)

(* Goroutines are scheduled and time passes; the peer may never send, or   *)
(* read, anything.                                                         *)
Fairness ==
    /\ WF_vars(Start \/ Headers \/ Answer) /\ WF_vars(Watchdog)
    /\ WF_vars(Closer) /\ WF_vars(FireFlag) /\ WF_vars(FireClose)
    /\ \A d \in Dirs : WF_vars(Expire(d)) /\ WF_vars(Break(d)) /\ WF_vars(Return(d))

Spec == Init /\ [][Next]_vars /\ Fairness
-----------------------------------------------------------------------------
(* A dial that fails, or goes on with HTTP/1.1, leaves nothing of the      *)
(* stream behind, at whichever point it failed (h2.go 401-505, 519-533).   *)
DialCleansUp ==
    dial \in {"failed", "h1"} =>
        pipe # "open" /\ body # "open" /\ (pipe = "closed" => cancelled)

(* A deadline that has been replaced, and one that Close removed, has no   *)
(* timer left that could end the stream (h2.go 137-146, 187-203).          *)
NoStrayTimer ==
    \A d \in Dirs : running[d] = (IF current[d] = "running" THEN 1 ELSE 0)

(* An I/O error is os.ErrDeadlineExceeded only if a deadline has passed,   *)
(* and one that a deadline caused is never anything else: what else can    *)
(* end the stream is Close and the peer (h2.go 65-68, 205-224).            *)
ErrorsNormalised ==
    \A d \in Dirs : /\ result[d] = "deadline" => passed
                    /\ result[d] = "error" => reset \/ closing = "done"

(* A Read, or a client's Write, in flight ends once the timer of a deadline *)
(* has expired and once Close has been called, whatever the peer does.     *)
BlockedIOEnds ==
    \A d \in Dirs : (/\ d = "read" \/ conf.side = "client"
                     /\ firing["flag"] > 0 \/ closing = "closer") ~> io[d] # "blocked"

(* The same of a server's Write: "a timer that cancels the stream context  *)
(* when the deadline expires; this 'kills the stream'" (h2.go 65-67).      *)
ServerWriteEnds ==
    (/\ conf.side = "server"
     /\ firing["flag"] > 0 \/ closing = "closer") ~> io["write"] # "blocked"

(* "If the peer does not advertise support ... the dialer silently falls   *)
(* back to the HTTP/1.1 Upgrade handshake" (h2.go 41-44).                  *)
AutoFallsBack ==
    (dial = "failed" /\ conf.mode = "auto") => answer \notin {"noSetting", "noALPN"}

(* A deadline set in the past ends the Read in flight, which is how        *)
(* NextReaderContext aborts on cancellation (conn.go 1605-1608).           *)
PastDeadlineEnds ==
    (passed /\ io["read"] = "blocked") ~> io["read"] # "blocked"
===============================================================================
