----------------------------- MODULE WriteContext -----------------------------
(***************************************************************************)
(* The write calls of magilla.Conn that take a context (conn.go):          *)
(* WriteMessageContext, WriteControlContext and NextWriterContext, beside  *)
(* calls that take none.  Each starts a watchdog goroutine that, when the  *)
(* context is done, installs a deadline in the past on the net.Conn, which *)
(* all goroutines share; on its way out the call stops the watchdog and    *)
(* clears the deadline of the net.Conn.                                    *)
(*                                                                         *)
(* ConnWrite has the steps of a call one by one.  Here a frame is written  *)
(* in two: taking mu, with the check of writeErr and the deadline; and the *)
(* end of conn.Write, with the releases.  The steps in between change only *)
(* what mu protects, so no watchdog can tell the difference.               *)
(***************************************************************************)
EXTENDS Naturals

CONSTANTS Procs,        \* the goroutines
          MaxCalls,     \* bound: calls each makes
          CtxDeadlines  \* the deadlines contexts have: "none", "future"

ASSUME BoundAssumption     == MaxCalls \in Nat
ASSUME DeadlinesAssumption == CtxDeadlines \subseteq {"none", "future"}

VARIABLES
    writeMu, mu,  \* are the tokens in their channels?
    writeErr,     \* c.writeErr: "nil" or "failed"
    connDl,       \* c.writeDeadline
    netDl,        \* the write deadline of the net.Conn; "kick" is a watchdog's
    pc,           \* what each goroutine does next
    method,       \* the call it is in
    ctx,          \* its context: the deadline, and is it done?
    dog,          \* its watchdog: "none", "watch", "fired" or "quit"
    wait,         \* the deadline it waits until
    sent,         \* has the net.Conn taken its frame?
    err,          \* what the call returned or is going to return
    calls         \* calls it has made

vars == <<writeMu, mu, writeErr, connDl, netDl, pc, method, ctx, dog, wait, sent, err, calls>>

Methods   == {"message", "messageCtx", "controlCtx", "writerCtx"}
Watched   == {"messageCtx", "controlCtx", "writerCtx"}
Deadlines == {"none", "future", "past"}
NoContext == [dl |-> "none", done |-> FALSE]

Init ==
    /\ writeMu = TRUE /\ mu = TRUE
    /\ writeErr = "nil"
    /\ connDl = "none" /\ netDl = "none"
    /\ pc = [p \in Procs |-> "idle"]
    /\ method = [p \in Procs |-> "message"]
    /\ ctx = [p \in Procs |-> NoContext]
    /\ dog = [p \in Procs |-> "none"]
    /\ wait = [p \in Procs |-> "none"]
    /\ sent = [p \in Procs |-> FALSE]
    /\ err = [p \in Procs |-> "nil"]
    /\ calls = [p \in Procs |-> 0]

Goto(p, l) == pc' = [pc EXCEPT ![p] = l]
Waited(p)  == wait' = [wait EXCEPT ![p] = "none"]

(* The call of WriteMessage, WriteControl or NextWriter has returned: with *)
(* a watchdog running, stop() comes next.                                  *)
Leave(p, e) ==
    /\ err' = [err EXCEPT ![p] = e]
    /\ Goto(p, IF method[p] \in Watched THEN "stop" ELSE "idle")
-----------------------------------------------------------------------------
(* A call with a context that is done already returns its error at once.   *)
CallDone(p) ==
    /\ pc[p] = "idle" /\ calls[p] < MaxCalls
    /\ calls' = [calls EXCEPT ![p] = @ + 1]
    /\ err' = [err EXCEPT ![p] = "ctx"] /\ sent' = [sent EXCEPT ![p] = FALSE]
    /\ UNCHANGED <<writeMu, mu, writeErr, connDl, netDl, pc, method, ctx, dog, wait>>

(* Otherwise a deadline of the context becomes the connection's, except in *)
(* WriteControlContext, and the watchdog starts.                           *)
Call(p) ==
    /\ pc[p] = "idle" /\ calls[p] < MaxCalls
    /\ calls' = [calls EXCEPT ![p] = @ + 1]
    /\ \E m \in Methods, d \in CtxDeadlines :
          /\ m = "message" => d = "none"
          /\ method' = [method EXCEPT ![p] = m]
          /\ ctx' = [ctx EXCEPT ![p] = [dl |-> d, done |-> FALSE]]
          /\ dog' = [dog EXCEPT ![p] = IF m \in Watched THEN "watch" ELSE "none"]
          /\ connDl' = IF d # "none" /\ m # "controlCtx" THEN d ELSE connDl
    /\ sent' = [sent EXCEPT ![p] = FALSE]
    /\ Goto(p, "enter")
    /\ UNCHANGED <<writeMu, mu, writeErr, netDl, wait, err>>

(* WriteControl has its deadline from the context; the others read the     *)
(* connection's, which may by now be another goroutine's.                  *)
Enter(p) ==
    /\ pc[p] = "enter"
    /\ \E d \in IF method[p] # "controlCtx" THEN {connDl}
              ELSE IF ctx[p].done /\ ctx[p].dl = "future" THEN {"future", "past"} ELSE {ctx[p].dl} :
          IF d = "past" THEN Leave(p, "timeout") /\ UNCHANGED wait
          ELSE /\ wait' = [wait EXCEPT ![p] = d]
               /\ Goto(p, IF method[p] = "controlCtx" THEN "wantMu" ELSE "acquire")
               /\ UNCHANGED err
    /\ UNCHANGED <<writeMu, mu, writeErr, connDl, netDl, method, ctx, dog, sent, calls>>

AcquireWriteMu(p) ==
    /\ pc[p] = "acquire" /\ writeMu
    /\ writeMu' = FALSE
    /\ Goto(p, "begin") /\ Waited(p)
    /\ UNCHANGED <<mu, writeErr, connDl, netDl, method, ctx, dog, sent, err, calls>>

(* The timer of acquireWriteMu, or of WriteControl's wait for mu.          *)
WaitTimeout(p) ==
    /\ pc[p] = "acquire" \/ (pc[p] = "wantMu" /\ method[p] = "controlCtx")
    /\ wait[p] = "past"
    /\ Leave(p, "timeout") /\ Waited(p)
    /\ UNCHANGED <<writeMu, mu, writeErr, connDl, netDl, method, ctx, dog, sent, calls>>

(* beginMessage, and for WriteMessage the way to c.write, which takes the  *)
(* deadline of the connection once more.  NextWriterContext returns the    *)
(* writer, and stops the watchdog before it is used.                       *)
Begin(p) ==
    /\ pc[p] = "begin"
    /\ \/ /\ writeErr # "nil" /\ writeMu' = TRUE /\ Leave(p, writeErr) /\ UNCHANGED wait
       \/ /\ writeErr = "nil" /\ method[p] = "writerCtx"
          /\ Leave(p, "nil") /\ UNCHANGED <<writeMu, wait>>
       \/ /\ writeErr = "nil" /\ method[p] # "writerCtx" /\ Goto(p, "wantMu")
          /\ wait' = [wait EXCEPT ![p] = connDl] /\ UNCHANGED <<writeMu, err>>
    /\ UNCHANGED <<mu, writeErr, connDl, netDl, method, ctx, dog, sent, calls>>

(* Close of the writer that NextWriterContext returned.                    *)
CloseWriter(p) ==
    /\ pc[p] = "open"
    /\ wait' = [wait EXCEPT ![p] = connDl]
    /\ Goto(p, "wantMu")
    /\ UNCHANGED <<writeMu, mu, writeErr, connDl, netDl, method, ctx, dog, sent, err, calls>>

(* What gives writeMu back when the frame is over: the call itself, or     *)
(* endMessage of the writer, which has no watchdog any more.               *)
FrameOver(p, e) ==
    /\ writeMu' = (IF method[p] = "controlCtx" THEN writeMu ELSE TRUE)
    /\ err' = [err EXCEPT ![p] = e]
    /\ Goto(p, IF dog[p] = "none" THEN "idle" ELSE "stop")

(* c.write up to conn.Write: its deadline replaces whatever the net.Conn   *)
(* had, a watchdog's included.                                             *)
TakeMu(p) ==
    /\ pc[p] = "wantMu" /\ mu
    /\ Waited(p)
    /\ \/ writeErr # "nil" /\ FrameOver(p, writeErr) /\ UNCHANGED <<mu, netDl>>
       \/ /\ writeErr = "nil"
          /\ mu' = FALSE /\ netDl' = wait[p]
          /\ Goto(p, "net") /\ UNCHANGED <<writeMu, err>>
    /\ UNCHANGED <<writeErr, connDl, method, ctx, dog, sent, calls>>

(* conn.Write takes the frame, if the peer reads and no deadline has       *)
(* passed, or fails because one has, perhaps in the middle of the frame.   *)
Written(p) ==
    /\ pc[p] = "net" /\ netDl \in {"none", "future"}
    /\ mu' = TRUE
    /\ sent' = [sent EXCEPT ![p] = TRUE]
    /\ FrameOver(p, "nil")
    /\ UNCHANGED <<writeErr, connDl, netDl, method, ctx, dog, wait, calls>>

WriteTimeout(p) ==
    /\ pc[p] = "net" /\ netDl \in {"past", "kick"}
    /\ mu' = TRUE
    /\ writeErr' = "failed"
    /\ FrameOver(p, "timeout")
    /\ UNCHANGED <<connDl, netDl, method, ctx, dog, wait, sent, calls>>
-----------------------------------------------------------------------------
(* The watchdog.  Its select takes either case when both are ready.        *)
Fire(p) ==
    /\ dog[p] = "watch" /\ ctx[p].done
    /\ netDl' = "kick"
    /\ dog' = [dog EXCEPT ![p] = "fired"]
    /\ UNCHANGED <<writeMu, mu, writeErr, connDl, pc, method, ctx, wait, sent, err, calls>>

Quit(p) ==
    /\ dog[p] = "watch" /\ pc[p] = "stop"
    /\ dog' = [dog EXCEPT ![p] = "quit"]
    /\ UNCHANGED <<writeMu, mu, writeErr, connDl, netDl, pc, method, ctx, wait, sent, err, calls>>

(* Faulty: stop() does not wait for the watchdog.                          *)
StopNoWait(p) ==
    /\ pc[p] = "stop"
    /\ netDl' = "none"
    /\ err' = [err EXCEPT ![p] = IF @ # "nil" /\ ctx[p].done THEN "ctx" ELSE @]
    /\ dog' = [dog EXCEPT ![p] = IF @ = "watch" THEN @ ELSE "none"]
    /\ Goto(p, IF method[p] = "writerCtx" /\ err[p] = "nil" /\ ~sent[p] THEN "open" ELSE "idle")
    /\ UNCHANGED <<writeMu, mu, writeErr, connDl, method, ctx, wait, sent, calls>>

(* Faulty: the call returns ctx.Err() whatever the write returned.         *)
StopPrefersCtx(p) ==
    /\ pc[p] = "stop" /\ dog[p] \in {"fired", "quit"}
    /\ netDl' = "none"
    /\ err' = [err EXCEPT ![p] = IF ctx[p].done THEN "ctx" ELSE @]
    /\ dog' = [dog EXCEPT ![p] = "none"] /\ ctx' = [ctx EXCEPT ![p] = NoContext]
    /\ Goto(p, IF method[p] = "writerCtx" /\ err[p] = "nil" THEN "open" ELSE "idle")
    /\ UNCHANGED <<writeMu, mu, writeErr, connDl, method, wait, sent, calls>>

(* stop(), and the return: an error of the write becomes ctx.Err() when    *)
(* the context is done by now.                                             *)
Stop(p) ==
    /\ pc[p] = "stop" /\ dog[p] \in {"fired", "quit"}
    /\ netDl' = "none"
    /\ err' = [err EXCEPT ![p] = IF @ # "nil" /\ ctx[p].done THEN "ctx" ELSE @]
    /\ dog' = [dog EXCEPT ![p] = "none"] /\ ctx' = [ctx EXCEPT ![p] = NoContext]
    /\ Goto(p, IF method[p] = "writerCtx" /\ err[p] = "nil" THEN "open" ELSE "idle")
    /\ UNCHANGED <<writeMu, mu, writeErr, connDl, method, wait, sent, calls>>
-----------------------------------------------------------------------------
(* A context is cancelled, or its deadline passes.                         *)
CtxDone(p) ==
    /\ pc[p] # "idle" /\ dog[p] # "none" /\ ~ctx[p].done
    /\ ctx' = [ctx EXCEPT ![p].done = TRUE]
    /\ UNCHANGED <<writeMu, mu, writeErr, connDl, netDl, pc, method, dog, wait, sent, err, calls>>

(* Time passes a deadline that is stored, waited for or installed.         *)
Expire ==
    /\ \/ connDl = "future" /\ connDl' = "past" /\ UNCHANGED <<netDl, wait>>
       \/ netDl = "future" /\ netDl' = "past" /\ UNCHANGED <<connDl, wait>>
       \/ \E p \in Procs : /\ pc[p] \in {"acquire", "wantMu"} /\ wait[p] = "future"
                           /\ wait' = [wait EXCEPT ![p] = "past"]
                           /\ UNCHANGED <<connDl, netDl>>
    /\ UNCHANGED <<writeMu, mu, writeErr, pc, method, ctx, dog, sent, err, calls>>

(* What the code does on its own, and the steps it may wait for ever for.  *)
CodeStep(p) ==
    \/ Enter(p) \/ AcquireWriteMu(p) \/ WaitTimeout(p) \/ Begin(p) \/ TakeMu(p)
    \/ WriteTimeout(p) \/ Fire(p) \/ Quit(p) \/ Stop(p) \/ CloseWriter(p)

Next ==
    \/ \E p \in Procs : CodeStep(p) \/ CallDone(p) \/ Call(p) \/ Written(p) \/ CtxDone(p)
    \/ Expire

Spec == Init /\ [][Next]_vars

(* Every goroutine is scheduled, the waiters for a token are served in     *)
(* order, writers are closed and deadlines pass.  That the peer reads is   *)
(* not assumed.                                                            *)
Fairness ==
    /\ \A p \in Procs : /\ WF_vars(CodeStep(p)) /\ WF_vars(Fire(p))
                        /\ SF_vars(AcquireWriteMu(p)) /\ SF_vars(TakeMu(p))
    /\ WF_vars(Expire)

FairSpec == Spec /\ Fairness
-----------------------------------------------------------------------------
(* A watchdog's deadline in the past does not outlive its call: when no    *)
(* such call is on its way, later writes find a net.Conn without it.  This *)
(* is what waiting for the watchdog before the clearing is for (conn.go    *)
(* 517-521).                                                               *)
NoStaleKick ==
    netDl = "kick" => \E p \in Procs : dog[p] = "fired" /\ pc[p] # "idle"

(* A call returns nil exactly when its frame is on the wire, although its  *)
(* context may end at any moment, also after the write and before the      *)
(* return (conn.go 1097-1102): ctx.Err() never hides a message that went.  *)
CtxHonest == \A p \in Procs : pc[p] = "idle" /\ calls[p] > 0 => (err[p] = "nil" <=> sent[p])

(* "The connection remains usable after a context cancellation: subsequent *)
(* writes re-apply the per-frame deadline normally" (conn.go 1082-1084):   *)
(* when nobody has set a deadline, no write error is ever latched.         *)
UsableAfterCancel == CtxDeadlines = {"none"} => writeErr = "nil"

(* WriteMessageContext "aborts if ctx is cancelled or its deadline passes  *)
(* before the write completes" (conn.go 1081-1082).                        *)
CancelEndsCall ==
    \A p \in Procs : (pc[p] # "idle" /\ dog[p] # "none" /\ ctx[p].done) ~> dog[p] = "none"
=============================================================================
