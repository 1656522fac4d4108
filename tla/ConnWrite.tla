------------------------------ MODULE ConnWrite ------------------------------
(***************************************************************************)
(* The write half of magilla.Conn (conn.go): goroutines that call          *)
(* NextWriter, WriteMessage, WritePreparedMessage and WriteControl on one  *)
(* connection.  Two channel mutexes protect it: the outer writeMu is held  *)
(* for a whole message, the inner mu only around the write of one frame,   *)
(* so that WriteControl can slip a control frame between two fragments.    *)
(* Every step that another goroutine can observe is an action of its own.  *)
(*                                                                         *)
(* Payloads are abstracted away: a flush of the write buffer is one frame, *)
(* identified by the goroutine and the number of its call.                 *)
(***************************************************************************)
EXTENDS Naturals, Sequences

CONSTANTS Procs,      \* the goroutines using the connection
          None,       \* nil
          MaxOps,     \* bound: calls each goroutine makes
          MaxFrames,  \* bound: frames on the wire before writers stop flushing
          Deadlines,  \* the deadlines the application sets
          AppTypes,   \* the message types it passes
          UsePool     \* whether Upgrader/Dialer.WriteBufferPool is set

Deadline     == {"none", "future", "past"} \* zero, not yet and already passed
ControlTypes == {"ping", "close"}          \* isControl; "ping" is pong as well
Types        == {"data", "bad"} \cup ControlTypes

ASSUME NoneAssumption     == None \notin Procs /\ None \notin Procs \X (0..MaxOps)
ASSUME BoundsAssumption   == MaxOps \in Nat /\ MaxFrames \in Nat
ASSUME DeadlineAssumption == Deadlines \subseteq Deadline
ASSUME TypesAssumption    == AppTypes \subseteq Types
ASSUME PoolAssumption     == UsePool \in BOOLEAN

VARIABLES
    writeMu,   \* is the token in channel c.writeMu (outer mutex free)?
    mu,        \* is the token in channel c.mu (inner mutex free)?
    writeErr,  \* c.writeErr: "nil", "closeSent" or "failed"
    deadline,  \* c.writeDeadline
    writer,    \* c.writer: the goroutine whose message writer it is, or None
    writeBuf,  \* does the connection hold a write buffer (c.writeBuf # nil)?
    net,       \* the net.Conn: "up", or "down" when Close or a failure ended it
    wire,      \* the frames handed to the net.Conn in full
    pc,        \* what each goroutine does next
    ops,       \* calls it has made
    call,      \* the call it is in: the method (kind), the message type, the
               \* deadline (dl) its wait obeys or, under mu, it has installed on
               \* the net.Conn, and the "final" argument of its flushFrame (fin)
    mw,        \* its messageWriter: "none", "live" (err = nil) or "ended"
    cont,      \* has its writer's frameType become continuationFrame?
    res        \* error the current call will return

sharedVars == <<writeMu, mu, writeErr, deadline, writer, writeBuf, net, wire>>
localVars  == <<pc, ops, call, mw, cont, res>>
vars       == <<sharedVars, localVars>>

MessageKinds == {"writer", "message"}      \* the calls that use a messageWriter
Kinds        == MessageKinds \cup {"prepared", "control"}
Calls        == [kind : Kinds, type : Types, dl : Deadline, fin : BOOLEAN]
NoCall       == [kind |-> "control", type |-> "ping", dl |-> "none", fin |-> TRUE]
Results      == {"ok", "closeSent", "failed", "timeout", "badOpCode",
                 "invalidControl", "rejected", "ended"}
InMuPCs      == {"check", "net", "latch", "unlock"}
PCs          == {"idle", "acquire", "begin", "open", "wantMu", "end", "release"}
                    \cup InMuPCs

Msgs     == Procs \X (0..MaxOps)
MsgId(p) == <<p, ops[p]>>
Frames   == [msg : Msgs, op : Types \cup {"cont"}, fin : BOOLEAN]

TypeOK ==
    /\ writeMu \in BOOLEAN /\ mu \in BOOLEAN
    /\ writeErr \in {"nil", "closeSent", "failed"}
    /\ deadline \in Deadline
    /\ writer \in Procs \cup {None}
    /\ writeBuf \in BOOLEAN
    /\ net \in {"up", "down"}
    /\ wire \in Seq(Frames)
    /\ pc \in [Procs -> PCs]
    /\ ops \in [Procs -> 0..MaxOps]
    /\ call \in [Procs -> Calls]
    /\ mw \in [Procs -> {"none", "live", "ended"}]
    /\ cont \in [Procs -> BOOLEAN]
    /\ res \in [Procs -> Results]

(* newConn: both tokens are in their channels, no deadline, no error; the  *)
(* buffer is allocated at once unless a pool provides it.                  *)
Init ==
    /\ writeMu = TRUE /\ mu = TRUE
    /\ writeErr = "nil"
    /\ deadline = "none"
    /\ writer = None
    /\ writeBuf = ~UsePool
    /\ net = "up"
    /\ wire = <<>>
    /\ pc   = [p \in Procs |-> "idle"]
    /\ ops  = [p \in Procs |-> 0]
    /\ call = [p \in Procs |-> NoCall]
    /\ mw   = [p \in Procs |-> "none"]
    /\ cont = [p \in Procs |-> FALSE]
    /\ res  = [p \in Procs |-> "ok"]

Goto(p, l)   == pc' = [pc EXCEPT ![p] = l]
Done(p)      == Goto(p, "idle") /\ call' = [call EXCEPT ![p] = NoCall]
Return(p, r) == Done(p) /\ res' = [res EXCEPT ![p] = r]
-----------------------------------------------------------------------------
(* Entering a call.  A wait for a lock whose deadline has already passed   *)
(* returns errWriteTimeout at once.                                        *)
Enter(p, k, t, d, first) ==
    /\ pc[p] = "idle"
    /\ ops[p] < MaxOps
    /\ ops' = [ops EXCEPT ![p] = @ + 1]
    /\ IF d = "past"
       THEN Return(p, "timeout")
       ELSE /\ call' = [call EXCEPT ![p] = [kind |-> k, type |-> t, dl |-> d, fin |-> TRUE]]
            /\ Goto(p, first)
            /\ UNCHANGED res
    /\ UNCHANGED <<sharedVars, mw, cont>>

(* The checks on the arguments that every call makes before any lock: type *)
(* and size in WriteControl, UTF-8 in WriteMessage, context takeover in    *)
(* WritePreparedMessage.                                                   *)
Reject(p) ==
    /\ pc[p] = "idle"
    /\ ops[p] < MaxOps
    /\ ops' = [ops EXCEPT ![p] = @ + 1]
    /\ Return(p, "rejected")
    /\ UNCHANGED <<sharedVars, mw, cont>>

StartMessage(p) ==
    \E k \in MessageKinds, t \in AppTypes : Enter(p, k, t, deadline, "acquire")

StartPrepared(p) ==
    \E t \in AppTypes \ {"bad"} : Enter(p, "prepared", t, deadline, "acquire")

(* Faulty: WriteControl queues for the outer mutex like a message.         *)
StartControlQueued(p) ==
    \E t \in AppTypes \cap ControlTypes, d \in Deadlines :
        Enter(p, "control", t, d, "acquire")

StartControl(p) ==
    \E t \in AppTypes \cap ControlTypes, d \in Deadlines : Enter(p, "control", t, d, "wantMu")

(* acquireWriteMu: receive the token, or time out.                         *)
AcquireWriteMu(p) ==
    /\ pc[p] = "acquire"
    /\ writeMu
    /\ writeMu' = FALSE
    /\ Goto(p, IF call[p].kind = "prepared" THEN "wantMu" ELSE "begin")
    /\ UNCHANGED <<mu, writeErr, deadline, writer, writeBuf, net, wire,
                   ops, call, mw, cont, res>>

(* Faulty: the timer branch of the select returns nil.                     *)
AcquireTimeoutIgnored(p) ==
    /\ pc[p] = "acquire"
    /\ call[p].dl = "past"
    /\ Goto(p, "begin")
    /\ UNCHANGED <<sharedVars, ops, call, mw, cont, res>>

AcquireTimeout(p) ==
    /\ pc[p] = "acquire"
    /\ call[p].dl = "past"
    /\ Return(p, "timeout")
    /\ UNCHANGED <<sharedVars, ops, mw, cont>>

(* beginMessage fails: the caller releases writeMu.  Sending the token     *)
(* blocks while the channel already holds one.                             *)
BeginFails(p) ==
    /\ pc[p] = "begin"
    /\ call[p].type = "bad" \/ writeErr # "nil"
    /\ ~writeMu
    /\ writeMu' = TRUE
    /\ Return(p, IF call[p].type = "bad" THEN "badOpCode" ELSE writeErr)
    /\ UNCHANGED <<mu, writeErr, deadline, writer, writeBuf, net, wire,
                   ops, mw, cont>>

(* beginMessage succeeds: a fresh messageWriter and, with a pool, a buffer *)
(* from it.  NextWriter also publishes the writer in c.writer.  The branch *)
(* that closes a previous c.writer is dead code: see BufferOwned.          *)
Begin(p) ==
    /\ pc[p] = "begin"
    /\ call[p].type # "bad" /\ writeErr = "nil"
    /\ mw' = [mw EXCEPT ![p] = "live"]
    /\ cont' = [cont EXCEPT ![p] = FALSE]
    /\ writeBuf' = TRUE
    /\ writer' = IF call[p].kind = "writer" THEN p ELSE None
    /\ Goto(p, "open")
    /\ UNCHANGED <<writeMu, mu, writeErr, deadline, net, wire,
                   ops, call, res>>

(* messageWriter.flushFrame up to the call of c.write: a control message   *)
(* must be one frame of at most 125 bytes.                                 *)
FlushFrame(p, final, tooLong) ==
    /\ pc[p] = "open"
    /\ IF call[p].type \in ControlTypes /\ (~final \/ tooLong)
       THEN /\ Goto(p, "end")
            /\ res' = [res EXCEPT ![p] = "invalidControl"]
            /\ UNCHANGED call
       ELSE /\ Goto(p, "wantMu")
            /\ call' = [call EXCEPT ![p].dl = deadline, ![p].fin = final]
            /\ UNCHANGED res
    /\ UNCHANGED <<sharedVars, ops, mw, cont>>

(* Write or ReadFrom on the writer fills the buffer.                       *)
WriteMore(p) ==
    /\ call[p].kind = "writer"
    /\ Len(wire) < MaxFrames
    /\ FlushFrame(p, FALSE, FALSE)

(* Close on the writer, or the single flush of WriteMessage.               *)
CloseWriter(p) == \E tooLong \in BOOLEAN : FlushFrame(p, TRUE, tooLong)

(* Write or Close on a writer that has ended returns its error: the guard  *)
(* on w.err.                                                               *)
UseEndedWriter(p) ==
    /\ pc[p] = "idle"
    /\ mw[p] = "ended"
    /\ Return(p, "ended")
    /\ UNCHANGED <<sharedVars, ops, mw, cont>>
-----------------------------------------------------------------------------
(* c.write and the second half of WriteControl: one frame under mu.  Only  *)
(* WriteControl gives up waiting for mu at its deadline.                   *)
TakeMu(p) ==
    /\ pc[p] = "wantMu"
    /\ mu
    /\ mu' = FALSE
    /\ Goto(p, "check")
    /\ UNCHANGED <<writeMu, writeErr, deadline, writer, writeBuf, net, wire,
                   ops, call, mw, cont, res>>

(* Faulty: a message writer gives up in the middle of its message.         *)
TakeMuTimeoutAny(p) ==
    /\ pc[p] = "wantMu"
    /\ call[p].dl = "past"
    /\ Return(p, "timeout")
    /\ UNCHANGED <<sharedVars, ops, mw, cont>>

TakeMuTimeout(p) ==
    /\ pc[p] = "wantMu"
    /\ call[p].kind = "control"
    /\ call[p].dl = "past"
    /\ Return(p, "timeout")
    /\ UNCHANGED <<sharedVars, ops, mw, cont>>

(* Faulty: c.writeErr is not looked at before the write.                   *)
CheckErrSkipped(p) ==
    /\ pc[p] = "check"
    /\ Goto(p, "net")
    /\ UNCHANGED <<sharedVars, ops, call, mw, cont, res>>

(* Faulty: the early returns, on a latched error or when the deadline      *)
(* cannot be installed, keep mu.                                           *)
CheckErrKeepsMu(p) ==
    /\ pc[p] = "check"
    /\ \/ writeErr # "nil" /\ Return(p, writeErr)
       \/ writeErr = "nil" /\ net = "down" /\ Return(p, "failed")
       \/ writeErr = "nil" /\ Goto(p, "net") /\ UNCHANGED <<call, res>>
    /\ UNCHANGED <<sharedVars, ops, mw, cont>>

(* A latched error ends the call; otherwise the deadline is installed on   *)
(* the net.Conn, which fails when that has been closed.  Only the holder   *)
(* of mu installs one, so from here on it is its dl.                       *)
CheckErr(p) ==
    /\ pc[p] = "check"
    /\ \/ /\ writeErr # "nil"
          /\ Goto(p, "unlock")
          /\ res' = [res EXCEPT ![p] = writeErr]
       \/ /\ writeErr = "nil" /\ net = "down"
          /\ Goto(p, "latch")
          /\ res' = [res EXCEPT ![p] = "failed"]
       \/ /\ writeErr = "nil"
          /\ Goto(p, "net")
          /\ UNCHANGED res
    /\ UNCHANGED <<writeMu, mu, writeErr, deadline, writer, writeBuf, net, wire,
                   ops, call, mw, cont>>

(* Faulty: mu is released before a close frame is recorded in writeErr.    *)
NetWriteForgetsClose(p) ==
    /\ pc[p] = "net"
    /\ net = "up" /\ call[p].dl # "past"
    /\ wire' = Append(wire, [msg |-> MsgId(p),
                             op  |-> IF cont[p] THEN "cont" ELSE call[p].type,
                             fin |-> call[p].fin])
    /\ cont' = [cont EXCEPT ![p] = ~call[p].fin]
    /\ res' = [res EXCEPT ![p] = "ok"]
    /\ Goto(p, "unlock")
    /\ UNCHANGED <<writeMu, mu, writeErr, deadline, writer, writeBuf, net, ops, call, mw>>

(* conn.Write takes the whole frame.  It blocks as long as the peer does   *)
(* not read.  The writer's frameType, which only p reads, changes with it. *)
NetWrite(p) ==
    /\ pc[p] = "net"
    /\ net = "up" /\ call[p].dl # "past"
    /\ wire' = Append(wire, [msg |-> MsgId(p),
                             op  |-> IF cont[p] THEN "cont" ELSE call[p].type,
                             fin |-> call[p].fin])
    /\ cont' = [cont EXCEPT ![p] = ~call[p].fin]
    /\ res' = [res EXCEPT ![p] = "ok"]
    /\ Goto(p, IF call[p].type = "close" THEN "latch" ELSE "unlock")
    /\ UNCHANGED <<writeMu, mu, writeErr, deadline, writer, writeBuf, net,
                   ops, call, mw>>

(* conn.Write fails, perhaps after part of the frame.                      *)
NetWriteFails(p) ==
    /\ pc[p] = "net"
    /\ net # "up" \/ call[p].dl = "past"
    /\ res' = [res EXCEPT ![p] = "failed"]
    /\ Goto(p, "latch")
    /\ UNCHANGED <<sharedVars, ops, call, mw, cont>>

(* Faulty: the result of the write is latched, not ErrCloseSent.           *)
WriteFatalResult(p) ==
    /\ pc[p] = "latch"
    /\ writeErr' = res[p]
    /\ Goto(p, "unlock")
    /\ UNCHANGED <<writeMu, mu, deadline, writer, writeBuf, net, wire,
                   ops, call, mw, cont, res>>

(* writeFatal: the first error stays.  After a close frame the error is    *)
(* ErrCloseSent, and the call itself returns nil.                          *)
WriteFatal(p) ==
    /\ pc[p] = "latch"
    /\ writeErr' = IF writeErr # "nil" THEN writeErr
                   ELSE IF res[p] = "ok" THEN "closeSent" ELSE "failed"
    /\ Goto(p, "unlock")
    /\ UNCHANGED <<writeMu, mu, deadline, writer, writeBuf, net, wire,
                   ops, call, mw, cont, res>>

(* The deferred send on c.mu, then what the caller of c.write does next.   *)
Unlock(p) ==
    /\ pc[p] = "unlock"
    /\ ~mu
    /\ mu' = TRUE
    /\ \/ call[p].kind = "control" /\ Done(p)
       \/ call[p].kind = "prepared" /\ Goto(p, "release") /\ UNCHANGED call
       \/ /\ call[p].kind \in MessageKinds
          /\ Goto(p, IF res[p] = "ok" /\ ~call[p].fin THEN "open" ELSE "end")
          /\ UNCHANGED call
    /\ UNCHANGED <<writeMu, writeErr, deadline, writer, writeBuf, net, wire,
                   ops, mw, cont, res>>

(* Faulty: c.writer keeps pointing to the writer that ended.               *)
EndMessageKeepsWriter(p) ==
    /\ pc[p] = "end"
    /\ ~writeMu
    /\ writeMu' = TRUE
    /\ mw' = [mw EXCEPT ![p] = IF call[p].kind = "writer" THEN "ended" ELSE "none"]
    /\ cont' = [cont EXCEPT ![p] = FALSE]
    /\ writeBuf' = ~UsePool
    /\ Done(p)
    /\ UNCHANGED <<mu, writeErr, deadline, writer, net, wire, ops, res>>

(* messageWriter.endMessage: the writer is spent, the buffer goes back to  *)
(* the pool and the outer mutex is released.                               *)
EndMessage(p) ==
    /\ pc[p] = "end"
    /\ ~writeMu
    /\ writeMu' = TRUE
    /\ mw' = [mw EXCEPT ![p] = IF call[p].kind = "writer" THEN "ended" ELSE "none"]
    /\ cont' = [cont EXCEPT ![p] = FALSE]
    /\ writer' = None
    /\ writeBuf' = ~UsePool
    /\ Done(p)
    /\ UNCHANGED <<mu, writeErr, deadline, net, wire,
                   ops, res>>

(* The deferred releaseWriteMu of WritePreparedMessage.                    *)
ReleasePrepared(p) ==
    /\ pc[p] = "release"
    /\ ~writeMu
    /\ writeMu' = TRUE
    /\ Done(p)
    /\ UNCHANGED <<mu, writeErr, deadline, writer, writeBuf, net, wire,
                   ops, mw, cont, res>>
-----------------------------------------------------------------------------
(* The application and the world.                                          *)
SetWriteDeadline ==
    /\ deadline' \in Deadlines
    /\ UNCHANGED <<writeMu, mu, writeErr, writer, writeBuf, net, wire, localVars>>

(* Close, or a failure of the transport, while writes are in progress.     *)
NetDown ==
    /\ net = "up"
    /\ net' = "down"
    /\ UNCHANGED <<writeMu, mu, writeErr, deadline, writer, writeBuf, wire, localVars>>

(* Time passes a deadline: the stored one, or one that a goroutine obeys   *)
(* in a wait for a lock or in conn.Write.                                  *)
ExpireStored ==
    /\ deadline = "future" /\ deadline' = "past"
    /\ UNCHANGED <<writeMu, mu, writeErr, writer, writeBuf, net, wire, localVars>>

ExpireWait(p) ==
    /\ pc[p] \in {"acquire", "wantMu", "net"}
    /\ call[p].dl = "future"
    /\ call' = [call EXCEPT ![p].dl = "past"]
    /\ UNCHANGED <<sharedVars, pc, ops, mw, cont, res>>

CodeStep(p) ==      \* what the code does on its own once it has been called
    \/ AcquireWriteMu(p) \/ AcquireTimeout(p) \/ BeginFails(p) \/ Begin(p)
    \/ TakeMu(p) \/ TakeMuTimeout(p) \/ CheckErr(p)
    \/ NetWriteFails(p) \/ WriteFatal(p) \/ Unlock(p)
    \/ EndMessage(p) \/ ReleasePrepared(p)

AppStep(p) ==       \* what the application decides
    \/ Reject(p) \/ StartMessage(p) \/ StartPrepared(p) \/ StartControl(p)
    \/ WriteMore(p) \/ CloseWriter(p) \/ UseEndedWriter(p)

Next ==
    \/ \E p \in Procs : AppStep(p) \/ CodeStep(p) \/ NetWrite(p) \/ ExpireWait(p)
    \/ SetWriteDeadline \/ NetDown \/ ExpireStored

Spec == Init /\ [][Next]_vars

(* Goroutines are scheduled, the waiters of a Go channel are served in the *)
(* order they came, and time passes.  Nothing is assumed of the peer (a    *)
(* write may block for ever), of the transport or of the application.      *)
Fairness ==
    /\ \A p \in Procs : /\ WF_vars(CodeStep(p)) /\ WF_vars(ExpireWait(p))
                        /\ SF_vars(AcquireWriteMu(p)) /\ SF_vars(TakeMu(p))
                        /\ WF_vars(call[p].kind = "message" /\ CloseWriter(p))

FairSpec == Spec /\ Fairness
-----------------------------------------------------------------------------
HoldsMu(p)      == pc[p] \in InMuPCs
HoldsWriteMu(p) ==
    \/ pc[p] \in {"begin", "open", "end", "release"}
    \/ call[p].kind # "control" /\ pc[p] \in {"wantMu"} \cup InMuPCs

(* Each mutex token is in its channel exactly when no goroutine is inside  *)
(* the section it protects, and no two ever are (conn.go 473-495, 525-527, *)
(* 555-557, 784-801): an early return that forgot the release, or one that *)
(* released twice, would break it.                                         *)
LockTokens ==
    /\ \A p, q \in Procs : (HoldsWriteMu(p) /\ HoldsWriteMu(q)) => p = q
    /\ \A p, q \in Procs : (HoldsMu(p) /\ HoldsMu(q)) => p = q
    /\ writeMu <=> ~ \E p \in Procs : HoldsWriteMu(p)
    /\ mu <=> ~ \E p \in Procs : HoldsMu(p)

(* The connection's write buffer and c.writer belong to the message in     *)
(* progress: beginMessage never finds the writer of a previous message     *)
(* (conn.go 665-668 never runs), the message in progress always has a      *)
(* buffer, and between messages a pooled buffer is back in the pool.       *)
BufferOwned ==
    /\ \A p \in Procs : pc[p] = "begin" => writer = None /\ writeBuf = ~UsePool
    /\ \A p \in Procs : mw[p] = "live" => HoldsWriteMu(p) /\ writeBuf
    /\ writeMu => writer = None /\ writeBuf = ~UsePool

Sent(p) == \E i \in DOMAIN wire : wire[i].msg = MsgId(p) /\ wire[i].fin

(* A call returns nil exactly when its message is on the wire to its last  *)
(* frame, and errWriteTimeout only when none of it is, whatever the other  *)
(* goroutines did meanwhile (conn.go 570-581, 649-659).                    *)
ReturnsHonestly ==
    \A p \in Procs : pc[p] = "idle" /\ ops[p] > 0 /\ res[p] # "ended" =>
        /\ res[p] = "ok" <=> Sent(p)
        /\ res[p] = "timeout" => \A i \in DOMAIN wire : wire[i].msg # MsgId(p)

(* The first write error stays, and no byte follows it (conn.go 536-542,   *)
(* and "all future writes will return an error", conn.go 1149).            *)
WriteErrLatched == [][writeErr # "nil" => writeErr' = writeErr /\ wire' = wire]_vars

(* What goes on the wire is what FrameStream promises the peer.  A write   *)
(* that failed, and a close frame that was sent, count from the moment the *)
(* net.Conn returned, which is before writeFatal records them.             *)
Broken == writeErr = "failed" \/ \E p \in Procs : pc[p] = "latch" /\ res[p] = "failed"
Closed == writeErr = "closeSent" \/ \E p \in Procs : pc[p] = "latch" /\ res[p] = "ok"
OpenMsg == IF ~Broken /\ ~Closed /\ \E p \in Procs : cont[p]
           THEN MsgId(CHOOSE p \in Procs : cont[p]) ELSE None

FS == INSTANCE FrameStream WITH
          Msg <- Msgs, NoMsg <- None, open <- OpenMsg,
          status <- IF Broken THEN "broken" ELSE IF Closed THEN "closed" ELSE "open"

ImplementsFrameStream == FS!Spec
-----------------------------------------------------------------------------
Bounded == \A p \in Procs : pc[p] # "idle" => call[p].dl # "none"

(* WriteControl never waits for a message writer, only for the frame being *)
(* written: as long as the peer keeps reading it returns, deadline or not, *)
(* even if the application never closes the open writer (conn.go 262-265). *)
ControlReturns ==
    (\A p \in Procs : []<>(pc[p] # "net")) =>
        \A p \in Procs : (pc[p] # "idle" /\ call[p].kind = "control") ~> pc[p] = "idle"

(* When every call has a deadline and the application closes its writers,  *)
(* every call returns, although the peer may never read again.             *)
EveryCallReturns ==
    ([]Bounded /\ \A p \in Procs : []<>(pc[p] # "open"))
        => \A p \in Procs : pc[p] # "idle" ~> pc[p] = "idle"

(* "Acquisition respects the current writeDeadline; a slow predecessor     *)
(* does not starve a caller past its own deadline" (conn.go 260-261): a    *)
(* wait for a lock ends once the waiter's deadline has passed.             *)
Waiting(p) == pc[p] \in {"acquire", "wantMu"}

DeadlineRespected == \A p \in Procs : (Waiting(p) /\ call[p].dl = "past") ~> ~Waiting(p)
=============================================================================
