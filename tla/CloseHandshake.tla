---------------------------- MODULE CloseHandshake ----------------------------
(***************************************************************************)
(* Two magilla.Conns joined by a TCP connection, and how they end          *)
(* (conn.go): each side has a goroutine that reads until it gets an error, *)
(* answers pings and close frames through the default handlers, and may    *)
(* turn to CloseGracefully; and a goroutine that writes messages without a *)
(* deadline.  The pipes are finite, so a write blocks when the peer does   *)
(* not read.                                                               *)
(*                                                                         *)
(* The steps of a write under mu, which ConnWrite has one by one, are two  *)
(* here: taking mu, and the write with the release.                        *)
(***************************************************************************)
EXTENDS Naturals, Sequences, FiniteSets

CONSTANTS PipeSize,  \* frames that fit in a TCP pipe
          MaxSend    \* bound: frames each writing goroutine sends

Sides    == {"a", "b"}
Other(s) == IF s = "a" THEN "b" ELSE "a"
Frames   == {"data", "ping", "pong", "close"}

ASSUME SizeAssumption == PipeSize \in Nat \ {0} /\ MaxSend \in Nat

VARIABLES
    reads,     \* does the application of a side read at all?
    dl,        \* the deadline it passes to CloseGracefully: "zero" or "set"
    pipe,      \* frames on their way from a side to the other
    tcp,       \* "open", or "closed" by this side's Conn.Close
    writeErr,  \* c.writeErr
    readErr,   \* c.readErr: "nil", "closeError" (a *CloseError) or "failed"
    mu,        \* is the inner mutex free?
    pc,        \* reading goroutine: "read", "wantMu", "write", "teardown", "done"
    reason,    \* what it writes a control frame for: "ping", "echo", "graceful"
    graceful,  \* is it in CloseGracefully?
    result,    \* firstErr of CloseGracefully
    wpc,       \* writing goroutine: "idle" or "write"
    sent,      \* frames it has sent
    expired    \* has any deadline fired?

vars == <<reads, dl, pipe, tcp, writeErr, readErr, mu, pc, reason, graceful, result, wpc,
          sent, expired>>

Init ==
    /\ reads \in [Sides -> BOOLEAN] /\ dl \in [Sides -> {"zero", "set"}]
    /\ pipe = [s \in Sides |-> <<>>]
    /\ tcp = [s \in Sides |-> "open"]
    /\ writeErr = [s \in Sides |-> "nil"] /\ readErr = [s \in Sides |-> "nil"]
    /\ mu = [s \in Sides |-> TRUE]
    /\ pc = [s \in Sides |-> "read"] /\ reason = [s \in Sides |-> "none"]
    /\ graceful = [s \in Sides |-> FALSE] /\ result = [s \in Sides |-> "nil"]
    /\ wpc = [s \in Sides |-> "idle"] /\ sent = [s \in Sides |-> 0]
    /\ expired = FALSE

Goto(s, l) == pc' = [pc EXCEPT ![s] = l]

(* A write on this side fails: the net.Conn is closed, here or there.      *)
CanFail(s) == tcp[s] = "closed" \/ tcp[Other(s)] = "closed"

Put(s, f) ==
    /\ tcp[s] = "open" /\ Len(pipe[s]) < PipeSize
    /\ pipe' = [pipe EXCEPT ![s] = Append(@, f)]

Fatal(s) == writeErr' = [writeErr EXCEPT ![s] = IF @ = "nil" THEN "failed" ELSE @]
-----------------------------------------------------------------------------
(* The writing goroutine: WriteMessage until it gets an error.             *)
StartWrite(s) ==
    /\ wpc[s] = "idle" /\ sent[s] < MaxSend
    /\ mu[s] /\ writeErr[s] = "nil"
    /\ mu' = [mu EXCEPT ![s] = FALSE]
    /\ wpc' = [wpc EXCEPT ![s] = "write"]
    /\ UNCHANGED <<reads, dl, pipe, tcp, writeErr, readErr, pc, reason, graceful, result,
                   sent, expired>>

Write(s) ==
    /\ wpc[s] = "write"
    /\ \/ \E f \in {"data", "ping"} : Put(s, f) /\ UNCHANGED writeErr
       \/ CanFail(s) /\ Fatal(s) /\ UNCHANGED pipe
    /\ sent' = [sent EXCEPT ![s] = @ + 1]
    /\ mu' = [mu EXCEPT ![s] = TRUE]
    /\ wpc' = [wpc EXCEPT ![s] = "idle"]
    /\ UNCHANGED <<reads, dl, tcp, readErr, pc, reason, graceful, result, expired>>
-----------------------------------------------------------------------------
(* The reading goroutine.  CloseGracefully may only be called by it, or    *)
(* after it has stopped.                                                   *)
CloseGracefully(s) ==
    /\ pc[s] = "read" /\ ~graceful[s]
    /\ graceful' = [graceful EXCEPT ![s] = TRUE]
    /\ reason' = [reason EXCEPT ![s] = "graceful"]
    /\ Goto(s, "wantMu")
    /\ UNCHANGED <<reads, dl, pipe, tcp, writeErr, readErr, mu, result, wpc, sent, expired>>

Reading(s) == pc[s] = "read" /\ (reads[s] \/ graceful[s])

(* NextReader takes a frame.  A message is read, or discarded by the drain *)
(* of CloseGracefully; a ping or close goes to its default handler.        *)
NextFrame(s) ==
    /\ Reading(s)
    /\ tcp[s] = "open" /\ pipe[Other(s)] # <<>>
    /\ pipe' = [pipe EXCEPT ![Other(s)] = Tail(@)]
    /\ CASE Head(pipe[Other(s)]) = "ping" ->
               Goto(s, "wantMu") /\ reason' = [reason EXCEPT ![s] = "ping"]
         [] Head(pipe[Other(s)]) = "close" ->
               Goto(s, "wantMu") /\ reason' = [reason EXCEPT ![s] = "echo"]
         [] OTHER -> UNCHANGED <<pc, reason>>
    /\ UNCHANGED <<reads, dl, tcp, writeErr, readErr, mu, graceful, result, wpc, sent, expired>>

NextFails(s) ==
    /\ Reading(s)
    /\ \/ tcp[s] = "closed" /\ UNCHANGED expired
       \/ pipe[Other(s)] = <<>> /\ tcp[Other(s)] = "closed" /\ UNCHANGED expired
    /\ readErr' = [readErr EXCEPT ![s] = "failed"]
    /\ Goto(s, "teardown")
    /\ UNCHANGED <<reads, dl, pipe, tcp, writeErr, mu, reason, graceful, result, wpc, sent>>

(* Faulty: the drain goes on after its deadline.                           *)
ReadExpiresGoesOn(s) ==
    /\ Reading(s) /\ graceful[s] /\ dl[s] = "set"
    /\ expired' = TRUE
    /\ UNCHANGED <<reads, dl, pipe, tcp, writeErr, readErr, mu, pc, reason, graceful, result,
                   wpc, sent>>

(* The read deadline of CloseGracefully: it ends the drain, and is not an  *)
(* error for NextReader to keep.                                           *)
ReadExpires(s) ==
    /\ Reading(s) /\ graceful[s] /\ dl[s] = "set"
    /\ expired' = TRUE
    /\ Goto(s, "teardown")
    /\ UNCHANGED <<reads, dl, pipe, tcp, writeErr, readErr, mu, reason, graceful, result, wpc,
                   sent>>

(* Faulty: CloseGracefully closes the net.Conn without draining it.        *)
AfterControlNoDrain(s, e) ==
    /\ result' = [result EXCEPT ![s] = IF reason[s] = "graceful" /\ @ = "nil" THEN e ELSE @]
    /\ reason' = [reason EXCEPT ![s] = "none"]
    /\ readErr' = [readErr EXCEPT ![s] = IF reason[s] = "echo" THEN "closeError" ELSE @]
    /\ Goto(s, IF reason[s] = "ping" THEN "read" ELSE "teardown")

(* What follows a call of WriteControl: the handlers ignore its error, and *)
(* CloseGracefully keeps it unless it is ErrCloseSent.                     *)
AfterControl(s, e) ==
    /\ result' = [result EXCEPT ![s] = IF reason[s] = "graceful" /\ @ = "nil" THEN e ELSE @]
    /\ reason' = [reason EXCEPT ![s] = "none"]
    /\ IF reason[s] = "echo"
       THEN Goto(s, "teardown") /\ readErr' = [readErr EXCEPT ![s] = "closeError"]
       ELSE Goto(s, "read") /\ UNCHANGED readErr

TakeMu(s) ==
    /\ pc[s] = "wantMu" /\ mu[s]
    /\ IF writeErr[s] = "nil"
       THEN /\ mu' = [mu EXCEPT ![s] = FALSE]
            /\ Goto(s, "write")
            /\ UNCHANGED <<readErr, reason, result>>
       ELSE /\ AfterControl(s, IF writeErr[s] = "closeSent" THEN "nil" ELSE "failed")
            /\ UNCHANGED mu
    /\ UNCHANGED <<reads, dl, pipe, tcp, writeErr, graceful, wpc, sent, expired>>

HasDeadline(s) ==     \* the handlers use writeWait
    reason[s] # "graceful" \/ dl[s] = "set"

(* The deadline passes while it waits for mu, or had passed at the call.   *)
MuExpires(s) ==
    /\ pc[s] = "wantMu" /\ HasDeadline(s)
    /\ expired' = TRUE
    /\ AfterControl(s, "timeout")
    /\ UNCHANGED <<reads, dl, pipe, tcp, writeErr, mu, graceful, wpc, sent>>

(* Faulty: a close frame does not stop later writes.                       *)
WriteControlNoLatch(s) ==
    /\ pc[s] = "write"
    /\ Put(s, IF reason[s] = "ping" THEN "pong" ELSE "close")
    /\ mu' = [mu EXCEPT ![s] = TRUE]
    /\ AfterControl(s, "nil")
    /\ UNCHANGED <<reads, dl, tcp, writeErr, graceful, wpc, sent, expired>>

WriteControl(s) ==
    /\ pc[s] = "write"
    /\ Put(s, IF reason[s] = "ping" THEN "pong" ELSE "close")
    /\ writeErr' = [writeErr EXCEPT ![s] = IF reason[s] = "ping" THEN @ ELSE "closeSent"]
    /\ mu' = [mu EXCEPT ![s] = TRUE]
    /\ AfterControl(s, "nil")
    /\ UNCHANGED <<reads, dl, tcp, graceful, wpc, sent, expired>>

ControlFails(s) ==
    /\ pc[s] = "write"
    /\ \/ CanFail(s) /\ UNCHANGED expired
       \/ HasDeadline(s) /\ expired' = TRUE
    /\ Fatal(s)
    /\ mu' = [mu EXCEPT ![s] = TRUE]
    /\ AfterControl(s, "failed")
    /\ UNCHANGED <<reads, dl, pipe, tcp, graceful, wpc, sent>>

(* Conn.Close.  When unread bytes are left, TCP resets the connection, and *)
(* what this side sent may be lost on the way.                             *)
Teardown(s) ==
    /\ pc[s] = "teardown"
    /\ tcp' = [tcp EXCEPT ![s] = "closed"]
    /\ \/ UNCHANGED pipe
       \/ pipe[Other(s)] # <<>> /\ pipe' = [pipe EXCEPT ![s] = <<>>]
    /\ Goto(s, "done")
    /\ UNCHANGED <<reads, dl, writeErr, readErr, mu, reason, graceful, result, wpc, sent,
                   expired>>

Step(s) ==
    \/ NextFrame(s) \/ NextFails(s) \/ ReadExpires(s)
    \/ TakeMu(s) \/ MuExpires(s) \/ WriteControl(s) \/ ControlFails(s) \/ Teardown(s)

Next == \E s \in Sides : StartWrite(s) \/ Write(s) \/ CloseGracefully(s) \/ Step(s)

(* Goroutines are scheduled, TCP delivers, and the reader of a Go channel  *)
(* that waits is served before a later one.                                *)
Fairness == \A s \in Sides : WF_vars(Step(s)) /\ WF_vars(Write(s)) /\ SF_vars(TakeMu(s))

Spec == Init /\ [][Next]_vars /\ Fairness
-----------------------------------------------------------------------------
(* A close frame is the last frame of its side, and there is only one,     *)
(* although the echo, CloseGracefully and the writers of both sides race   *)
(* for it (conn.go 649-658, 1684-1688).                                    *)
CloseIsLast ==
    \A s \in Sides : \A i \in DOMAIN pipe[s] :
        pipe[s][i] = "close" => i = Len(pipe[s]) /\ writeErr[s] = "closeSent"

(* Once both sides have ended, with no deadline fired on the way, both     *)
(* have received the other's close frame: the drain is what keeps a reset  *)
(* from destroying it (conn.go 431-441).  And whatever fired,              *)
(* CloseGracefully returns nil only after a close frame has gone out.      *)
CleanClose ==
    /\ ((\A s \in Sides : pc[s] = "done") /\ ~expired) => \A s \in Sides : readErr[s] = "closeError"
    /\ \A s \in Sides : (pc[s] = "done" /\ graceful[s] /\ result[s] = "nil")
           => writeErr[s] = "closeSent"

(* CloseGracefully with a deadline returns (conn.go 400-405).  With a zero *)
(* deadline it returns as long as the peer goes on reading and no write    *)
(* times out.  (A write that timed out leaves no way to send the close     *)
(* frame, and two sides that both have a zero deadline can wait for each   *)
(* other, each with a full pipe.)                                          *)
GracefulReturns ==
    /\ \A s \in Sides : (graceful[s] /\ dl[s] = "set") ~> pc[s] = "done"
    /\ []~expired => \A s \in Sides :
           (graceful[s] /\ reads[Other(s)] /\ dl[Other(s)] = "set") ~> pc[s] = "done"
=============================================================================
