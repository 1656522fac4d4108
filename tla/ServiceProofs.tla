----------------------------- MODULE ServiceProofs -----------------------------
(***************************************************************************)
(* What is proved of the two parts that stand beside the connection: the   *)
(* stream over HTTP/2 and the chat example.                                *)
(***************************************************************************)
EXTENDS H2, ChatHub, SequenceTheorems, TLAPS

-----------------------------------------------------------------------------
(* The stream over HTTP/2, for any number of deadlines: a timer belongs to *)
(* the deadline that is set, errors tell what ended the stream, and a dial *)
(* that fails leaves nothing behind.                                       *)
H2Types ==
    /\ current \in [Dirs -> {"none", "running", "expired"}]
    /\ running \in [Dirs -> Nat]
    /\ firing \in [{"flag", "close"} -> Nat]
    /\ io \in [Dirs -> {"idle", "blocked", "failed"}]
    /\ result \in [Dirs -> {"ok", "deadline", "error"}]

(* What the dial has opened so far; only a stream has timers, I/O and Close*)
Opened ==
    /\ dial = "start" => pipe = "none" /\ body = "none"
    /\ dial \in {"headers", "roundTrip"} => pipe = "open" /\ body = "none"
    /\ dial = "answered" => /\ pipe = "open"
                            /\ answer = "ok" => body = "open"
                            /\ answer # "ok" => body \in {"none", "open"}
    /\ dial \in {"failed", "h1"} => pipe # "open" /\ body # "open" /\ (pipe = "closed" => cancelled)
    /\ dial # "stream" => /\ \A d \in Dirs : running[d] = 0 /\ io[d] = "idle"
                          /\ firing["flag"] = 0 /\ firing["close"] = 0 /\ closing = "no"

(* A stream that has ended has been ended by the peer, by Close or by a    *)
(* deadline, which has said so before.                                     *)
Ended ==
    /\ exceeded => passed
    /\ firing["flag"] > 0 => passed
    /\ firing["close"] > 0 => exceeded
    /\ dial = "stream" /\ (pipe # "open" \/ body # "open") => closing = "done" \/ exceeded
    /\ \A d \in Dirs : /\ io[d] = "failed" => reset \/ closing = "done" \/ exceeded
                       /\ result[d] = "deadline" => passed
                       /\ result[d] = "error" => reset \/ closing = "done"

H2Inv == H2Types /\ Opened /\ Ended /\ NoStrayTimer

LEMMA H2Initial == Init => H2Inv
<1> SUFFICES ASSUME Init PROVE H2Inv
  OBVIOUS
<1>1. H2Types
  BY DEF Init, H2Types
<1>2. Opened
  BY DEF Init, Dialing, Upgraded, Opened
<1>3. Ended
  BY DEF Init, Dialing, Upgraded, Ended
<1>4. NoStrayTimer
  BY DEF Init, NoStrayTimer
<1> QED BY <1>1, <1>2, <1>3, <1>4 DEF H2Inv

LEMMA StartKeeps ==
    ASSUME H2Inv, Start
    PROVE  H2Inv'
<1>1. H2Types'
  BY DEF H2Inv, H2Types, Start, ConnVars, timerVars
<1>2. Opened'
  BY DEF H2Inv, Opened, Start, Fail, ConnVars, timerVars
<1>3. Ended'
  BY DEF H2Inv, Ended, Start, Fail, ConnVars, timerVars
<1>4. NoStrayTimer'
  BY DEF H2Inv, NoStrayTimer, Start, ConnVars, timerVars
<1> QED BY <1>1, <1>2, <1>3, <1>4 DEF H2Inv

LEMMA HeadersKeeps ==
    ASSUME H2Inv, Headers
    PROVE  H2Inv'
<1>1. H2Types'
  BY DEF H2Inv, H2Types, Headers, ConnVars, timerVars
<1>2. Opened'
  BY DEF H2Inv, Opened, Headers, Fail, ConnVars, timerVars
<1>3. Ended'
  BY DEF H2Inv, Ended, Headers, Fail, ConnVars, timerVars
<1>4. NoStrayTimer'
  BY DEF H2Inv, NoStrayTimer, Headers, ConnVars, timerVars
<1> QED BY <1>1, <1>2, <1>3, <1>4 DEF H2Inv

LEMMA RoundTripKeeps ==
    ASSUME H2Inv, RoundTrip
    PROVE  H2Inv'
<1>1. H2Types'
  BY DEF H2Inv, H2Types, RoundTrip, ConnVars, timerVars
<1>2. Opened'
  BY DEF H2Inv, Opened, RoundTrip, ConnVars, timerVars
<1>3. Ended'
  BY DEF H2Inv, Ended, RoundTrip, ConnVars, timerVars
<1>4. NoStrayTimer'
  BY DEF H2Inv, NoStrayTimer, RoundTrip, ConnVars, timerVars
<1> QED BY <1>1, <1>2, <1>3, <1>4 DEF H2Inv

LEMMA WatchdogKeeps ==
    ASSUME H2Inv, Watchdog
    PROVE  H2Inv'
<1>1. H2Types'
  BY DEF H2Inv, H2Types, Watchdog, ConnVars, timerVars
<1>2. Opened'
  BY DEF H2Inv, Opened, Watchdog, ConnVars, timerVars
<1>3. Ended'
  BY DEF H2Inv, Ended, Watchdog, ConnVars, timerVars
<1>4. NoStrayTimer'
  BY DEF H2Inv, NoStrayTimer, Watchdog, ConnVars, timerVars
<1> QED BY <1>1, <1>2, <1>3, <1>4 DEF H2Inv

LEMMA AnswerKeeps ==
    ASSUME H2Inv, Answer
    PROVE  H2Inv'
<1>1. H2Types'
  BY DEF H2Inv, H2Types, Answer, ConnVars, timerVars
<1>2. Opened'
  BY DEF H2Inv, Opened, Answer, Fail, ConnVars, timerVars
<1>3. Ended'
  BY DEF H2Inv, Opened, Ended, Answer, Fail, ConnVars, timerVars
<1>4. NoStrayTimer'
  BY DEF H2Inv, NoStrayTimer, Answer, ConnVars, timerVars
<1> QED BY <1>1, <1>2, <1>3, <1>4 DEF H2Inv

LEMMA SetZeroKeeps ==
    ASSUME H2Inv, NEW d \in Dirs, SetZero(d)
    PROVE  H2Inv'
<1>1. H2Types'
  BY DEF H2Inv, H2Types, NoStrayTimer, SetZero, Arm
<1>2. Opened'
  BY DEF Opened, SetZero, CanSet, dialVars
<1>3. Ended'
  BY DEF H2Inv, Ended, SetZero, dialVars, streamVars
<1>4. NoStrayTimer'
  BY DEF H2Inv, H2Types, NoStrayTimer, SetZero, Arm
<1> QED BY <1>1, <1>2, <1>3, <1>4 DEF H2Inv

LEMMA SetFutureKeeps ==
    ASSUME H2Inv, NEW d \in Dirs, SetFuture(d)
    PROVE  H2Inv'
<1>1. H2Types'
  BY DEF H2Inv, H2Types, SetFuture, Arm
<1>2. Opened'
  BY DEF Opened, SetFuture, CanSet, dialVars
<1>3. Ended'
  BY DEF H2Inv, Ended, SetFuture, dialVars, streamVars
<1>4. NoStrayTimer'
  BY DEF H2Inv, H2Types, NoStrayTimer, SetFuture, Arm
<1> QED BY <1>1, <1>2, <1>3, <1>4 DEF H2Inv

LEMMA SetPastKeeps ==
    ASSUME H2Inv, NEW d \in Dirs, SetPast(d)
    PROVE  H2Inv'
<1>1. H2Types'
  BY DEF H2Inv, H2Types, NoStrayTimer, SetPast, Arm
<1>2. Opened'
  BY DEF Opened, SetPast, CanSet, dialVars
<1>3. Ended'
  BY DEF H2Inv, Ended, SetPast
<1>4. NoStrayTimer'
  BY DEF H2Inv, H2Types, NoStrayTimer, SetPast, Arm
<1> QED BY <1>1, <1>2, <1>3, <1>4 DEF H2Inv

LEMMA ExpireKeeps ==
    ASSUME H2Inv, NEW d \in Dirs, Expire(d)
    PROVE  H2Inv'
<1>1. H2Types'
  BY DEF H2Inv, H2Types, Expire
<1>2. Opened'
  BY DEF H2Inv, Opened, Expire, dialVars
<1>3. Ended'
  BY DEF H2Inv, Ended, Expire, dialVars, streamVars
<1>4. NoStrayTimer'
  BY DEF H2Inv, H2Types, NoStrayTimer, Expire
<1> QED BY <1>1, <1>2, <1>3, <1>4 DEF H2Inv

LEMMA FireFlagKeeps ==
    ASSUME H2Inv, FireFlag
    PROVE  H2Inv'
<1>1. H2Types'
  BY DEF H2Inv, H2Types, FireFlag
<1>2. Opened'
  BY DEF H2Inv, Opened, FireFlag, dialVars
<1>3. Ended'
  BY DEF H2Inv, Ended, FireFlag, streamVars
<1>4. NoStrayTimer'
  BY DEF H2Inv, NoStrayTimer, FireFlag
<1> QED BY <1>1, <1>2, <1>3, <1>4 DEF H2Inv

LEMMA FireCloseKeeps ==
    ASSUME H2Inv, FireClose
    PROVE  H2Inv'
<1>1. H2Types'
  BY DEF H2Inv, H2Types, FireClose
<1>2. Opened'
  BY DEF H2Inv, Opened, FireClose, RunCloser, dialVars
<1>3. Ended'
  BY DEF H2Inv, Ended, FireClose
<1>4. NoStrayTimer'
  BY DEF H2Inv, NoStrayTimer, FireClose
<1> QED BY <1>1, <1>2, <1>3, <1>4 DEF H2Inv

LEMMA ResetKeeps ==
    ASSUME H2Inv, Reset
    PROVE  H2Inv'
<1>1. H2Types'
  BY DEF H2Inv, H2Types, Reset, ConnVars, timerVars
<1>2. Opened'
  BY DEF Opened, Reset, dialVars
<1>3. Ended'
  BY DEF H2Inv, Ended, Reset, ConnVars, timerVars
<1>4. NoStrayTimer'
  BY DEF H2Inv, NoStrayTimer, Reset, ConnVars, timerVars
<1> QED BY <1>1, <1>2, <1>3, <1>4 DEF H2Inv

LEMMA CallKeeps ==
    ASSUME H2Inv, NEW d \in Dirs, Call(d)
    PROVE  H2Inv'
<1>1. H2Types'
  BY DEF H2Inv, H2Types, Call, Goto, timerVars
<1>2. Opened'
  BY DEF Opened, Call, dialVars
<1>3. Ended'
  BY DEF H2Inv, Ended, Call, Goto, streamVars, timerVars
<1>4. NoStrayTimer'
  BY DEF H2Inv, NoStrayTimer, Call, timerVars
<1> QED BY <1>1, <1>2, <1>3, <1>4 DEF H2Inv

LEMMA SucceedKeeps ==
    ASSUME H2Inv, NEW d \in Dirs, Succeed(d)
    PROVE  H2Inv'
<1>1. H2Types'
  BY DEF H2Inv, H2Types, Succeed, Goto, timerVars
<1>2. Opened'
  BY DEF H2Inv, Opened, Succeed, dialVars
<1>3. Ended'
  BY DEF H2Inv, Ended, Succeed, Goto, dialVars, streamVars, timerVars
<1>4. NoStrayTimer'
  BY DEF H2Inv, NoStrayTimer, Succeed, timerVars
<1> QED BY <1>1, <1>2, <1>3, <1>4 DEF H2Inv

LEMMA BreakKeeps ==
    ASSUME H2Inv, NEW d \in Dirs, Break(d)
    PROVE  H2Inv'
<1>1. H2Types'
  BY DEF H2Inv, H2Types, Break, Goto, timerVars
<1>2. Opened'
  BY DEF H2Inv, Opened, Break, dialVars
<1>3. Ended'
  BY DEF H2Inv, Opened, Ended, Break, StreamEnded, streamVars, timerVars
<1>4. NoStrayTimer'
  BY DEF H2Inv, NoStrayTimer, Break, timerVars
<1> QED BY <1>1, <1>2, <1>3, <1>4 DEF H2Inv

LEMMA ReturnKeeps ==
    ASSUME H2Inv, NEW d \in Dirs, Return(d)
    PROVE  H2Inv'
<1>1. H2Types'
  BY DEF H2Inv, H2Types, Return, Goto, timerVars
<1>2. Opened'
  BY DEF H2Inv, Opened, Return, dialVars
<1>3. Ended'
  BY DEF H2Inv, Ended, Return, dialVars, streamVars, timerVars
<1>4. NoStrayTimer'
  BY DEF H2Inv, NoStrayTimer, Return, timerVars
<1> QED BY <1>1, <1>2, <1>3, <1>4 DEF H2Inv

LEMMA CloseKeeps ==
    ASSUME H2Inv, Close
    PROVE  H2Inv'
<1>1. H2Types'
  BY DEF H2Inv, H2Types, NoStrayTimer, Close
<1>2. Opened'
  BY DEF Opened, Close, dialVars
<1>3. Ended'
  BY DEF H2Inv, Ended, Close, streamVars
<1>4. NoStrayTimer'
  BY DEF H2Inv, NoStrayTimer, Close
<1> QED BY <1>1, <1>2, <1>3, <1>4 DEF H2Inv

LEMMA CloserKeeps ==
    ASSUME H2Inv, Closer
    PROVE  H2Inv'
<1>1. H2Types'
  BY DEF H2Inv, H2Types, Closer, timerVars
<1>2. Opened'
  BY DEF H2Inv, Opened, Closer, RunCloser, dialVars
<1>3. Ended'
  BY DEF H2Inv, Ended, Closer, timerVars
<1>4. NoStrayTimer'
  BY DEF H2Inv, NoStrayTimer, Closer, timerVars
<1> QED BY <1>1, <1>2, <1>3, <1>4 DEF H2Inv

LEMMA H2Invariant == Spec => []H2Inv
<1>1. H2Inv /\ [Next]_vars => H2Inv'
  <2> SUFFICES ASSUME H2Inv, [Next]_vars PROVE H2Inv'
    OBVIOUS
  <2>1. CASE UNCHANGED vars
    BY <2>1 DEF H2Inv, H2Types, Opened, Ended, NoStrayTimer, vars, dialVars, streamVars,
       timerVars
  <2>2. CASE Next
    BY <2>2, StartKeeps, HeadersKeeps, RoundTripKeeps, WatchdogKeeps, AnswerKeeps,
       SetZeroKeeps, SetFutureKeeps, SetPastKeeps, ExpireKeeps, FireFlagKeeps, FireCloseKeeps,
       ResetKeeps, CallKeeps, SucceedKeeps, BreakKeeps, ReturnKeeps, CloseKeeps, CloserKeeps
       DEF Next, Dial
  <2> QED BY <2>1, <2>2
<1> QED BY <1>1, H2Initial, PTL DEF Spec

(* A deadline that was replaced, or that Close removed, has no timer left  *)
(* (h2.go:187-203).                                                        *)
THEOREM TimersBelong == Spec => []NoStrayTimer
<1>1. H2Inv => NoStrayTimer
  BY DEF H2Inv
<1> QED BY <1>1, H2Invariant, PTL

(* An I/O error is a deadline's only if one has passed, and any other has  *)
(* its cause in Close or the peer (h2.go:205-224).                         *)
THEOREM ErrorsTell == Spec => []ErrorsNormalised
<1>1. H2Inv => ErrorsNormalised
  BY DEF H2Inv, Ended, ErrorsNormalised
<1> QED BY <1>1, H2Invariant, PTL

(* A dial that fails, or goes on with HTTP/1.1, leaves nothing of the      *)
(* stream behind (h2.go:401-505).                                          *)
THEOREM FailedDialCleansUp == Spec => []DialCleansUp
<1>1. H2Inv => DialCleansUp
  BY DEF H2Inv, Opened, DialCleansUp
<1> QED BY <1>1, H2Invariant, PTL
-----------------------------------------------------------------------------
(* The chat example, for any number of clients, any size of their queues   *)
(* and any number of messages: the hub's channel operations never panic,   *)
(* writePump's count of its queue stays right, and every client gets what  *)
(* is broadcast in order and without a gap.                                *)
(* The types these proofs need.                                            *)
ChatTypes ==
    /\ rp \in [Clients -> {"new", "read", "broadcast", "unregister", "graceful", "done"}]
    /\ wp \in [Clients -> {"new", "select", "opened", "write", "close", "done"}]
    /\ send \in [Clients -> Seq(Nat)]
    /\ left \in [Clients -> Nat]
    /\ log \in Seq(Nat)
    /\ clients \subseteq Clients /\ closed \subseteq Clients

(* A client that has not registered is unknown to the hub.                 *)
Unborn == \A c \in Clients : rp[c] = "new" => c \notin clients /\ c \notin closed

ChatInv == ChatTypes /\ NoPanic /\ Unborn /\ CountedMessagesThere

-----------------------------------------------------------------------------
LEMMA ChatInitial == HubInit => ChatInv
BY DEF HubInit, ChatInv, ChatTypes, NoPanic, Unborn, CountedMessagesThere

(* What taking the first message of a queue does to it.                    *)
LEMMA TakeOne ==
    ASSUME NEW s \in Seq(Nat), s # <<>>
    PROVE  Tail(s) \in Seq(Nat) /\ Len(Tail(s)) = Len(s) - 1
OBVIOUS

(* What a broadcast does to the queues: none gets shorter.                 *)
LEMMA Offered ==
    ASSUME NEW s \in Seq(Nat), NEW m \in Nat
    PROVE  Append(s, m) \in Seq(Nat) /\ Len(Append(s, m)) = Len(s) + 1
OBVIOUS

LEMMA HubInv ==
    ASSUME ChatInv, NEW c \in Clients, Register(c) \/ Unregister(c) \/ Broadcast(c)
    PROVE  ChatInv'
<1> USE DEF ChatInv, ChatTypes, NoPanic, Unborn, CountedMessagesThere
<1>1. CASE Register(c)
  BY <1>1 DEF Register
<1>2. CASE Unregister(c)
  BY <1>2 DEF Unregister, CloseSends
<1>3. CASE Broadcast(c)
  <2> DEFINE m    == Len(log) + 1
             slow == {d \in clients : Len(send[d]) = SendSize}
  <2>1. m \in Nat /\ log' \in Seq(Nat)
    BY <1>3 DEF Broadcast
  <2>2. \A d \in Clients : send'[d] \in Seq(Nat) /\ Len(send'[d]) >= Len(send[d])
    BY <1>3, <2>1, Offered DEF Broadcast
  <2>3. send' \in [Clients -> Seq(Nat)]
    <3>1. send' = [d \in Clients |-> send'[d]]
      BY <1>3 DEF Broadcast
    <3> QED BY <3>1, <2>2
  <2>4. ChatTypes'
    BY <1>3, <2>1, <2>3 DEF Broadcast
  <2>5. NoPanic'
    BY <1>3 DEF Broadcast
  <2>6. Unborn'
    BY <1>3 DEF Broadcast
  <2>7. CountedMessagesThere'
    <3> SUFFICES ASSUME NEW d \in Clients, wp'[d] = "write"
                 PROVE  left'[d] <= Len(send'[d])
      BY DEF CountedMessagesThere
    <3>1. wp[d] = "write" /\ left'[d] = left[d]
      BY <1>3 DEF Broadcast
    <3>2. left[d] <= Len(send[d]) /\ Len(send'[d]) >= Len(send[d])
      BY <3>1, <2>2
    <3>3. left[d] \in Nat /\ Len(send[d]) \in Nat /\ Len(send'[d]) \in Nat
      BY <2>2
    <3> QED BY <3>1, <3>2, <3>3
  <2> QED BY <2>4, <2>5, <2>6, <2>7
<1> QED BY <1>1, <1>2, <1>3

LEMMA PumpInv ==
    ASSUME ChatInv, NEW c \in Clients,
           Pump(c) \/ ReadMessage(c) \/ ReadFails(c) \/ ConnFails(c)
    PROVE  ChatInv'
<1> USE DEF ChatInv, ChatTypes, NoPanic, Unborn, CountedMessagesThere
<1>1. CASE SendClose(c)    BY <1>1 DEF SendClose
<1>2. CASE DrainEnds(c)    BY <1>2 DEF DrainEnds
<1>3. CASE StartMessage(c)
  <2>1. Tail(send[c]) \in Seq(Nat)
    BY <1>3, TakeOne DEF StartMessage
  <2>2. /\ wp[c] = "select" /\ send' = [send EXCEPT ![c] = Tail(@)]
        /\ wp' = [wp EXCEPT ![c] = "opened"] \/ wp' = [wp EXCEPT ![c] = "close"]
        /\ UNCHANGED <<clients, closed, rp, left, log, panic>>
    BY <1>3 DEF StartMessage, Take
  <2>3. send' \in [Clients -> Seq(Nat)]
    BY <2>1, <2>2
  <2>4. ASSUME NEW d \in Clients, wp'[d] = "write" PROVE left'[d] <= Len(send'[d])
    <3>1. d # c /\ wp[d] = "write" /\ send'[d] = send[d]
      BY <2>2, <2>4
    <3> QED BY <2>2, <3>1
  <2> QED BY <2>2, <2>3, <2>4
<1>4. CASE CountQueued(c)  BY <1>4 DEF CountQueued, Queued
<1>5. CASE AddQueued(c)
  <2>1. Tail(send[c]) \in Seq(Nat) /\ Len(Tail(send[c])) = Len(send[c]) - 1
    BY <1>5, TakeOne DEF AddQueued
  <2> QED BY <1>5, <2>1 DEF AddQueued, Take
<1>6. CASE EndMessage(c)   BY <1>6 DEF EndMessage
<1>7. CASE SayBye(c)       BY <1>7 DEF SayBye
<1>8. CASE PingFails(c)    BY <1>8 DEF PingFails
<1>9. CASE CloseConn(c)    BY <1>9 DEF CloseConn
<1>10. CASE ReadMessage(c) BY <1>10 DEF ReadMessage
<1>11. CASE ReadFails(c)   BY <1>11 DEF ReadFails
<1>12. CASE ConnFails(c)   BY <1>12 DEF ConnFails
<1> QED
  BY <1>1, <1>2, <1>3, <1>4, <1>5, <1>6, <1>7, <1>8, <1>9, <1>10, <1>11, <1>12 DEF Pump

LEMMA ChatInvariant == HubSpec => []ChatInv
<1>1. ChatInv /\ [HubNext]_hubVars => ChatInv'
  <2> SUFFICES ASSUME ChatInv, [HubNext]_hubVars PROVE ChatInv'
    OBVIOUS
  <2>1. CASE UNCHANGED hubVars
    BY <2>1 DEF hubVars, ChatInv, ChatTypes, NoPanic, Unborn, CountedMessagesThere
  <2>2. CASE HubNext
    BY <2>2, HubInv, PumpInv DEF HubNext, Hub
  <2> QED BY <2>1, <2>2
<1> QED BY <1>1, ChatInitial, PTL DEF HubSpec

(* The hub never sends on a closed channel nor closes one twice, whichever *)
(* of Unregister and the drop of a slow client comes first (hub.go 37-50). *)
THEOREM HubNeverPanics == HubSpec => []NoPanic
<1>1. ChatInv => NoPanic
  BY DEF ChatInv
<1> QED BY <1>1, ChatInvariant, PTL

(* writePump never waits for a queued message that is not there (client.go *)
(* 115-120), although the hub goes on sending and may close the channel.   *)
THEOREM CountStaysRight == HubSpec => []CountedMessagesThere
<1>1. ChatInv => CountedMessagesThere
  BY DEF ChatInv
<1> QED BY <1>1, ChatInvariant, PTL
-----------------------------------------------------------------------------
(* Order.  What a client got and what is queued for it are one after the   *)
(* other in the log, from where it registered.                             *)
Follows(g, s, n, l) ==
    /\ n + Len(g) + Len(s) <= Len(l)
    /\ \A i \in 1..Len(g) : g[i] = l[n + i]
    /\ \A i \in 1..Len(s) : s[i] = l[n + Len(g) + i]

LEMMA FollowsTake ==
    ASSUME NEW g \in Seq(Nat), NEW s \in Seq(Nat), NEW n \in Nat, NEW l \in Seq(Nat),
           Follows(g, s, n, l), s # <<>>
    PROVE  /\ Append(g, Head(s)) \in Seq(Nat) /\ Tail(s) \in Seq(Nat)
           /\ n + Len(Append(g, Head(s))) + Len(Tail(s)) = n + Len(g) + Len(s)
           /\ Follows(Append(g, Head(s)), Tail(s), n, l)
<1> DEFINE h == Append(g, Head(s))
           t == Tail(s)
<1>1. Head(s) = s[1] /\ Head(s) \in Nat /\ 1 \in 1..Len(s)
  OBVIOUS
<1>2. /\ h \in Seq(Nat) /\ Len(h) = Len(g) + 1 /\ h[Len(g) + 1] = s[1]
      /\ \A i \in 1..Len(g) : h[i] = g[i]
  BY <1>1
<1>3. /\ t \in Seq(Nat) /\ Len(t) = Len(s) - 1
      /\ \A i \in 1..Len(t) : t[i] = s[i + 1]
  BY HeadTailProperties
<1>4. s[1] = l[n + Len(g) + 1]
  BY <1>1 DEF Follows
<1> HIDE DEF h, t
<1>5. n + Len(h) + Len(t) <= Len(l)
  BY <1>2, <1>3 DEF Follows
<1>6. ASSUME NEW i \in 1..Len(h) PROVE h[i] = l[n + i]
  <2>1. CASE i \in 1..Len(g)
    BY <1>2, <2>1 DEF Follows
  <2>2. CASE i = Len(g) + 1
    BY <1>2, <1>4, <2>2
  <2> QED BY <1>2, <2>1, <2>2
<1>7. ASSUME NEW i \in 1..Len(t) PROVE t[i] = l[n + Len(h) + i]
  <2>1. i + 1 \in 1..Len(s) /\ t[i] = s[i + 1]
    BY <1>3
  <2>2. s[i + 1] = l[n + Len(g) + (i + 1)]
    BY <2>1 DEF Follows
  <2>3. n + Len(g) + (i + 1) = n + Len(h) + i
    BY <1>2
  <2> QED BY <2>1, <2>2, <2>3
<1>8. Follows(h, t, n, l)
  BY <1>5, <1>6, <1>7 DEF Follows
<1>9. n + Len(h) + Len(t) = n + Len(g) + Len(s)
  BY <1>2, <1>3
<1> QED BY <1>2, <1>3, <1>8, <1>9 DEF h, t

LEMMA FollowsLog ==
    ASSUME NEW g \in Seq(Nat), NEW s \in Seq(Nat), NEW n \in Nat, NEW l \in Seq(Nat),
           NEW m \in Nat, Follows(g, s, n, l)
    PROVE  Follows(g, s, n, Append(l, m))
<1>1. /\ Len(Append(l, m)) = Len(l) + 1
      /\ \A i \in 1..Len(l) : Append(l, m)[i] = l[i]
  OBVIOUS
<1>2. \A i \in 1..Len(g) : n + i \in 1..Len(l)
  BY DEF Follows
<1>3. \A i \in 1..Len(s) : n + Len(g) + i \in 1..Len(l)
  BY DEF Follows
<1>4. n + Len(g) + Len(s) <= Len(Append(l, m))
  <2>1. n + Len(g) + Len(s) <= Len(l)
    BY DEF Follows
  <2>2. n + Len(g) + Len(s) \in Nat /\ Len(l) \in Nat
    OBVIOUS
  <2> QED BY <1>1, <2>1, <2>2
<1>5. \A i \in 1..Len(g) : g[i] = Append(l, m)[n + i]
  BY <1>1, <1>2 DEF Follows
<1>6. \A i \in 1..Len(s) : s[i] = Append(l, m)[n + Len(g) + i]
  BY <1>1, <1>3 DEF Follows
<1> QED BY <1>4, <1>5, <1>6 DEF Follows

LEMMA FollowsBroadcast ==
    ASSUME NEW g \in Seq(Nat), NEW s \in Seq(Nat), NEW n \in Nat, NEW l \in Seq(Nat),
           NEW m \in Nat, Follows(g, s, n, l), n + Len(g) + Len(s) = Len(l)
    PROVE  Follows(g, Append(s, m), n, Append(l, m))
<1> DEFINE t == Append(s, m)
           k == Append(l, m)
<1>1. /\ Len(s) \in Nat /\ Len(t) = Len(s) + 1 /\ t[Len(s) + 1] = m
      /\ \A i \in 1..Len(s) : t[i] = s[i]
  OBVIOUS
<1>2. Len(k) = Len(l) + 1 /\ k[Len(l) + 1] = m
  OBVIOUS
<1>3. Follows(g, s, n, k)
  BY FollowsLog
<1> HIDE DEF t, k
<1>4. ASSUME NEW i \in 1..Len(t) PROVE t[i] = k[n + Len(g) + i]
  <2>1. CASE i \in 1..Len(s)
    BY <1>1, <1>3, <2>1 DEF Follows
  <2>2. CASE i = Len(s) + 1
    BY <1>1, <1>2, <2>2
  <2> QED BY <1>1, <2>1, <2>2
<1>5. n + Len(g) + Len(t) <= Len(k)
  BY <1>1, <1>2
<1>6. Follows(g, t, n, k)
  BY <1>3, <1>4, <1>5 DEF Follows
<1> QED BY <1>6 DEF t, k

LEMMA FollowsIsPrefix ==
    ASSUME NEW g \in Seq(Nat), NEW s \in Seq(Nat), NEW n \in Nat, NEW l \in Seq(Nat),
           Follows(g, s, n, l)
    PROVE  LET due == SubSeq(l, n + 1, Len(l))
           IN  /\ IsPrefix(g \o s, due)
               /\ n + Len(g) + Len(s) = Len(l) => g \o s = due
<1> DEFINE q   == g \o s
           due == SubSeq(l, n + 1, Len(l))
           k   == Len(g) + Len(s)
<1>1. /\ q \in Seq(Nat) /\ Len(q) = k /\ k \in Nat
      /\ \A i \in 1..k : q[i] = IF i <= Len(g) THEN g[i] ELSE s[i - Len(g)]
  BY ConcatProperties
<1>2. n <= Len(l) /\ k <= Len(l) - n /\ Len(l) \in Nat
  BY DEF Follows
<1>3. /\ due \in Seq(Nat) /\ Len(due) = Len(l) - n
      /\ \A i \in 1..Len(l) - n : due[i] = l[n + i]
  <2>1. \A i \in n + 1..Len(l) : l[i] \in Nat
    OBVIOUS
  <2>2. n + 1 \in Int /\ Len(l) \in Int
    OBVIOUS
  <2>3. /\ due \in Seq(Nat)
        /\ Len(due) = IF n + 1 <= Len(l) THEN Len(l) - (n + 1) + 1 ELSE 0
        /\ \A i \in 1..Len(l) - (n + 1) + 1 : due[i] = l[n + 1 + i - 1]
    <3> DEFINE m == n + 1
               z == Len(l)
    <3>1. m \in Int /\ z \in Int /\ \A i \in m..z : l[i] \in Nat
      BY <2>1, <2>2
    <3> HIDE DEF m, z
    <3>2. /\ SubSeq(l, m, z) \in Seq(Nat)
          /\ Len(SubSeq(l, m, z)) = IF m <= z THEN z - m + 1 ELSE 0
          /\ \A i \in 1..z - m + 1 : SubSeq(l, m, z)[i] = l[m + i - 1]
      BY <3>1, SubSeqProperties
    <3> QED BY <3>2 DEF m, z
  <2> HIDE DEF due
  <2>4. Len(due) = Len(l) - n
    BY <1>2, <2>3
  <2>5. ASSUME NEW i \in 1..Len(l) - n PROVE due[i] = l[n + i]
    <3>1. i \in 1..Len(l) - (n + 1) + 1 /\ n + 1 + i - 1 = n + i
      BY <1>2
    <3> QED BY <2>3, <3>1
  <2> QED BY <2>3, <2>4, <2>5
<1>4. ASSUME NEW i \in 1..k PROVE q[i] = due[i]
  <2>1. due[i] = l[n + i]
    BY <1>2, <1>3
  <2>2. CASE i <= Len(g)
    <3>1. i \in 1..Len(g)
      BY <2>2
    <3>2. q[i] = g[i]
      <4> HIDE DEF q, due
      <4> QED BY <1>1, <2>2, <3>1
    <3>3. g[i] = l[n + i]
      BY <3>1 DEF Follows
    <3> QED BY <2>1, <3>2, <3>3
  <2>3. CASE i > Len(g)
    <3>1. i - Len(g) \in 1..Len(s) /\ q[i] = s[i - Len(g)]
      BY <1>1, <2>3
    <3>2. s[i - Len(g)] = l[n + Len(g) + (i - Len(g))]
      BY <3>1 DEF Follows
    <3>3. n + Len(g) + (i - Len(g)) = n + i
      BY <3>1
    <3> QED BY <2>1, <3>1, <3>2, <3>3
  <2>4. i <= Len(g) \/ i > Len(g)
    OBVIOUS
  <2> QED BY <2>2, <2>3, <2>4
<1> HIDE DEF q, due
<1>5. IsPrefix(q, due)
  <2>1. /\ SubSeq(due, 1, k) \in Seq(Nat) /\ Len(SubSeq(due, 1, k)) = k
        /\ \A i \in 1..k : SubSeq(due, 1, k)[i] = due[i]
    <3> HIDE DEF k
    <3>1. /\ 1 \in Int /\ k \in Int
          /\ \A i \in 1..k : due[i] \in Nat
      <4>1. ASSUME NEW i \in 1..k PROVE due[i] \in Nat
        <5>1. i \in 1..Len(due)
          BY <1>1, <1>2, <1>3
        <5> QED BY <1>3, <5>1, ElementOfSeq, Zenon
      <4> QED BY <1>1, <4>1
    <3>2. /\ SubSeq(due, 1, k) \in Seq(Nat)
          /\ Len(SubSeq(due, 1, k)) = IF 1 <= k THEN k - 1 + 1 ELSE 0
          /\ \A i \in 1..k - 1 + 1 : SubSeq(due, 1, k)[i] = due[1 + i - 1]
      BY <3>1, SubSeqProperties
    <3>3. k \in Nat
      BY <1>1
    <3> QED BY <3>2, <3>3
  <2>2. SubSeq(q, 1, k) = q
    BY <1>1, SubSeqFull
  <2>3. SubSeq(due, 1, k) = q
    BY <1>1, <1>4, <2>1, SeqEqual
  <2> QED BY <1>1, <1>2, <1>3, <2>2, <2>3 DEF IsPrefix
<1>6. k = Len(l) - n => q = due
  BY <1>1, <1>3, <1>4, SeqEqual
<1>7. n + Len(g) + Len(s) = Len(l) => k = Len(l) - n
  BY <1>2
<1> QED BY <1>5, <1>6, <1>7 DEF q, due
-----------------------------------------------------------------------------
Live(c) == conn[c] = "open" /\ wp[c] # "close"

Ordered(c) ==
    Live(c) => /\ Follows(got[c], send[c], since[c], log)
               /\ c \in clients => since[c] + Len(got[c]) + Len(send[c]) = Len(log)

(* A client that has not registered got nothing, and one whose writePump   *)
(* has ended is no longer live.                                            *)
Ends(c) ==
    /\ rp[c] = "new" => wp[c] = "new" /\ send[c] = <<>> /\ got[c] = <<>>
    /\ wp[c] = "new" => rp[c] = "new"
    /\ wp[c] = "done" => conn[c] = "closed"

OrderInv ==
    /\ ChatInv
    /\ got \in [Clients -> Seq(Nat)] /\ since \in [Clients -> Nat]
    /\ conn \in [Clients -> {"open", "closing", "failed", "closed"}]
    /\ \A c \in Clients : Ends(c) /\ Ordered(c)

LEMMA OrderInit == HubInit => OrderInv
<1> SUFFICES ASSUME HubInit PROVE OrderInv
  OBVIOUS
<1>1. \A c \in Clients : Ends(c)
  BY DEF HubInit, Ends
<1>2. \A c \in Clients : Ordered(c)
  BY DEF HubInit, Ordered, Follows
<1> QED BY <1>1, <1>2, ChatInitial DEF HubInit, OrderInv

(* A step that moves nothing of d, and does not bring it to life.          *)
LEMMA Unmoved ==
    ASSUME NEW d, Ordered(d), Live(d)' => Live(d),
           got'[d] = got[d], send'[d] = send[d], since'[d] = since[d], log' = log,
           d \in clients' => d \in clients
    PROVE  Ordered(d)'
BY DEF Ordered, Follows

LEMMA HubOrder ==
    ASSUME OrderInv, ChatInv', NEW c \in Clients, Register(c) \/ Unregister(c) \/ Broadcast(c)
    PROVE  OrderInv'
<1> USE DEF OrderInv
<1>1. CASE Register(c)
  <2>1. ASSUME NEW d \in Clients PROVE Ends(d)' /\ Ordered(d)'
    <3>1. Ends(d)'
      BY <1>1 DEF ChatInv, ChatTypes, Ends, Register
    <3>2. CASE d = c
      <4>1. got'[d] = <<>> /\ send'[d] = <<>> /\ log' = log /\ since'[d] = Len(log)
        BY <1>1, <3>2 DEF Ends, Register
      <4>2. Len(log) \in Nat
        BY DEF ChatInv, ChatTypes
      <4>3. Len(got'[d]) = 0 /\ Len(send'[d]) = 0 /\ Len(log') = Len(log)
        BY <4>1
      <4>4. Follows(got'[d], send'[d], since'[d], log')
        BY <4>1, <4>2, <4>3 DEF Follows
      <4>5. since'[d] + Len(got'[d]) + Len(send'[d]) = Len(log')
        BY <4>1, <4>2, <4>3
      <4> QED BY <3>1, <4>4, <4>5 DEF Ordered
    <3>3. CASE d # c
      <4>1. Ordered(d) /\ (Live(d)' => Live(d))
        BY <1>1, <3>3 DEF Live, Register
      <4>2. /\ got'[d] = got[d] /\ send'[d] = send[d] /\ since'[d] = since[d] /\ log' = log
            /\ d \in clients' => d \in clients
        BY <1>1, <3>3 DEF Register
      <4> QED BY <3>1, <4>1, <4>2, Unmoved
    <3> QED BY <3>2, <3>3
  <2>2. since' \in [Clients -> Nat]
    BY <1>1 DEF Register, ChatInv, ChatTypes
  <2> QED BY <1>1, <2>1, <2>2 DEF Register
<1>2. CASE Unregister(c)
  <2>1. ASSUME NEW d \in Clients PROVE Ends(d)' /\ Ordered(d)'
    <3>1. Ends(d)'
      BY <1>2 DEF ChatInv, ChatTypes, Ends, Unregister
    <3>2. Ordered(d) /\ (Live(d)' => Live(d))
      BY <1>2 DEF Live, Unregister
    <3> QED BY <1>2, <3>1, <3>2, Unmoved DEF Unregister
  <2> QED BY <1>2, <2>1 DEF Unregister
<1>3. CASE Broadcast(c)
  <2> DEFINE m == Len(log) + 1
  <2>1. m \in Nat /\ log \in Seq(Nat) /\ log' = Append(log, m)
    BY <1>3 DEF Broadcast, ChatInv, ChatTypes
  <2>2. ASSUME NEW d \in Clients PROVE Ends(d)' /\ Ordered(d)'
    <3>1. Ends(d)'
      BY <1>3 DEF Broadcast, ChatInv, ChatTypes, Unborn, Ends
    <3>2. /\ got[d] \in Seq(Nat) /\ send[d] \in Seq(Nat) /\ since[d] \in Nat
          /\ got'[d] = got[d] /\ since'[d] = since[d] /\ (Live(d)' => Live(d))
      BY <1>3 DEF Broadcast, ChatInv, ChatTypes, Live
    <3>3. SUFFICES ASSUME Live(d), Follows(got[d], send[d], since[d], log)
                   PROVE  Ordered(d)'
      BY <3>1, <3>2 DEF Ordered
    <3>4. CASE d \in clients /\ Len(send[d]) # SendSize
      <4>1. send'[d] = Append(send[d], m)
        BY <1>3, <3>4 DEF Broadcast
      <4>2. since[d] + Len(got[d]) + Len(send[d]) = Len(log)
        BY <3>3, <3>4 DEF Ordered
      <4>3. Follows(got[d], Append(send[d], m), since[d], Append(log, m))
        BY <2>1, <3>2, <3>3, <4>2, FollowsBroadcast
      <4>4. Len(Append(send[d], m)) = Len(send[d]) + 1 /\ Len(Append(log, m)) = Len(log) + 1
        BY <2>1, <3>2
      <4>5. since[d] + Len(got[d]) + (Len(send[d]) + 1) = Len(log) + 1
        BY <2>1, <3>2, <4>2
      <4> QED BY <2>1, <3>2, <4>1, <4>3, <4>4, <4>5 DEF Ordered
    <3>5. CASE ~ (d \in clients /\ Len(send[d]) # SendSize)
      <4>1. send'[d] = send[d] /\ d \notin clients'
        BY <1>3, <3>5 DEF Broadcast
      <4>2. Follows(got[d], send[d], since[d], Append(log, m))
        BY <2>1, <3>2, <3>3, FollowsLog
      <4> QED BY <2>1, <3>2, <4>1, <4>2 DEF Ordered
    <3> QED BY <3>4, <3>5
  <2> QED BY <1>3, <2>2 DEF Broadcast
<1> QED BY <1>1, <1>2, <1>3

(* Taking the first message moves it from the queue to the connection.     *)
LEMMA TakeOrder ==
    ASSUME OrderInv, NEW c \in Clients, send[c] # <<>>, Take(c),
           UNCHANGED <<clients, conn, log, since>>, wp'[c] # "close" => wp[c] # "close",
           \A d \in Clients \ {c} : wp'[d] = wp[d]
    PROVE  got' \in [Clients -> Seq(Nat)] /\ \A d \in Clients : Ordered(d)'
<1> DEFINE g == Append(got[c], Head(send[c]))
           s == Tail(send[c])
<1>1. /\ got[c] \in Seq(Nat) /\ send[c] \in Seq(Nat) /\ since[c] \in Nat /\ log \in Seq(Nat)
      /\ send \in [Clients -> Seq(Nat)] /\ got \in [Clients -> Seq(Nat)]
  BY DEF OrderInv, ChatInv, ChatTypes
<1>2. got'[c] = g /\ send'[c] = s
  BY <1>1 DEF Take
<1>3. g \in Seq(Nat)
  BY <1>1
<1>4. Ordered(c)'
  <2> SUFFICES ASSUME Live(c)' PROVE Ordered(c)'
    BY DEF Ordered
  <2>1. Live(c) /\ Ordered(c)
    BY DEF Live, OrderInv
  <2>2. Follows(got[c], send[c], since[c], log)
    BY <2>1 DEF Ordered
  <2>3. /\ Follows(g, s, since[c], log)
        /\ since[c] + Len(g) + Len(s) = since[c] + Len(got[c]) + Len(send[c])
        /\ s \in Seq(Nat)
    BY <1>1, <2>2, FollowsTake
  <2> HIDE DEF g, s
  <2>4. c \in clients => since[c] + Len(g) + Len(s) = Len(log)
    BY <2>1, <2>3 DEF Ordered
  <2> QED BY <1>2, <2>3, <2>4 DEF Ordered
<1>5. ASSUME NEW d \in Clients \ {c} PROVE Ordered(d)'
  <2>1. Ordered(d) /\ (Live(d)' => Live(d))
    BY DEF Live, OrderInv
  <2>2. got'[d] = got[d] /\ send'[d] = send[d]
    BY <1>1 DEF Take
  <2> QED BY <2>1, <2>2, Unmoved
<1>6. got' \in [Clients -> Seq(Nat)]
  BY <1>1, <1>3 DEF Take
<1> QED BY <1>4, <1>5, <1>6

LEMMA PumpOrder ==
    ASSUME OrderInv, ChatInv', NEW c \in Clients,
           Pump(c) \/ ReadMessage(c) \/ ReadFails(c) \/ ConnFails(c)
    PROVE  OrderInv'
<1> USE DEF OrderInv
<1>1. ASSUME \A d \in Clients : Ends(d)', got' = got, send' = send, since' = since, log' = log,
             clients' = clients, conn' \in [Clients -> {"open", "closing", "failed", "closed"}],
             \A d \in Clients : Live(d)' => Live(d)
      PROVE  OrderInv'
  <2>1. ASSUME NEW d \in Clients PROVE Ordered(d)'
    BY <1>1, Unmoved
  <2> QED BY <1>1, <2>1
<1>2. CASE SendClose(c)    BY <1>1, <1>2 DEF SendClose, Ends, Live
<1>3. CASE DrainEnds(c)    BY <1>1, <1>3 DEF DrainEnds, Ends, Live, ChatInv, ChatTypes
<1>4. CASE CountQueued(c)
  <2>1. /\ wp[c] = "opened" /\ wp' = [wp EXCEPT ![c] = "write"] /\ wp \in [Clients -> {"new", "select", "opened", "write", "close", "done"}]
        /\ UNCHANGED <<clients, send, closed, rp, conn, log, got, since, panic>>
    BY <1>4 DEF CountQueued, ChatInv, ChatTypes
  <2>2. ASSUME NEW d \in Clients PROVE Ends(d)' /\ (Live(d)' => Live(d))
    BY <2>1 DEF Ends, Live
  <2> QED BY <1>1, <2>1, <2>2
<1>5. CASE EndMessage(c)   BY <1>1, <1>5 DEF EndMessage, Ends, Live, ChatInv, ChatTypes
<1>6. CASE SayBye(c)
  <2>1. conn' \in [Clients -> {"open", "closing", "failed", "closed"}]
    BY <1>6 DEF SayBye
  <2>2. \A d \in Clients : Ends(d)'
    BY <1>6 DEF SayBye, Ends, ChatInv, ChatTypes
  <2>3. \A d \in Clients : Live(d)' => Live(d)
    BY <1>6 DEF SayBye, Live, ChatInv, ChatTypes
  <2> QED BY <1>1, <1>6, <2>1, <2>2, <2>3 DEF SayBye
<1>7. CASE PingFails(c)    BY <1>1, <1>7 DEF PingFails, Ends, Live, ChatInv, ChatTypes
<1>8. CASE CloseConn(c)    BY <1>1, <1>8 DEF CloseConn, Ends, Live, ChatInv, ChatTypes
<1>9. CASE ReadMessage(c)  BY <1>1, <1>9 DEF ReadMessage, Ends, Live, ChatInv, ChatTypes
<1>10. CASE ReadFails(c)   BY <1>1, <1>10 DEF ReadFails, Ends, Live, ChatInv, ChatTypes
<1>11. CASE ConnFails(c)   BY <1>1, <1>11 DEF ConnFails, Ends, Live, ChatInv, ChatTypes
<1>12. CASE StartMessage(c)
  <2>1. /\ wp[c] = "select" /\ wp'[c] \in {"opened", "close"}
        /\ \A d \in Clients \ {c} : /\ wp'[d] = wp[d] /\ send'[d] = send[d] /\ got'[d] = got[d]
        /\ rp' = rp /\ conn' = conn
    <3>1. /\ wp' = [wp EXCEPT ![c] = "opened"] \/ wp' = [wp EXCEPT ![c] = "close"]
          /\ send' = [send EXCEPT ![c] = Tail(@)]
          /\ got' = got \/ got' = [got EXCEPT ![c] = Append(@, Head(send[c]))]
      BY <1>12 DEF StartMessage, Take
    <3>2. wp \in [Clients -> {"new", "select", "opened", "write", "close", "done"}] /\ DOMAIN send = Clients
      BY DEF ChatInv, ChatTypes
    <3> QED BY <1>12, <3>1, <3>2 DEF StartMessage
  <2>2. \A d \in Clients : Ends(d)'
    BY <2>1 DEF Ends
  <2>3. CASE Take(c) /\ wp' = [wp EXCEPT ![c] = "opened"]
    BY <1>12, <2>1, <2>2, <2>3, TakeOrder DEF StartMessage
  <2>4. CASE conn[c] # "open" /\ UNCHANGED got /\ send' = [send EXCEPT ![c] = Tail(@)]
    <3>1. ASSUME NEW d \in Clients PROVE Ordered(d)'
      <4>1. CASE d = c
        BY <1>12, <2>4, <4>1 DEF StartMessage, Ordered, Live
      <4>2. CASE d # c
        <5>1. Ordered(d) /\ (Live(d)' => Live(d)) /\ send'[d] = send[d]
          BY <1>12, <2>4, <4>2 DEF StartMessage, Live, ChatInv, ChatTypes
        <5> QED BY <1>12, <2>4, <5>1, Unmoved DEF StartMessage
      <4> QED BY <4>1, <4>2
    <3> QED BY <1>12, <2>2, <2>4, <3>1 DEF StartMessage
  <2> QED BY <1>12, <2>3, <2>4 DEF StartMessage
<1>13. CASE AddQueued(c)
  <2>1. \A d \in Clients : Ends(d)'
    BY <1>13 DEF AddQueued, Take, Ends, ChatInv, ChatTypes
  <2> QED BY <1>13, <2>1, TakeOrder DEF AddQueued
<1> QED
  BY <1>2, <1>3, <1>4, <1>5, <1>6, <1>7, <1>8, <1>9, <1>10, <1>11, <1>12, <1>13 DEF Pump

(* A client's connection carries what was broadcast since it registered,   *)
(* in order and without a gap, and nothing is missing as long as it is     *)
(* registered (hub.go 40-48, client.go 99-113).                            *)
THEOREM NothingSkipped == HubSpec => []InOrder
<1>1. OrderInv /\ ChatInv' /\ [HubNext]_hubVars => OrderInv'
  <2> SUFFICES ASSUME OrderInv, ChatInv', [HubNext]_hubVars PROVE OrderInv'
    OBVIOUS
  <2>1. CASE UNCHANGED hubVars
    <3>1. ASSUME NEW d \in Clients PROVE Ends(d)' /\ Ordered(d)'
      BY <2>1 DEF OrderInv, Ends, Ordered, Live, Follows, hubVars
    <3> QED BY <2>1, <3>1 DEF OrderInv, hubVars
  <2>2. CASE HubNext
    BY <2>2, HubOrder, PumpOrder DEF HubNext, Hub
  <2> QED BY <2>1, <2>2
<1>2. OrderInv => InOrder
  <2> SUFFICES ASSUME OrderInv, NEW c \in Clients, Live(c)
               PROVE  LET due == SubSeq(log, since[c] + 1, Len(log))
                      IN  /\ IsPrefix(got[c] \o send[c], due)
                          /\ c \in clients => got[c] \o send[c] = due
    BY DEF InOrder, Live
  <2>1. /\ got[c] \in Seq(Nat) /\ send[c] \in Seq(Nat) /\ since[c] \in Nat /\ log \in Seq(Nat)
        /\ Ordered(c)
    BY DEF OrderInv, ChatInv, ChatTypes
  <2>2. /\ Follows(got[c], send[c], since[c], log)
        /\ c \in clients => since[c] + Len(got[c]) + Len(send[c]) = Len(log)
    BY <2>1 DEF Ordered
  <2>3. LET due == SubSeq(log, since[c] + 1, Len(log))
        IN  /\ IsPrefix(got[c] \o send[c], due)
            /\ since[c] + Len(got[c]) + Len(send[c]) = Len(log) => got[c] \o send[c] = due
    <3> DEFINE g == got[c]
               s == send[c]
               n == since[c]
    <3>1. g \in Seq(Nat) /\ s \in Seq(Nat) /\ n \in Nat /\ log \in Seq(Nat) /\ Follows(g, s, n, log)
      BY <2>1, <2>2
    <3> HIDE DEF g, s, n
    <3>2. LET due == SubSeq(log, n + 1, Len(log))
          IN  IsPrefix(g \o s, due) /\ (n + Len(g) + Len(s) = Len(log) => g \o s = due)
      BY <3>1, FollowsIsPrefix, SMT
    <3> QED BY <3>2 DEF g, s, n
  <2> QED BY <2>2, <2>3
<1> QED BY <1>1, <1>2, OrderInit, ChatInvariant, PTL DEF HubSpec
=============================================================================
