----------------------------- MODULE ContextProofs -----------------------------
(***************************************************************************)
(* The calls with a context, for any streams of the peer, any number of    *)
(* writing goroutines and any number of calls: the deadline of a watchdog  *)
(* does not outlive its call, and ctx.Err() hides neither a message that   *)
(* was sent nor one that was received.                                     *)
(***************************************************************************)
EXTENDS Contexts, FiniteSetTheorems, TLAPS

-----------------------------------------------------------------------------
(* Reading, for any streams of the peer and any number of calls.           *)
(* The number of messages begun grows with a header only.                  *)
LEMMA HeadsGrow ==
    ASSUME NEW n \in Nat
    PROVE  /\ Heads(n) \in Nat
           /\ Heads(n + 1) = IF stream[n + 1].is = "head" THEN Heads(n) + 1 ELSE Heads(n)
<1> DEFINE H(k) == {i \in 1..k : stream[i].is = "head"}
<1>1. IsFiniteSet(H(n))
  BY FS_Interval, FS_Subset, IsFiniteSet(1..n), H(n) \in SUBSET (1..n)
<1>2. n + 1 \notin H(n)
  OBVIOUS
<1>3. H(n + 1) = IF stream[n + 1].is = "head" THEN H(n) \cup {n + 1} ELSE H(n)
  OBVIOUS
<1>4. Cardinality(H(n)) \in Nat
  BY <1>1, FS_CardinalityType
<1>5. Cardinality(H(n) \cup {n + 1}) = Cardinality(H(n)) + 1
  BY <1>1, <1>2, FS_AddElement
<1>6. Heads(n) = Cardinality(H(n)) /\ Heads(n + 1) = Cardinality(H(n + 1))
  BY DEF Heads
<1> HIDE DEF H
<1> QED BY <1>3, <1>4, <1>5, <1>6

LEMMA NoHeads == Heads(0) = 0
<1>1. {i \in 1..0 : stream[i].is = "head"} = {}
  OBVIOUS
<1> QED BY <1>1, FS_EmptySet DEF Heads
-----------------------------------------------------------------------------
Units == [is : {"head", "byte", "pong"}, len : Nat]

RTypes ==
    /\ stream \in Seq(Units) /\ handler \in BOOLEAN
    /\ arrived \in Nat /\ fetched \in Nat /\ taken \in Nat /\ remaining \in Nat /\ skipped \in Nat
    /\ taken <= fetched /\ fetched <= arrived /\ arrived <= Len(stream)
    /\ readErr \in BOOLEAN /\ readDl \in {"none", "ctx", "app", "past", "kick"}
    /\ step \in {"idle", "check", "skip", "frame", "stop", "payload"}
    /\ call \in Calls /\ rctx \in [dl : BOOLEAN, done : BOOLEAN]
    /\ watcher \in {"none", "watch", "fired", "quit"}
    /\ got \in BOOLEAN /\ count \in Nat /\ returned \in {"nil", "timeout", "failed", "ctx"}
    /\ handed \in Nat /\ lost \in BOOLEAN /\ reads \in Nat

(* After a header come the bytes it announces.                             *)
WellFormed ==
    \A i \in 1..Len(stream) : stream[i].is = "head" =>
        \A j \in 1..Len(stream) : i < j /\ j <= i + stream[i].len => stream[j].is = "byte"

(* Where the parser is: the next bytes are those that remain of a message, *)
(* as long as no timeout has struck in the middle of a skip.               *)
InPlace ==
    /\ step = "skip" => skipped < remaining
    /\ step # "skip" => skipped = 0
    /\ step = "frame" => remaining = 0
    /\ ~ lost => \A i \in 1..Len(stream) :
                    taken < i /\ i <= taken + (remaining - skipped) => stream[i].is = "byte"

(* What NextReader has and what it is going to say agree.                  *)
Told ==
    /\ step \in {"skip", "frame"} => ~ got /\ count = 0
    /\ step = "stop" => (got <=> returned = "nil")
    /\ step = "payload" => got /\ returned = "nil"
    /\ lost => ~ got /\ step \in {"stop", "idle"}
    /\ step = "idle" /\ call.whole /\ got /\ returned = "nil" => remaining = 0

(* Every message begun was handed over, but for the one on its way.        *)
Counted == ~ lost => handed + (IF step = "stop" /\ got THEN 1 ELSE 0) = Heads(taken)

(* What was delivered of the last message, and what remains of it.         *)
Measured ==
    got /\ returned = "nil" =>
        \E i \in 1..taken : /\ stream[i].is = "head" /\ Heads(i) = Heads(taken)
                            /\ count + remaining = stream[i].len

(* The watchdog and its deadline belong to a call with a context.          *)
WatchEnds ==
    /\ step \in {"idle", "payload", "check"} \/ ~ call.ctx =>
        watcher # "watch" /\ readDl \notin {"kick", "ctx"}
    /\ step = "check" => call.ctx

RInv == RTypes /\ WellFormed /\ InPlace /\ Told /\ Counted /\ Measured /\ WatchEnds

LEMMA ReadCallKeeps ==
    ASSUME RInv, NEW c \in Calls, NEW dl \in BOOLEAN, ReadCall(c, dl)
    PROVE  RInv'
<1>1. RTypes'
  <2>1. /\ rctx' \in [dl : BOOLEAN, done : BOOLEAN] /\ call' \in Calls
        /\ watcher' = "none" /\ reads' \in Nat
    BY DEF RInv, RTypes, ReadCall
  <2>2. /\ step' \in {"idle", "check", "skip", "frame", "stop", "payload"}
        /\ got' \in BOOLEAN /\ count' \in Nat /\ returned' \in {"nil", "timeout", "failed", "ctx"}
    <3>1. CASE c.ctx
      BY <3>1 DEF RInv, RTypes, ReadCall
    <3>2. CASE ~ c.ctx
      <4>1. StartNextReader
        BY <3>2 DEF ReadCall
      <4>2. CASE readErr
        BY <4>1, <4>2 DEF StartNextReader
      <4>3. CASE ~ readErr
        BY <4>1, <4>3 DEF RInv, RTypes, StartNextReader
      <4> QED BY <4>2, <4>3
    <3> QED BY <3>1, <3>2
  <2> QED BY <2>1, <2>2 DEF RInv, RTypes, ReadCall, streamVars, parseVars
<1>2. WellFormed'
  BY DEF RInv, WellFormed, ReadCall, streamVars
<1>3. InPlace'
  BY DEF RInv, RTypes, InPlace, ReadCall, StartNextReader, streamVars, parseVars
<1>4. Told'
  BY DEF Told, ReadCall, StartNextReader
<1>5. Counted'
  BY DEF RInv, Counted, Heads, ReadCall, StartNextReader, streamVars, parseVars
<1>6. Measured'
  BY DEF RInv, Measured, Heads, ReadCall, StartNextReader, streamVars, parseVars
<1>7. WatchEnds'
  BY DEF RInv, WatchEnds, ReadCall, StartNextReader
<1> QED BY <1>1, <1>2, <1>3, <1>4, <1>5, <1>6, <1>7 DEF RInv

LEMMA CheckContextKeeps ==
    ASSUME RInv, CheckContext
    PROVE  RInv'
<1>1. RTypes'
  <2>1. readDl' \in {"none", "ctx", "app", "past", "kick"}
    BY DEF RInv, RTypes, CheckContext
  <2>2. watcher' \in {"none", "watch", "fired", "quit"}
    BY DEF RInv, RTypes, CheckContext
  <2>3. /\ step' \in {"idle", "check", "skip", "frame", "stop", "payload"}
        /\ got' \in BOOLEAN /\ count' \in Nat /\ returned' \in {"nil", "timeout", "failed", "ctx"}
    <3>1. CASE rctx.done
      BY <3>1 DEF RInv, RTypes, CheckContext
    <3>2. CASE ~ rctx.done
      <4>1. StartNextReader
        BY <3>2 DEF CheckContext
      <4>2. CASE readErr
        BY <4>1, <4>2 DEF StartNextReader
      <4>3. CASE ~ readErr
        BY <4>1, <4>3 DEF RInv, RTypes, StartNextReader
      <4> QED BY <4>2, <4>3
    <3> QED BY <3>1, <3>2
  <2> QED BY <2>1, <2>2, <2>3 DEF RInv, RTypes, CheckContext, streamVars, parseVars
<1>2. WellFormed'
  BY DEF RInv, WellFormed, CheckContext, streamVars
<1>3. InPlace'
  BY DEF RInv, RTypes, InPlace, CheckContext, StartNextReader, streamVars, parseVars
<1>4. Told'
  BY DEF RInv, Told, CheckContext, StartNextReader
<1>5. Counted'
  BY DEF RInv, Counted, Heads, CheckContext, StartNextReader, streamVars, parseVars
<1>6. Measured'
  BY DEF Measured, CheckContext, StartNextReader
<1>7. WatchEnds'
  <2>1. CASE rctx.done
    BY <2>1 DEF RInv, WatchEnds, CheckContext
  <2>2. CASE ~ rctx.done
    <3>1. step' \in {"stop", "skip", "frame"} /\ call' = call
      BY <2>2 DEF CheckContext, StartNextReader
    <3>2. call.ctx
      BY DEF RInv, WatchEnds, CheckContext
    <3> QED BY <3>1, <3>2 DEF WatchEnds
  <2> QED BY <2>1, <2>2
<1> QED BY <1>1, <1>2, <1>3, <1>4, <1>5, <1>6, <1>7 DEF RInv

LEMMA FetchKeeps ==
    ASSUME RInv, Fetch
    PROVE  RInv'
<1>1. RTypes'
  BY DEF RInv, RTypes, Fetch, streamVars, ctxVars, outVars
<1>2. WellFormed'
  BY DEF RInv, WellFormed, Fetch, streamVars
<1>3. InPlace'
  BY DEF RInv, InPlace, Fetch, streamVars, outVars
<1>4. Told'
  BY DEF RInv, Told, Fetch, outVars
<1>5. Counted'
  BY DEF RInv, Counted, Heads, Fetch, streamVars, outVars
<1>6. Measured'
  BY DEF RInv, Measured, Heads, Fetch, streamVars, outVars
<1>7. WatchEnds'
  BY DEF RInv, WatchEnds, Fetch, ctxVars
<1> QED BY <1>1, <1>2, <1>3, <1>4, <1>5, <1>6, <1>7 DEF RInv

LEMMA SkipKeeps ==
    ASSUME RInv, Skip
    PROVE  RInv'
<1>1. RTypes'
  BY DEF RInv, RTypes, Skip, streamVars, ctxVars, outVars
<1>2. WellFormed'
  BY DEF RInv, WellFormed, Skip, streamVars
<1>3. InPlace'
  BY DEF RInv, RTypes, InPlace, Skip, streamVars, outVars
<1>4. Told'
  BY DEF RInv, Told, Skip, outVars
<1>5. Counted'
  <2>1. stream[taken + 1].is = "byte"
    BY DEF RInv, RTypes, InPlace, Told, Skip
  <2>2. Heads(taken + 1) = Heads(taken) /\ Heads(taken) \in Nat
    BY <2>1, HeadsGrow DEF RInv, RTypes
  <2>3. Heads(taken)' = Heads(taken + 1)
    BY DEF Skip, streamVars, Heads
  <2> QED BY <2>2, <2>3 DEF RInv, Counted, Skip, outVars
<1>6. Measured'
  BY DEF RInv, Told, Measured, Skip, outVars
<1>7. WatchEnds'
  BY DEF RInv, WatchEnds, Skip, ctxVars
<1> QED BY <1>1, <1>2, <1>3, <1>4, <1>5, <1>6, <1>7 DEF RInv

LEMMA FrameKeeps ==
    ASSUME RInv, Frame
    PROVE  RInv'
<1>1. RTypes'
  <2>1. stream[taken + 1] \in Units
    BY DEF RInv, RTypes, Frame
  <2>2. remaining' \in Nat
    BY <2>1 DEF RInv, RTypes, Frame, Units
  <2>3. readDl' \in {"none", "ctx", "app", "past", "kick"}
    BY DEF RInv, RTypes, Frame
  <2>4. /\ step' \in {"frame", "stop"} /\ got' \in BOOLEAN
        /\ returned' \in {"nil", "timeout", "failed", "ctx"}
    BY DEF RInv, RTypes, Frame
  <2>5. taken' \in Nat /\ taken' <= fetched'
    BY DEF RInv, RTypes, Frame
  <2> QED BY <2>2, <2>3, <2>4, <2>5 DEF RInv, RTypes, Frame, streamVars, ctxVars
<1>2. WellFormed'
  BY DEF RInv, WellFormed, Frame, streamVars
<1>3. InPlace'
  <2>1. /\ stream' = stream /\ taken' = taken + 1 /\ lost' = lost
        /\ skipped = 0 /\ skipped' = 0 /\ remaining = 0
    BY DEF RInv, InPlace, Frame, streamVars
  <2>2. CASE stream[taken + 1].is = "pong"
    BY <2>1, <2>2 DEF InPlace, Frame
  <2>3. CASE stream[taken + 1].is = "head"
    <3>1. /\ taken + 1 \in 1..Len(stream) /\ remaining' = stream[taken + 1].len /\ step' = "stop"
          /\ stream[taken + 1] \in Units
      BY <2>1, <2>3 DEF RInv, RTypes, Frame
    <3>2. \A i \in 1..Len(stream) :
             taken + 1 < i /\ i <= taken + 1 + remaining' => stream[i].is = "byte"
      BY <2>3, <3>1 DEF RInv, WellFormed
    <3>3. remaining' \in Nat
      BY <3>1 DEF Units
    <3> QED BY <2>1, <3>1, <3>2, <3>3 DEF InPlace
  <2> QED BY <2>2, <2>3 DEF Frame
<1>4. Told'
  BY DEF RInv, Told, Frame
<1>5. Counted'
  <2>1. /\ Heads(taken) \in Nat
        /\ Heads(taken + 1) = IF stream[taken + 1].is = "head"
                              THEN Heads(taken) + 1 ELSE Heads(taken)
    BY HeadsGrow DEF RInv, RTypes
  <2>2. Heads(taken)' = Heads(taken + 1)
    BY DEF Frame, streamVars, Heads
  <2>3. ~ got /\ step = "frame" /\ handed' = handed /\ lost' = lost
    BY DEF RInv, Told, Frame
  <2>4. CASE stream[taken + 1].is = "pong"
    BY <2>1, <2>2, <2>3, <2>4 DEF RInv, Counted, Frame
  <2>5. CASE stream[taken + 1].is = "head"
    BY <2>1, <2>2, <2>3, <2>5 DEF RInv, RTypes, Counted, Frame
  <2> QED BY <2>4, <2>5 DEF Frame
<1>6. Measured'
  <2>1. ~ got
    BY DEF RInv, Told, Frame
  <2>2. CASE stream[taken + 1].is = "pong"
    BY <2>1, <2>2 DEF Frame, Measured
  <2>3. CASE stream[taken + 1].is = "head"
    <3>1. PICK k \in 1..taken' : k = taken + 1 /\ k = taken'
      BY DEF RInv, RTypes, Frame
    <3>2. stream'[k].is = "head" /\ remaining' = stream'[k].len
      BY <2>3, <3>1 DEF Frame, streamVars
    <3>3. Heads(k)' = Heads(taken)'
      BY <3>1
    <3>4. count' = 0 /\ remaining' \in Nat
      BY <1>1 DEF RTypes, Frame, RInv, Told
    <3> QED BY <3>2, <3>3, <3>4 DEF Measured
  <2> QED BY <2>2, <2>3 DEF Frame
<1>7. WatchEnds'
  BY DEF RInv, WatchEnds, Frame, ctxVars
<1> QED BY <1>1, <1>2, <1>3, <1>4, <1>5, <1>6, <1>7 DEF RInv

LEMMA ReadTimeoutKeeps ==
    ASSUME RInv, ReadTimeout
    PROVE  RInv'
<1>1. RTypes'
  <2>1. skipped' \in Nat /\ readErr' \in BOOLEAN
    <3>1. CASE step = "payload"
      BY <3>1 DEF RInv, RTypes, ReadTimeout
    <3>2. CASE step # "payload"
      BY <3>2 DEF RInv, RTypes, ReadTimeout
    <3> QED BY <3>1, <3>2
  <2>3. lost' \in BOOLEAN
    <3>1. CASE lost' = lost
      BY <3>1 DEF RInv, RTypes
    <3>2. CASE lost' = (lost \/ skipped > 0)
      BY <3>2, Zenon
    <3> QED BY <3>1, <3>2 DEF ReadTimeout
  <2>2. step' \in {"stop", "idle"} /\ returned' \in {"timeout", "failed"}
    BY DEF ReadTimeout
  <2> QED BY <2>1, <2>2, <2>3 DEF RInv, RTypes, ReadTimeout, streamVars, ctxVars
<1>2. WellFormed'
  BY DEF RInv, WellFormed, ReadTimeout, streamVars
<1>3. InPlace'
  <2>1. /\ stream' = stream /\ taken' = taken /\ remaining' = remaining
        /\ step' \notin {"skip", "frame"}
    BY DEF ReadTimeout, streamVars
  <2>2. skipped' = 0
    BY DEF RInv, InPlace, ReadTimeout
  <2>3. ~ lost' => ~ lost /\ skipped = 0
    <3>1. CASE step = "payload"
      BY <3>1 DEF RInv, InPlace, ReadTimeout
    <3>2. CASE step # "payload"
      <4>1. lost' = (lost \/ skipped > 0)
        BY <3>2 DEF ReadTimeout
      <4>2. ~ lost' => ~ lost /\ ~ (skipped > 0)
        BY <4>1, Zenon
      <4> QED BY <4>2 DEF RInv, RTypes
    <3> QED BY <3>1, <3>2
  <2> QED BY <2>1, <2>2, <2>3 DEF RInv, InPlace
<1>4. Told'
  BY DEF RInv, Told, ReadTimeout
<1>5. Counted'
  BY DEF RInv, Told, Counted, Heads, ReadTimeout, streamVars
<1>6. Measured'
  BY DEF Measured, ReadTimeout
<1>7. WatchEnds'
  BY DEF RInv, WatchEnds, ReadTimeout, ctxVars
<1> QED BY <1>1, <1>2, <1>3, <1>4, <1>5, <1>6, <1>7 DEF RInv

LEMMA ReturnKeeps ==
    ASSUME RInv, Return
    PROVE  RInv'
<1>1. RTypes'
  BY DEF RInv, RTypes, Return, HandOver, streamVars, parseVars, ctxVars
<1>2. WellFormed'
  BY DEF RInv, WellFormed, Return, streamVars
<1>3. InPlace'
  BY DEF RInv, InPlace, Return, HandOver, streamVars, parseVars
<1>4. Told'
  BY DEF RInv, Told, Return, HandOver
<1>5. Counted'
  <2>1. Heads(taken)' = Heads(taken) /\ lost' = lost
    BY DEF Heads, Return, streamVars, parseVars
  <2>2. step = "stop" /\ step' # "stop" /\ handed \in Nat
    BY DEF RInv, RTypes, Return, HandOver
  <2>3. handed' = handed + (IF got THEN 1 ELSE 0)
    BY <2>2 DEF RInv, Told, Return, HandOver
  <2> QED BY <2>1, <2>2, <2>3 DEF RInv, Counted
<1>6. Measured'
  BY DEF RInv, Told, Measured, Heads, Return, streamVars, parseVars
<1>7. WatchEnds'
  BY DEF RInv, WatchEnds, Return, HandOver, ctxVars
<1> QED BY <1>1, <1>2, <1>3, <1>4, <1>5, <1>6, <1>7 DEF RInv

LEMMA StopWatcherKeeps ==
    ASSUME RInv, StopWatcher
    PROVE  RInv'
<1>1. RTypes'
  BY DEF RInv, RTypes, StopWatcher, HandOver, ContextError, streamVars, parseVars, ctxVars
<1>2. WellFormed'
  BY DEF RInv, WellFormed, StopWatcher, streamVars
<1>3. InPlace'
  BY DEF RInv, InPlace, StopWatcher, HandOver, streamVars, parseVars
<1>4. Told'
  BY DEF RInv, Told, StopWatcher, HandOver, ContextError
<1>5. Counted'
  BY DEF RInv, Told, Counted, Heads, StopWatcher, HandOver, ContextError, streamVars, parseVars
<1>6. Measured'
  BY DEF RInv, Told, Measured, Heads, StopWatcher, streamVars, parseVars
<1>7. WatchEnds'
  BY DEF WatchEnds, StopWatcher, ctxVars
<1> QED BY <1>1, <1>2, <1>3, <1>4, <1>5, <1>6, <1>7 DEF RInv

LEMMA DeliverKeeps ==
    ASSUME RInv, Deliver
    PROVE  RInv'
<1>1. RTypes'
  BY DEF RInv, RTypes, Deliver, streamVars, ctxVars
<1>2. WellFormed'
  BY DEF RInv, WellFormed, Deliver, streamVars
<1>3. InPlace'
  BY DEF RInv, RTypes, InPlace, Deliver, streamVars
<1>4. Told'
  BY DEF RInv, Told, Deliver
<1>5. Counted'
  <2>1. stream[taken + 1].is = "byte"
    BY DEF RInv, RTypes, InPlace, Told, Deliver
  <2>2. Heads(taken + 1) = Heads(taken) /\ Heads(taken) \in Nat
    BY <2>1, HeadsGrow DEF RInv, RTypes
  <2>3. Heads(taken)' = Heads(taken + 1)
    BY DEF Deliver, streamVars, Heads
  <2> QED BY <2>2, <2>3 DEF RInv, Counted, Deliver
<1>6. Measured'
  <2>1. stream[taken + 1].is = "byte"
    BY DEF RInv, RTypes, InPlace, Told, Deliver
  <2>2. Heads(taken + 1) = Heads(taken) /\ Heads(taken) \in Nat
    BY <2>1, HeadsGrow DEF RInv, RTypes
  <2>3. Heads(taken)' = Heads(taken + 1)
    BY DEF Deliver, streamVars, Heads
  <2>4. PICK i \in 1..taken : /\ stream[i].is = "head" /\ Heads(i) = Heads(taken)
                              /\ count + remaining = stream[i].len
    BY DEF RInv, Measured, Told, Deliver
  <2>5. i \in 1..taken' /\ Heads(i)' = Heads(i)
    BY DEF RInv, RTypes, Deliver, streamVars, Heads
  <2>6. count' + remaining' = stream'[i].len /\ stream' = stream
    BY <2>4 DEF RInv, RTypes, Deliver, streamVars
  <2> QED BY <2>2, <2>3, <2>4, <2>5, <2>6 DEF Measured
<1>7. WatchEnds'
  BY DEF RInv, WatchEnds, Deliver, ctxVars
<1> QED BY <1>1, <1>2, <1>3, <1>4, <1>5, <1>6, <1>7 DEF RInv

LEMMA FinishKeeps ==
    ASSUME RInv, Finish
    PROVE  RInv'
<1>1. RTypes'
  BY DEF RInv, RTypes, Finish, streamVars, parseVars, ctxVars, outVars
<1>2. WellFormed'
  BY DEF RInv, WellFormed, Finish, streamVars
<1>3. InPlace'
  BY DEF RInv, InPlace, Finish, streamVars, parseVars, outVars
<1>4. Told'
  BY DEF RInv, Told, Finish, parseVars, ctxVars, outVars
<1>5. Counted'
  BY DEF RInv, Counted, Heads, Finish, streamVars, parseVars, outVars
<1>6. Measured'
  BY DEF RInv, Measured, Heads, Finish, streamVars, parseVars, outVars
<1>7. WatchEnds'
  BY DEF RInv, WatchEnds, Finish, ctxVars
<1> QED BY <1>1, <1>2, <1>3, <1>4, <1>5, <1>6, <1>7 DEF RInv

LEMMA WatcherFiresKeeps ==
    ASSUME RInv, WatcherFires
    PROVE  RInv'
<1>1. RTypes'
  BY DEF RInv, RTypes, WatcherFires, streamVars, parseVars, outVars
<1>2. WellFormed'
  BY DEF RInv, WellFormed, WatcherFires, streamVars
<1>3. InPlace'
  BY DEF RInv, InPlace, WatcherFires, streamVars, parseVars, outVars
<1>4. Told'
  BY DEF RInv, Told, WatcherFires, parseVars, outVars
<1>5. Counted'
  BY DEF RInv, Counted, Heads, WatcherFires, streamVars, parseVars, outVars
<1>6. Measured'
  BY DEF RInv, Measured, Heads, WatcherFires, streamVars, parseVars, outVars
<1>7. WatchEnds'
  BY DEF RInv, WatchEnds, WatcherFires
<1> QED BY <1>1, <1>2, <1>3, <1>4, <1>5, <1>6, <1>7 DEF RInv

LEMMA WatcherQuitsKeeps ==
    ASSUME RInv, WatcherQuits
    PROVE  RInv'
<1>1. RTypes'
  BY DEF RInv, RTypes, WatcherQuits, streamVars, parseVars, outVars
<1>2. WellFormed'
  BY DEF RInv, WellFormed, WatcherQuits, streamVars
<1>3. InPlace'
  BY DEF RInv, InPlace, WatcherQuits, streamVars, parseVars, outVars
<1>4. Told'
  BY DEF RInv, Told, WatcherQuits, outVars
<1>5. Counted'
  BY DEF RInv, Counted, Heads, WatcherQuits, streamVars, parseVars, outVars
<1>6. Measured'
  BY DEF RInv, Measured, Heads, WatcherQuits, streamVars, parseVars, outVars
<1>7. WatchEnds'
  BY DEF RInv, WatchEnds, WatcherQuits
<1> QED BY <1>1, <1>2, <1>3, <1>4, <1>5, <1>6, <1>7 DEF RInv

LEMMA ContextDoneKeeps ==
    ASSUME RInv, ContextDone
    PROVE  RInv'
<1>1. RTypes'
  <2>1. rctx' \in [dl : BOOLEAN, done : BOOLEAN]
    BY DEF RInv, RTypes, ContextDone
  <2> QED BY <2>1 DEF RInv, RTypes, ContextDone, streamVars, parseVars, outVars
<1>2. WellFormed'
  BY DEF RInv, WellFormed, ContextDone, streamVars
<1>3. InPlace'
  BY DEF RInv, InPlace, ContextDone, streamVars, parseVars, outVars
<1>4. Told'
  BY DEF RInv, Told, ContextDone, outVars
<1>5. Counted'
  BY DEF RInv, Counted, Heads, ContextDone, streamVars, parseVars, outVars
<1>6. Measured'
  BY DEF RInv, Measured, Heads, ContextDone, streamVars, parseVars, outVars
<1>7. WatchEnds'
  BY DEF RInv, WatchEnds, ContextDone
<1> QED BY <1>1, <1>2, <1>3, <1>4, <1>5, <1>6, <1>7 DEF RInv

LEMMA DeadlinePassesKeeps ==
    ASSUME RInv, DeadlinePasses
    PROVE  RInv'
<1>1. RTypes'
  BY DEF RInv, RTypes, DeadlinePasses, streamVars, parseVars, ctxVars, outVars
<1>2. WellFormed'
  BY DEF RInv, WellFormed, DeadlinePasses, streamVars
<1>3. InPlace'
  BY DEF RInv, InPlace, DeadlinePasses, streamVars, parseVars, outVars
<1>4. Told'
  BY DEF RInv, Told, DeadlinePasses, parseVars, ctxVars, outVars
<1>5. Counted'
  BY DEF RInv, Counted, Heads, DeadlinePasses, streamVars, parseVars, outVars
<1>6. Measured'
  BY DEF RInv, Measured, Heads, DeadlinePasses, streamVars, parseVars, outVars
<1>7. WatchEnds'
  BY DEF RInv, WatchEnds, DeadlinePasses, ctxVars
<1> QED BY <1>1, <1>2, <1>3, <1>4, <1>5, <1>6, <1>7 DEF RInv

LEMMA SetReadDeadlineKeeps ==
    ASSUME RInv, SetReadDeadline
    PROVE  RInv'
<1>1. RTypes'
  BY DEF RInv, RTypes, SetReadDeadline, streamVars, parseVars, ctxVars, outVars
<1>2. WellFormed'
  BY DEF RInv, WellFormed, SetReadDeadline, streamVars
<1>3. InPlace'
  BY DEF RInv, InPlace, SetReadDeadline, streamVars, parseVars, outVars
<1>4. Told'
  BY DEF RInv, Told, SetReadDeadline, parseVars, ctxVars, outVars
<1>5. Counted'
  BY DEF RInv, Counted, Heads, SetReadDeadline, streamVars, parseVars, outVars
<1>6. Measured'
  BY DEF RInv, Measured, Heads, SetReadDeadline, streamVars, parseVars, outVars
<1>7. WatchEnds'
  BY DEF RInv, WatchEnds, SetReadDeadline, ctxVars
<1> QED BY <1>1, <1>2, <1>3, <1>4, <1>5, <1>6, <1>7 DEF RInv

LEMMA ArriveKeeps ==
    ASSUME RInv, Arrive
    PROVE  RInv'
<1>1. RTypes'
  BY DEF RInv, RTypes, Arrive, streamVars, parseVars, ctxVars, outVars
<1>2. WellFormed'
  BY DEF RInv, WellFormed, Arrive, streamVars
<1>3. InPlace'
  BY DEF RInv, InPlace, Arrive, streamVars, parseVars, outVars
<1>4. Told'
  BY DEF RInv, Told, Arrive, parseVars, ctxVars, outVars
<1>5. Counted'
  BY DEF RInv, Counted, Heads, Arrive, streamVars, parseVars, outVars
<1>6. Measured'
  BY DEF RInv, Measured, Heads, Arrive, streamVars, parseVars, outVars
<1>7. WatchEnds'
  BY DEF RInv, WatchEnds, Arrive, ctxVars
<1> QED BY <1>1, <1>2, <1>3, <1>4, <1>5, <1>6, <1>7 DEF RInv

LEMMA ReadInitial ==
    ASSUME NEW streams, ReadInit(streams), streams \subseteq Streams \cup {<<>>}
    PROVE  RInv
<1>1. stream \in Seq(Units) /\ WellFormed
  <2>1. CASE stream \in Streams
    BY <2>1, StreamsAssumption DEF WellFormed, Units
  <2>2. CASE stream = <<>>
    BY <2>2 DEF WellFormed
  <2> QED BY <2>1, <2>2 DEF ReadInit
<1>2. RTypes
  <2>1. Len(stream) \in Nat /\ 0 <= Len(stream)
    BY <1>1
  <2>2. /\ rctx \in [dl : BOOLEAN, done : BOOLEAN] /\ call \in Calls
        /\ readErr \in BOOLEAN /\ got \in BOOLEAN /\ lost \in BOOLEAN /\ handler \in BOOLEAN
    BY DEF ReadInit, Calls
  <2> QED BY <1>1, <2>1, <2>2 DEF ReadInit, RTypes
<1>3. InPlace /\ Told /\ Measured /\ WatchEnds
  BY DEF ReadInit, InPlace, Told, Measured, WatchEnds
<1>4. Counted
  BY NoHeads DEF ReadInit, Counted
<1> QED BY <1>1, <1>2, <1>3, <1>4 DEF RInv

LEMMA ReadStep ==
    ASSUME RInv, ReadNext
    PROVE  RInv'
BY ReadCallKeeps, CheckContextKeeps, FetchKeeps, SkipKeeps, FrameKeeps, ReadTimeoutKeeps,
   ReturnKeeps, StopWatcherKeeps, DeliverKeeps, FinishKeeps, WatcherFiresKeeps,
   WatcherQuitsKeeps, ContextDoneKeeps, DeadlinePassesKeeps, SetReadDeadlineKeeps, ArriveKeeps
   DEF ReadNext, Reading, Watcher

LEMMA ReadStutter ==
    ASSUME RInv, UNCHANGED readVars
    PROVE  RInv'
<1> USE DEF readVars, streamVars, parseVars, ctxVars, outVars
<1>1. RTypes' /\ WellFormed' /\ InPlace' /\ Told' /\ WatchEnds'
  BY DEF RInv, RTypes, WellFormed, InPlace, Told, WatchEnds
<1>2. Counted' /\ Measured'
  BY DEF RInv, Counted, Measured, Heads
<1> QED BY <1>1, <1>2 DEF RInv

(* What the invariant says to the caller.                                  *)
LEMMA ReadSafe == RInv => NoStaleReadKick /\ NothingLost
<1> SUFFICES ASSUME RInv PROVE NoStaleReadKick /\ NothingLost
  OBVIOUS
<1>1. NoStaleReadKick
  BY DEF RInv, WatchEnds, NoStaleReadKick
<1>2. step \in {"idle", "payload"} /\ ~ lost => handed = Heads(taken)
  BY DEF RInv, RTypes, Counted
<1>3. ASSUME step = "idle", call.whole, returned = "nil", got
      PROVE  \E i \in 1..taken : /\ stream[i].is = "head" /\ Heads(i) = handed
                                 /\ count = stream[i].len
  <2>1. ~ lost /\ remaining = 0
    BY <1>3 DEF RInv, Told
  <2>2. PICK i \in 1..taken : /\ stream[i].is = "head" /\ Heads(i) = Heads(taken)
                              /\ count + remaining = stream[i].len
    BY <1>3 DEF RInv, Measured
  <2> QED BY <1>2, <1>3, <2>1, <2>2 DEF RInv, RTypes
<1> QED BY <1>1, <1>2, <1>3 DEF NothingLost
-----------------------------------------------------------------------------
(* Writing.  A watchdog runs only inside of a call that has one, between   *)
(* its start and its stop.                                                 *)
WTypes ==
    /\ pc \in [Procs -> {"idle", "enter", "acquire", "begin", "open", "wantMu", "net", "stop"}]
    /\ method \in [Procs -> Methods]
    /\ dog \in [Procs -> {"none", "watch", "fired", "quit"}]
    /\ sent \in [Procs -> BOOLEAN]
    /\ err \in [Procs -> {"nil", "timeout", "failed", "ctx"}]
    /\ calls \in [Procs -> Nat]
    /\ writeErr \in {"nil", "failed"}
    /\ connDl \in Deadlines /\ wait \in [Procs -> Deadlines]
    /\ ctx \in [Procs -> [dl : {"none", "future"}, done : BOOLEAN]]

DogInCall(p) ==
    /\ pc[p] \in {"idle", "open"} => dog[p] = "none"
    /\ pc[p] = "stop" => dog[p] # "none"
    /\ dog[p] # "none" => method[p] \in Watched
    /\ pc[p] \in {"enter", "acquire", "begin"} => (dog[p] # "none" <=> method[p] \in Watched)
    /\ pc[p] \in {"wantMu", "net"} /\ dog[p] = "none" => method[p] \in {"message", "writerCtx"}
    /\ pc[p] = "open" => method[p] = "writerCtx"
    /\ pc[p] \in {"wantMu", "net"} /\ method[p] = "writerCtx" => dog[p] = "none"

(* What a call is going to return tells whether its frame has gone; the    *)
(* exception is NextWriterContext, which has sent nothing when it returns. *)
ErrTells(p) ==
    /\ pc[p] = "idle" /\ calls[p] > 0 => (err[p] = "nil" <=> sent[p])
    /\ pc[p] = "stop" /\ method[p] # "writerCtx" => (err[p] = "nil" <=> sent[p])
    /\ pc[p] = "stop" /\ method[p] = "writerCtx" => ~ sent[p]
    /\ pc[p] \notin {"idle", "stop"} => ~ sent[p]

KickHasDog == netDl = "kick" => \E p \in Procs : dog[p] = "fired"

WInv ==
    /\ WTypes
    /\ \A p \in Procs : DogInCall(p) /\ ErrTells(p)
    /\ KickHasDog

(* A step of p leaves the others as they are.                              *)
StepOf(p) ==
    /\ WTypes'
    /\ \A q \in Procs \ {p} : /\ pc'[q] = pc[q] /\ method'[q] = method[q] /\ dog'[q] = dog[q]
                              /\ sent'[q] = sent[q] /\ err'[q] = err[q] /\ calls'[q] = calls[q]
    /\ DogInCall(p)' /\ ErrTells(p)'
    /\ KickHasDog'

LEMMA WriteInit == Init => WInv
BY DEF Init, WInv, WTypes, DogInCall, ErrTells, KickHasDog, Methods, Deadlines, NoContext

LEMMA OneSteps ==
    ASSUME WInv, NEW p \in Procs, StepOf(p)
    PROVE  WInv'
BY DEF WInv, StepOf, DogInCall, ErrTells

LEMMA EnterKeeps ==
    ASSUME WInv, NEW p \in Procs, Enter(p)
    PROVE  WInv'
<1>1. WTypes'
  <2>1. PICK d \in Deadlines :
           IF d = "past" THEN Leave(p, "timeout") /\ UNCHANGED wait
           ELSE /\ wait' = [wait EXCEPT ![p] = d]
                /\ Goto(p, IF method[p] = "controlCtx" THEN "wantMu" ELSE "acquire")
                /\ UNCHANGED err
    BY DEF WInv, WTypes, Deadlines, Enter
  <2>2. CASE d = "past"
    BY <2>1, <2>2 DEF WInv, WTypes, Enter, Leave, Goto
  <2>3. CASE d # "past"
    BY <2>1, <2>3 DEF WInv, WTypes, Enter, Goto
  <2> QED BY <2>2, <2>3
<1>2. \A q \in Procs \ {p} : /\ pc'[q] = pc[q] /\ method'[q] = method[q] /\ dog'[q] = dog[q]
                              /\ sent'[q] = sent[q] /\ err'[q] = err[q] /\ calls'[q] = calls[q]
  BY DEF WInv, WTypes, Enter, Goto, Leave
<1>3. DogInCall(p)'
  BY DEF WInv, WTypes, DogInCall, Enter, Goto, Leave, Watched
<1>4. ErrTells(p)'
  BY DEF WInv, WTypes, ErrTells, Enter, Goto, Leave
<1>5. KickHasDog'
  BY DEF WInv, KickHasDog, Enter
<1> QED BY <1>1, <1>2, <1>3, <1>4, <1>5, OneSteps DEF StepOf

LEMMA AcquireWriteMuKeeps ==
    ASSUME WInv, NEW p \in Procs, AcquireWriteMu(p)
    PROVE  WInv'
<1>1. WTypes'
  BY DEF WInv, WTypes, Deadlines, AcquireWriteMu, Goto, Waited
<1>2. \A q \in Procs \ {p} : /\ pc'[q] = pc[q] /\ method'[q] = method[q] /\ dog'[q] = dog[q]
                              /\ sent'[q] = sent[q] /\ err'[q] = err[q] /\ calls'[q] = calls[q]
  BY DEF AcquireWriteMu, Goto
<1>3. DogInCall(p)'
  BY DEF WInv, DogInCall, AcquireWriteMu, Goto
<1>4. ErrTells(p)'
  BY DEF WInv, ErrTells, AcquireWriteMu, Goto
<1>5. KickHasDog'
  BY DEF WInv, KickHasDog, AcquireWriteMu
<1> QED BY <1>1, <1>2, <1>3, <1>4, <1>5, OneSteps DEF StepOf

LEMMA WaitTimeoutKeeps ==
    ASSUME WInv, NEW p \in Procs, WaitTimeout(p)
    PROVE  WInv'
<1>1. WTypes'
  BY DEF WInv, WTypes, Deadlines, WaitTimeout, Goto, Leave, Waited
<1>2. \A q \in Procs \ {p} : /\ pc'[q] = pc[q] /\ method'[q] = method[q] /\ dog'[q] = dog[q]
                              /\ sent'[q] = sent[q] /\ err'[q] = err[q] /\ calls'[q] = calls[q]
  BY DEF WaitTimeout, Goto, Leave
<1>3. DogInCall(p)'
  BY DEF WInv, DogInCall, WaitTimeout, Goto, Leave
<1>4. ErrTells(p)'
  BY DEF WInv, WTypes, ErrTells, WaitTimeout, Leave
<1>5. KickHasDog'
  BY DEF WInv, KickHasDog, WaitTimeout
<1> QED BY <1>1, <1>2, <1>3, <1>4, <1>5, OneSteps DEF StepOf

LEMMA BeginKeeps ==
    ASSUME WInv, NEW p \in Procs, Begin(p)
    PROVE  WInv'
<1>1. WTypes'
  <2>1. CASE writeErr # "nil"
    <3>1. err' = [err EXCEPT ![p] = writeErr] /\ wait' = wait
      BY <2>1 DEF Begin, Leave
    <3>2. pc' = [pc EXCEPT ![p] = "stop"] \/ pc' = [pc EXCEPT ![p] = "idle"]
      BY <2>1 DEF Begin, Leave, Goto
    <3> QED BY <2>1, <3>1, <3>2 DEF WInv, WTypes, Begin
  <2>2. CASE writeErr = "nil" /\ method[p] = "writerCtx"
    BY <2>2 DEF WInv, WTypes, Begin, Leave, Goto
  <2>3. CASE writeErr = "nil" /\ method[p] # "writerCtx"
    <3>1. pc' = [pc EXCEPT ![p] = "wantMu"] /\ wait' = [wait EXCEPT ![p] = connDl] /\ err' = err
      BY <2>3 DEF Begin, Goto
    <3> QED BY <2>3, <3>1 DEF WInv, WTypes, Begin
  <2> QED BY <2>1, <2>2, <2>3
<1>2. \A q \in Procs \ {p} : /\ pc'[q] = pc[q] /\ method'[q] = method[q] /\ dog'[q] = dog[q]
                              /\ sent'[q] = sent[q] /\ err'[q] = err[q] /\ calls'[q] = calls[q]
  BY DEF WInv, WTypes, Begin, Goto, Leave
<1>3. DogInCall(p)'
  BY DEF WInv, WTypes, DogInCall, Methods, Begin, Goto, Leave, Watched
<1>4. ErrTells(p)'
  BY DEF WInv, WTypes, ErrTells, Begin, Goto, Leave, Watched
<1>5. KickHasDog'
  BY DEF WInv, KickHasDog, Begin
<1> QED BY <1>1, <1>2, <1>3, <1>4, <1>5, OneSteps DEF StepOf

LEMMA TakeMuKeeps ==
    ASSUME WInv, NEW p \in Procs, TakeMu(p)
    PROVE  WInv'
<1>1. WTypes'
  <2>1. CASE writeErr = "nil"
    BY <2>1 DEF WInv, WTypes, Deadlines, TakeMu, Waited, Goto
  <2>2. CASE writeErr # "nil"
    <3>1. wait' \in [Procs -> Deadlines]
      BY DEF WInv, WTypes, Deadlines, TakeMu, Waited
    <3>2. err' \in [Procs -> {"nil", "timeout", "failed", "ctx"}]
      BY <2>2 DEF WInv, WTypes, TakeMu, FrameOver
    <3>3. pc' = [pc EXCEPT ![p] = IF dog[p] = "none" THEN "idle" ELSE "stop"]
      BY <2>2 DEF TakeMu, FrameOver, Goto
    <3> QED BY <3>1, <3>2, <3>3 DEF WInv, WTypes, TakeMu
  <2> QED BY <2>1, <2>2
<1>2. \A q \in Procs \ {p} : /\ pc'[q] = pc[q] /\ method'[q] = method[q] /\ dog'[q] = dog[q]
                              /\ sent'[q] = sent[q] /\ err'[q] = err[q] /\ calls'[q] = calls[q]
  BY DEF WInv, WTypes, TakeMu, Goto, FrameOver
<1>3. DogInCall(p)'
  BY DEF WInv, WTypes, DogInCall, TakeMu, Goto, FrameOver
<1>4. ErrTells(p)'
  BY DEF WInv, WTypes, ErrTells, TakeMu, Goto, FrameOver
<1>5. KickHasDog'
  BY DEF WInv, WTypes, KickHasDog, Deadlines, TakeMu
<1> QED BY <1>1, <1>2, <1>3, <1>4, <1>5, OneSteps DEF StepOf

LEMMA WriteTimeoutKeeps ==
    ASSUME WInv, NEW p \in Procs, WriteTimeout(p)
    PROVE  WInv'
<1>1. WTypes'
  BY DEF WInv, WTypes, WriteTimeout, Goto, FrameOver
<1>2. \A q \in Procs \ {p} : /\ pc'[q] = pc[q] /\ method'[q] = method[q] /\ dog'[q] = dog[q]
                              /\ sent'[q] = sent[q] /\ err'[q] = err[q] /\ calls'[q] = calls[q]
  BY DEF WriteTimeout, Goto, FrameOver
<1>3. DogInCall(p)'
  BY DEF WInv, DogInCall, WriteTimeout, Goto, FrameOver
<1>4. ErrTells(p)'
  BY DEF WInv, WTypes, ErrTells, WriteTimeout, FrameOver
<1>5. KickHasDog'
  BY DEF WInv, KickHasDog, WriteTimeout
<1> QED BY <1>1, <1>2, <1>3, <1>4, <1>5, OneSteps DEF StepOf

LEMMA FireKeeps ==
    ASSUME WInv, NEW p \in Procs, Fire(p)
    PROVE  WInv'
<1>1. WTypes'
  BY DEF WInv, WTypes, Fire
<1>2. \A q \in Procs \ {p} : /\ pc'[q] = pc[q] /\ method'[q] = method[q] /\ dog'[q] = dog[q]
                              /\ sent'[q] = sent[q] /\ err'[q] = err[q] /\ calls'[q] = calls[q]
  BY DEF Fire
<1>3. DogInCall(p)'
  BY DEF WInv, DogInCall, Fire
<1>4. ErrTells(p)'
  BY DEF WInv, ErrTells, Fire
<1>5. KickHasDog'
  BY DEF WInv, WTypes, KickHasDog, Fire
<1> QED BY <1>1, <1>2, <1>3, <1>4, <1>5, OneSteps DEF StepOf

LEMMA QuitKeeps ==
    ASSUME WInv, NEW p \in Procs, Quit(p)
    PROVE  WInv'
<1>1. WTypes'
  BY DEF WInv, WTypes, Quit
<1>2. \A q \in Procs \ {p} : /\ pc'[q] = pc[q] /\ method'[q] = method[q] /\ dog'[q] = dog[q]
                              /\ sent'[q] = sent[q] /\ err'[q] = err[q] /\ calls'[q] = calls[q]
  BY DEF Quit
<1>3. DogInCall(p)'
  BY DEF WInv, DogInCall, Quit
<1>4. ErrTells(p)'
  BY DEF WInv, ErrTells, Quit
<1>5. KickHasDog'
  BY DEF WInv, KickHasDog, Quit
<1> QED BY <1>1, <1>2, <1>3, <1>4, <1>5, OneSteps DEF StepOf

LEMMA StopKeeps ==
    ASSUME WInv, NEW p \in Procs, Stop(p)
    PROVE  WInv'
<1>1. WTypes'
  BY DEF WInv, WTypes, Stop, Goto, NoContext
<1>2. \A q \in Procs \ {p} : /\ pc'[q] = pc[q] /\ method'[q] = method[q] /\ dog'[q] = dog[q]
                              /\ sent'[q] = sent[q] /\ err'[q] = err[q] /\ calls'[q] = calls[q]
  BY DEF Stop, Goto
<1>3. DogInCall(p)'
  BY DEF WInv, WTypes, DogInCall, Stop, Goto
<1>4. ErrTells(p)'
  BY DEF WInv, ErrTells, Stop, Goto
<1>5. KickHasDog'
  BY DEF KickHasDog, Stop
<1> QED BY <1>1, <1>2, <1>3, <1>4, <1>5, OneSteps DEF StepOf

LEMMA CloseWriterKeeps ==
    ASSUME WInv, NEW p \in Procs, CloseWriter(p)
    PROVE  WInv'
<1>1. WTypes'
  BY DEF WInv, WTypes, CloseWriter, Goto
<1>2. \A q \in Procs \ {p} : /\ pc'[q] = pc[q] /\ method'[q] = method[q] /\ dog'[q] = dog[q]
                              /\ sent'[q] = sent[q] /\ err'[q] = err[q] /\ calls'[q] = calls[q]
  BY DEF CloseWriter, Goto
<1>3. DogInCall(p)'
  BY DEF WInv, DogInCall, CloseWriter, Goto
<1>4. ErrTells(p)'
  BY DEF WInv, ErrTells, CloseWriter, Goto
<1>5. KickHasDog'
  BY DEF WInv, KickHasDog, CloseWriter
<1> QED BY <1>1, <1>2, <1>3, <1>4, <1>5, OneSteps DEF StepOf

LEMMA CallDoneKeeps ==
    ASSUME WInv, NEW p \in Procs, CallDone(p)
    PROVE  WInv'
<1>1. WTypes'
  BY DEF WInv, WTypes, CallDone
<1>2. \A q \in Procs \ {p} : /\ pc'[q] = pc[q] /\ method'[q] = method[q] /\ dog'[q] = dog[q]
                              /\ sent'[q] = sent[q] /\ err'[q] = err[q] /\ calls'[q] = calls[q]
  BY DEF CallDone
<1>3. DogInCall(p)'
  BY DEF WInv, DogInCall, CallDone
<1>4. ErrTells(p)'
  BY DEF WInv, WTypes, ErrTells, CallDone
<1>5. KickHasDog'
  BY DEF WInv, KickHasDog, CallDone
<1> QED BY <1>1, <1>2, <1>3, <1>4, <1>5, OneSteps DEF StepOf

LEMMA CallKeeps ==
    ASSUME WInv, NEW p \in Procs, Call(p)
    PROVE  WInv'
<1>1. WTypes'
  BY DeadlinesAssumption DEF WInv, WTypes, Deadlines, Call, Goto
<1>2. \A q \in Procs \ {p} : /\ pc'[q] = pc[q] /\ method'[q] = method[q] /\ dog'[q] = dog[q]
                              /\ sent'[q] = sent[q] /\ err'[q] = err[q] /\ calls'[q] = calls[q]
  BY DEF Call, Goto
<1>3. DogInCall(p)'
  BY DEF WInv, WTypes, DogInCall, Call, Goto
<1>4. ErrTells(p)'
  BY DEF WInv, WTypes, ErrTells, Call, Goto
<1>5. KickHasDog'
  BY DEF WInv, DogInCall, KickHasDog, Call
<1> QED BY <1>1, <1>2, <1>3, <1>4, <1>5, OneSteps DEF StepOf

LEMMA WrittenKeeps ==
    ASSUME WInv, NEW p \in Procs, Written(p)
    PROVE  WInv'
<1>1. WTypes'
  BY DEF WInv, WTypes, Written, Goto, FrameOver
<1>2. \A q \in Procs \ {p} : /\ pc'[q] = pc[q] /\ method'[q] = method[q] /\ dog'[q] = dog[q]
                              /\ sent'[q] = sent[q] /\ err'[q] = err[q] /\ calls'[q] = calls[q]
  BY DEF Written, Goto, FrameOver
<1>3. DogInCall(p)'
  BY DEF WInv, DogInCall, Written, Goto, FrameOver
<1>4. ErrTells(p)'
  BY DEF WInv, WTypes, DogInCall, ErrTells, Written, Goto, FrameOver
<1>5. KickHasDog'
  BY DEF KickHasDog, Written
<1> QED BY <1>1, <1>2, <1>3, <1>4, <1>5, OneSteps DEF StepOf

LEMMA CtxDoneKeeps ==
    ASSUME WInv, NEW p \in Procs, CtxDone(p)
    PROVE  WInv'
<1>1. WTypes'
  BY BoundAssumption DEF WInv, WTypes, CtxDone
<1>2. \A q \in Procs \ {p} : /\ pc'[q] = pc[q] /\ method'[q] = method[q] /\ dog'[q] = dog[q]
                              /\ sent'[q] = sent[q] /\ err'[q] = err[q] /\ calls'[q] = calls[q]
  BY DEF CtxDone
<1>3. DogInCall(p)'
  BY DEF WInv, DogInCall, CtxDone
<1>4. ErrTells(p)'
  BY DEF WInv, ErrTells, CtxDone
<1>5. KickHasDog'
  BY DEF WInv, KickHasDog, CtxDone
<1> QED BY <1>1, <1>2, <1>3, <1>4, <1>5, OneSteps DEF StepOf

LEMMA WriteNext == WInv /\ [Next]_vars => WInv'
<1> SUFFICES ASSUME WInv, [Next]_vars PROVE WInv'
  OBVIOUS
<1>1. CASE Expire
  <2>1. WTypes'
    BY <1>1 DEF WInv, WTypes, Deadlines, Expire
  <2> QED BY <1>1, <2>1 DEF WInv, DogInCall, ErrTells, KickHasDog, Expire
<1>2. CASE UNCHANGED vars
  BY <1>2 DEF WInv, WTypes, DogInCall, ErrTells, KickHasDog, vars
<1> QED
  BY <1>1, <1>2, EnterKeeps, AcquireWriteMuKeeps, WaitTimeoutKeeps, BeginKeeps, TakeMuKeeps,
     WriteTimeoutKeeps, FireKeeps, QuitKeeps, StopKeeps, CloseWriterKeeps, CallDoneKeeps,
     CallKeeps, WrittenKeeps, CtxDoneKeeps DEF Next, CodeStep
-----------------------------------------------------------------------------
(* What the invariant says to the writers.                                 *)
LEMMA WriteSafe == WInv => NoStaleKick /\ CtxHonest
BY DEF WInv, DogInCall, ErrTells, KickHasDog, NoStaleKick, CtxHonest

(* Both halves together: one of them rests.                                *)
LEMMA BothInvariant == BothSpec => [](RInv /\ WInv)
<1>1. BothInit => RInv /\ WInv
  BY ReadInitial, WriteInit DEF BothInit
<1>2. RInv /\ WInv /\ [BothNext]_bothVars => (RInv /\ WInv)'
  <2> SUFFICES ASSUME RInv, WInv, [BothNext]_bothVars PROVE RInv' /\ WInv'
    OBVIOUS
  <2>1. CASE ReadNext /\ UNCHANGED vars
    BY <2>1, ReadStep, WriteNext
  <2>2. CASE Next /\ UNCHANGED readVars
    BY <2>2, ReadStutter, WriteNext
  <2>3. CASE UNCHANGED bothVars
    BY <2>3, ReadStutter, WriteNext DEF bothVars
  <2> QED BY <2>1, <2>2, <2>3 DEF BothNext
<1> QED BY <1>1, <1>2, PTL DEF BothSpec

(* No write finds the deadline of a watchdog whose call is over            *)
(* (conn.go:517).                                                          *)
THEOREM WriteKickEnds == BothSpec => []NoStaleKick
BY BothInvariant, WriteSafe, PTL

(* A write with a context returns nil exactly when its message went        *)
(* (conn.go:1097).                                                         *)
THEOREM SentIsNil == BothSpec => []CtxHonest
BY BothInvariant, WriteSafe, PTL

(* No reader finds the deadline of a watchdog or a context whose call is   *)
(* over (conn.go:1614).                                                    *)
THEOREM ReadKickEnds == BothSpec => []NoStaleReadKick
BY BothInvariant, ReadSafe, PTL

(* No message that was taken off the stream is lost to a context           *)
(* (conn.go:1625).                                                         *)
THEOREM ReceivedIsHandedOver == BothSpec => []NothingLost
BY BothInvariant, ReadSafe, PTL
=============================================================================
