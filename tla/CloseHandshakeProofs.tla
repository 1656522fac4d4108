------------------------- MODULE CloseHandshakeProofs -------------------------
(***************************************************************************)
(* Proofs about CloseHandshake for pipes of any size and any number of     *)
(* messages: a close frame is the last thing a side sends, although the    *)
(* echo of the close handler, CloseGracefully and the writers race for it; *)
(* and both sides get the other's, unless a deadline fires.                *)
(***************************************************************************)
EXTENDS CloseHandshake, SequenceTheorems, TLAPS

Types ==
    /\ pipe \in [Sides -> Seq(Frames)]
    /\ writeErr \in [Sides -> {"nil", "closeSent", "failed"}]
    /\ mu \in [Sides -> BOOLEAN]
    /\ pc \in [Sides -> {"read", "wantMu", "write", "teardown", "done"}]
    /\ wpc \in [Sides -> {"idle", "write"}]
    /\ reason \in [Sides -> {"none", "ping", "echo", "graceful"}]

(* Whoever is about to write holds mu, alone, and has seen no error.       *)
Exclusive ==
    \A s \in Sides :
        /\ (pc[s] = "write" \/ wpc[s] = "write") => ~mu[s] /\ writeErr[s] = "nil"
        /\ ~(pc[s] = "write" /\ wpc[s] = "write")

(* A close frame in the pipe is the last one, and recorded.                *)
LastOne(s) ==
    \A i \in DOMAIN pipe[s] :
        pipe[s][i] = "close" => i = Len(pipe[s]) /\ writeErr[s] = "closeSent"

Inv == Types /\ Exclusive /\ \A s \in Sides : LastOne(s)
-----------------------------------------------------------------------------
LEMMA OtherSide == \A s \in Sides : Other(s) \in Sides /\ Other(s) # s
BY DEF Sides, Other

LEMMA InitInv == Init => Inv
BY DEF Init, Inv, Types, Exclusive, LastOne

LEMMA AppendOne ==
    ASSUME NEW q \in Seq(Frames), NEW f \in Frames
    PROVE  /\ Append(q, f) \in Seq(Frames)
           /\ Len(Append(q, f)) = Len(q) + 1
           /\ \A i \in 1..Len(q) : Append(q, f)[i] = q[i]
           /\ Append(q, f)[Len(q) + 1] = f
OBVIOUS

LEMMA TailOf ==
    ASSUME NEW q \in Seq(Frames), q # <<>>
    PROVE  /\ Tail(q) \in Seq(Frames) /\ Len(Tail(q)) = Len(q) - 1
           /\ \A i \in 1..Len(Tail(q)) : Tail(q)[i] = q[i + 1]
OBVIOUS

LEMMA TailOfOne ==
    ASSUME NEW q \in Seq(Frames), Len(q) = 1
    PROVE  Tail(q) = <<>>
<1>1. q # <<>> /\ Tail(q) \in Seq(Frames) /\ Len(Tail(q)) = 0
  BY TailOf
<1> QED BY <1>1, EmptySeq

(* A side that puts a frame behind others puts it behind no close frame.   *)
LEMMA PutLast ==
    ASSUME Types, NEW s \in Sides, NEW f \in Frames, LastOne(s), Put(s, f),
           writeErr[s] = "nil",
           f = "close" => writeErr'[s] = "closeSent"
    PROVE  LastOne(s)' /\ pipe' \in [Sides -> Seq(Frames)]
<1>1. pipe[s] \in Seq(Frames) /\ pipe'[s] = Append(pipe[s], f)
  BY DEF Types, Put
<1>2. \A i \in 1..Len(pipe[s]) : pipe[s][i] # "close"
  BY <1>1 DEF LastOne
<1>3. ASSUME NEW i \in DOMAIN pipe'[s], pipe'[s][i] = "close"
      PROVE  i = Len(pipe'[s]) /\ writeErr'[s] = "closeSent"
  <2>1. i \in 1..(Len(pipe[s]) + 1)
    BY <1>1, <1>3, AppendOne
  <2>2. i \notin 1..Len(pipe[s])
    BY <1>1, <1>2, <1>3, AppendOne
  <2>3. i = Len(pipe[s]) + 1
    BY <1>1, <2>1, <2>2
  <2> QED BY <1>1, <1>3, <2>3, AppendOne
<1>4. pipe' \in [Sides -> Seq(Frames)]
  BY <1>1, AppendOne DEF Types, Put
<1> QED BY <1>3, <1>4 DEF LastOne

LEMMA StepInv ==
    ASSUME Inv, NEW s \in Sides,
           StartWrite(s) \/ Write(s) \/ CloseGracefully(s) \/ Step(s)
    PROVE  Inv'
<1> USE DEF Inv, Types
<1>a. ASSUME UNCHANGED <<pipe, writeErr>> PROVE \A t \in Sides : LastOne(t)'
  BY <1>a DEF LastOne
<1>b. \A t \in Sides : t # s => (UNCHANGED <<pipe[t], writeErr[t]>> => LastOne(t)')
  BY DEF LastOne
<1>1. CASE StartWrite(s)
  BY <1>1, <1>a DEF StartWrite, Exclusive
<1>2. CASE Write(s)
  <2>1. writeErr[s] = "nil" /\ ~mu[s] /\ pc[s] # "write"
    BY <1>2 DEF Write, Exclusive
  <2>2. CASE \E f \in {"data", "ping"} : Put(s, f) /\ UNCHANGED writeErr
    <3>1. PICK f \in {"data", "ping"} : Put(s, f) /\ UNCHANGED writeErr
      BY <2>2
    <3>2. LastOne(s)' /\ pipe' \in [Sides -> Seq(Frames)]
      BY <2>1, <3>1, PutLast DEF Frames
    <3>3. \A t \in Sides : t # s => LastOne(t)'
      BY <1>b, <3>1 DEF Put
    <3>4. Exclusive' /\ Types'
      BY <1>2, <2>1, <3>1, <3>2 DEF Write, Exclusive
    <3> QED BY <3>2, <3>3, <3>4
  <2>3. CASE CanFail(s) /\ Fatal(s) /\ UNCHANGED pipe
    <3>1. \A t \in Sides : LastOne(t)'
      BY <2>1, <2>3 DEF LastOne, Fatal
    <3>2. Exclusive' /\ Types'
      BY <1>2, <2>1, <2>3 DEF Write, Exclusive, Fatal
    <3> QED BY <3>1, <3>2
  <2> QED BY <1>2, <2>2, <2>3 DEF Write
<1>3. CASE CloseGracefully(s)
  BY <1>3, <1>a DEF CloseGracefully, Exclusive, Goto
<1>4. CASE NextFrame(s)
  <2> DEFINE o == Other(s)
  <2>1. o \in Sides /\ pipe[o] \in Seq(Frames) /\ pipe[o] # <<>> /\ pipe'[o] = Tail(pipe[o])
    BY <1>4, OtherSide DEF NextFrame
  <2>2. pipe' \in [Sides -> Seq(Frames)]
    BY <1>4, <2>1, TailOf DEF NextFrame
  <2>3. LastOne(o)'
    <3> SUFFICES ASSUME NEW i \in DOMAIN pipe'[o], pipe'[o][i] = "close"
                 PROVE  i = Len(pipe'[o]) /\ writeErr'[o] = "closeSent"
      BY DEF LastOne
    <3>1. i \in 1..Len(Tail(pipe[o])) /\ i + 1 \in DOMAIN pipe[o] /\ pipe[o][i + 1] = "close"
      BY <2>1, TailOf
    <3>2. i + 1 = Len(pipe[o]) /\ writeErr[o] = "closeSent"
      BY <2>1, <3>1 DEF LastOne
    <3> QED BY <1>4, <2>1, <3>1, <3>2, TailOf DEF NextFrame
  <2>4. \A t \in Sides : t # o => LastOne(t)'
    BY <1>4 DEF NextFrame, LastOne
  <2>5. /\ pc' = pc \/ pc' = [pc EXCEPT ![s] = "wantMu"]
        /\ UNCHANGED <<writeErr, mu, wpc>>
    BY <1>4 DEF NextFrame, Goto
  <2>6. Exclusive'
    BY <2>5 DEF Exclusive
  <2>7. Types'
    BY <1>4, <2>2 DEF NextFrame, Goto
  <2> QED BY <2>3, <2>4, <2>6, <2>7
<1>5. CASE NextFails(s)
  BY <1>5, <1>a DEF NextFails, Reading, Exclusive, Goto
<1>6. CASE ReadExpires(s)
  BY <1>6, <1>a DEF ReadExpires, Reading, Exclusive, Goto
<1>7. CASE TakeMu(s)
  <2>1. CASE writeErr[s] = "nil"
    <3>1. /\ mu[s] /\ mu' = [mu EXCEPT ![s] = FALSE] /\ pc' = [pc EXCEPT ![s] = "write"]
          /\ UNCHANGED <<pipe, writeErr, wpc, reason>>
      BY <1>7, <2>1 DEF TakeMu, Goto
    <3>2. wpc[s] # "write"
      BY <3>1 DEF Exclusive
    <3>3. Types'
      BY <3>1
    <3> QED BY <2>1, <3>1, <3>2, <3>3, <1>a DEF Exclusive
  <2>2. CASE writeErr[s] # "nil"
    <3>1. /\ \/ pc' = [pc EXCEPT ![s] = "teardown"]
             \/ pc' = [pc EXCEPT ![s] = "read"]
          /\ reason' = [reason EXCEPT ![s] = "none"]
          /\ UNCHANGED <<pipe, writeErr, mu, wpc>>
      BY <1>7, <2>2 DEF TakeMu, AfterControl, Goto
    <3>2. Types' /\ Exclusive'
      BY <3>1 DEF Exclusive
    <3> QED BY <3>1, <3>2, <1>a
  <2> QED BY <2>1, <2>2
<1>8. CASE MuExpires(s)
  <2>1. Exclusive' /\ Types'
    <3>1. /\ pc' = [pc EXCEPT ![s] = "teardown"] \/ pc' = [pc EXCEPT ![s] = "read"]
          /\ reason' = [reason EXCEPT ![s] = "none"]
          /\ UNCHANGED <<pipe, writeErr, mu, wpc>>
      BY <1>8 DEF MuExpires, AfterControl, Goto
    <3> QED BY <3>1 DEF Exclusive
  <2> QED BY <1>8, <1>a, <2>1 DEF MuExpires
<1>9. CASE WriteControl(s)
  <2> DEFINE f == IF reason[s] = "ping" THEN "pong" ELSE "close"
  <2>1. writeErr[s] = "nil" /\ ~mu[s] /\ wpc[s] # "write"
    BY <1>9 DEF WriteControl, Exclusive
  <2>2. f \in Frames /\ (f = "close" => writeErr'[s] = "closeSent")
    BY <1>9 DEF WriteControl, Frames
  <2>3. LastOne(s)' /\ pipe' \in [Sides -> Seq(Frames)]
    BY <1>9, <2>1, <2>2, PutLast DEF WriteControl
  <2>4. \A t \in Sides : t # s => LastOne(t)'
    BY <1>9, <1>b DEF WriteControl, Put
  <2>5. Exclusive'
    BY <1>9, <2>1 DEF WriteControl, AfterControl, Exclusive, Goto
  <2>6. Types'
    BY <1>9, <2>3 DEF WriteControl, AfterControl, Goto
  <2> QED BY <2>3, <2>4, <2>5, <2>6
<1>10. CASE ControlFails(s)
  <2>1. writeErr[s] = "nil" /\ ~mu[s] /\ wpc[s] # "write"
    BY <1>10 DEF ControlFails, Exclusive
  <2>2. \A t \in Sides : LastOne(t)'
    BY <1>10, <2>1 DEF ControlFails, Fatal, LastOne
  <2>3. Exclusive'
    BY <1>10, <2>1 DEF ControlFails, Fatal, AfterControl, Exclusive, Goto
  <2>4. Types'
    <3>1. reason' = [reason EXCEPT ![s] = "none"]
      BY <1>10 DEF ControlFails, AfterControl
    <3>2. pc' = [pc EXCEPT ![s] = "teardown"] \/ pc' = [pc EXCEPT ![s] = "read"]
      BY <1>10 DEF ControlFails, AfterControl, Goto
    <3> QED BY <1>10, <3>1, <3>2 DEF ControlFails, Fatal
  <2> QED BY <2>2, <2>3, <2>4
<1>11. CASE Teardown(s)
  <2>1. \A t \in Sides : LastOne(t)'
    BY <1>11 DEF Teardown, LastOne
  <2>2. pipe' \in [Sides -> Seq(Frames)]
    <3>1. <<>> \in Seq(Frames)
      OBVIOUS
    <3>2. pipe' = pipe \/ pipe' = [pipe EXCEPT ![s] = <<>>]
      BY <1>11 DEF Teardown
    <3> QED BY <3>1, <3>2
  <2>3. Exclusive' /\ Types'
    BY <1>11, <2>2 DEF Teardown, Exclusive, Goto
  <2> QED BY <2>1, <2>3
<1> QED
  BY <1>1, <1>2, <1>3, <1>4, <1>5, <1>6, <1>7, <1>8, <1>9, <1>10, <1>11 DEF Step

LEMMA Invariance == Spec => []Inv
<1>1. Inv /\ UNCHANGED vars => Inv'
  BY DEF vars, Inv, Types, Exclusive, LastOne
<1>2. Inv /\ [Next]_vars => Inv'
  BY <1>1, StepInv DEF Next
<1> QED BY <1>2, InitInv, PTL DEF Spec

(* A close frame is the last frame of its side and the write error says so *)
(* (conn.go 649-658, 1684-1688): whoever wrote it, nobody writes after it. *)
THEOREM CloseFrameIsLast == Spec => []CloseIsLast
<1>1. Inv => CloseIsLast
  BY DEF Inv, LastOne, CloseIsLast
<1> QED BY <1>1, Invariance, PTL
-----------------------------------------------------------------------------
(* How it ends.  A control frame is under way for a reason.                *)
Reasoned(s) == pc[s] \in {"wantMu", "write"} <=> reason[s] # "none"

(* CloseGracefully, once it has sent its close frame or failed to.         *)
Kept(s) == graceful[s] /\ reason[s] # "graceful" /\ result[s] = "nil" => writeErr[s] = "closeSent"

(* The close frame of s is in its pipe.                                    *)
Announced(s) == pipe[s] # <<>> /\ pipe[s][Len(pipe[s])] = "close"

(* As long as no deadline has fired, a side ends only by the echo of the   *)
(* other's close frame, which stays in the pipe until then.                *)
Clean(s) ==
    LET o == Other(s)
    IN  /\ writeErr[s] # "failed" /\ readErr[s] # "failed"
        /\ pc[s] \in {"teardown", "done"} <=> readErr[s] = "closeError"
        /\ pc[s] \in {"teardown", "done"} => writeErr[s] = "closeSent"
        /\ tcp[s] = "closed" <=> pc[s] = "done"
        /\ readErr[s] = "closeError" \/ reason[s] = "echo" =>
               writeErr[o] = "closeSent" /\ pipe[o] = <<>>
        /\ writeErr[o] = "closeSent" /\ readErr[s] # "closeError" /\ reason[s] # "echo" =>
               Announced(o)

EndTypes ==
    /\ readErr \in [Sides -> {"nil", "closeError", "failed"}]
    /\ tcp \in [Sides -> {"open", "closed"}]
    /\ graceful \in [Sides -> BOOLEAN] /\ result \in [Sides -> {"nil", "timeout", "failed"}]
    /\ expired \in BOOLEAN

TalkInv  == EndTypes /\ \A s \in Sides : Reasoned(s) /\ Kept(s)
CleanInv == ~ expired => \A s \in Sides : Clean(s)

LEMMA EndInit == Init => TalkInv /\ CleanInv
<1> SUFFICES ASSUME Init PROVE TalkInv /\ CleanInv
  OBVIOUS
<1>1. TalkInv
  BY DEF Init, TalkInv, EndTypes, Reasoned, Kept
<1>2. ASSUME NEW s \in Sides PROVE Clean(s)
  <2>1. Other(s) \in Sides
    BY OtherSide
  <2> QED BY <2>1 DEF Init, Clean
<1> QED BY <1>1, <1>2 DEF CleanInv

LEMMA AfterControlTypes ==
    ASSUME EndTypes, NEW s \in Sides, NEW e \in {"nil", "timeout", "failed"}, AfterControl(s, e),
           UNCHANGED <<graceful, tcp>>, expired' \in BOOLEAN
    PROVE  EndTypes'
<1>1. readErr' \in [Sides -> {"nil", "closeError", "failed"}]
  <2>1. readErr' = readErr \/ readErr' = [readErr EXCEPT ![s] = "closeError"]
    BY DEF AfterControl
  <2> QED BY <2>1 DEF EndTypes
<1>2. result' \in [Sides -> {"nil", "timeout", "failed"}]
  BY DEF AfterControl, EndTypes
<1> QED BY <1>1, <1>2 DEF EndTypes

LEMMA TalkStep ==
    ASSUME Inv, TalkInv, NEW s \in Sides,
           StartWrite(s) \/ Write(s) \/ CloseGracefully(s) \/ Step(s)
    PROVE  TalkInv'
<1> USE DEF Inv, Types, TalkInv, EndTypes, Reasoned, Kept
<1>a. ASSUME NEW e \in {"nil", "timeout", "failed"}, AfterControl(s, e),
             pc[s] \in {"wantMu", "write"}, UNCHANGED <<graceful, tcp>>, expired' \in BOOLEAN,
             \A t \in Sides : writeErr[t] = "closeSent" => writeErr'[t] = "closeSent",
             e = "nil" /\ reason[s] = "graceful" => writeErr'[s] = "closeSent"
      PROVE  TalkInv'
  <2>1. EndTypes'
    BY <1>a, AfterControlTypes
  <2>2. pc'[s] \in {"read", "teardown"} /\ reason'[s] = "none"
    BY <1>a DEF AfterControl, Goto
  <2>3. result'[s] = "nil" =>
            result[s] = "nil" /\ (reason[s] = "graceful" => e = "nil")
    BY <1>a DEF AfterControl
  <2>4. Reasoned(s)' /\ Kept(s)'
    BY <1>a, <2>2, <2>3
  <2>5. ASSUME NEW t \in Sides, t # s PROVE Reasoned(t)' /\ Kept(t)'
    BY <1>a, <2>5 DEF AfterControl, Goto
  <2> QED BY <2>1, <2>4, <2>5
<1>1. CASE StartWrite(s)
  BY <1>1 DEF StartWrite
<1>2. CASE Write(s)
  BY <1>2 DEF Write, Fatal
<1>3. CASE CloseGracefully(s)
  BY <1>3 DEF CloseGracefully, Goto
<1>4. CASE NextFrame(s)
  BY <1>4 DEF NextFrame, Reading, Goto
<1>5. CASE NextFails(s)
  BY <1>5 DEF NextFails, Reading, Goto
<1>6. CASE ReadExpires(s)
  <2>1. /\ pc' = [pc EXCEPT ![s] = "teardown"] /\ pc[s] = "read" /\ expired' = TRUE
        /\ UNCHANGED <<reason, readErr, tcp, graceful, result, writeErr>>
    BY <1>6 DEF ReadExpires, Reading, Goto
  <2>2. EndTypes'
    BY <2>1
  <2>3. ASSUME NEW t \in Sides PROVE Reasoned(t)' /\ Kept(t)'
    BY <2>1
  <2> QED BY <2>2, <2>3
<1>7. CASE TakeMu(s)
  <2>1. CASE writeErr[s] = "nil"
    <3>1. /\ pc[s] = "wantMu" /\ pc' = [pc EXCEPT ![s] = "write"]
          /\ UNCHANGED <<reason, readErr, tcp, graceful, result, writeErr, expired>>
      BY <1>7, <2>1 DEF TakeMu, Goto
    <3> QED BY <3>1
  <2>2. CASE writeErr[s] # "nil"
    <3> DEFINE e == IF writeErr[s] = "closeSent" THEN "nil" ELSE "failed"
    <3>1. AfterControl(s, e) /\ pc[s] = "wantMu" /\ UNCHANGED <<graceful, tcp, expired, writeErr>>
      BY <1>7, <2>2 DEF TakeMu
    <3>2. e \in {"nil", "timeout", "failed"} /\ (e = "nil" => writeErr[s] = "closeSent")
      OBVIOUS
    <3> HIDE DEF e
    <3> QED BY <1>a, <3>1, <3>2
  <2> QED BY <2>1, <2>2
<1>8. CASE MuExpires(s)
  BY <1>8, <1>a DEF MuExpires
<1>9. CASE WriteControl(s)
  <2>1. /\ AfterControl(s, "nil") /\ pc[s] = "write" /\ UNCHANGED <<graceful, tcp, expired>>
        /\ writeErr' = [writeErr EXCEPT ![s] = IF reason[s] = "ping" THEN @ ELSE "closeSent"]
    BY <1>9 DEF WriteControl
  <2> QED BY <1>a, <2>1
<1>10. CASE ControlFails(s)
  <2>1. /\ AfterControl(s, "failed") /\ pc[s] = "write" /\ UNCHANGED <<graceful, tcp>>
        /\ expired' \in BOOLEAN
        /\ writeErr' = [writeErr EXCEPT ![s] = IF @ = "nil" THEN "failed" ELSE @]
    BY <1>10 DEF ControlFails, Fatal
  <2> QED BY <1>a, <2>1
<1>11. CASE Teardown(s)
  BY <1>11 DEF Teardown, Goto
<1> QED
  BY <1>1, <1>2, <1>3, <1>4, <1>5, <1>6, <1>7, <1>8, <1>9, <1>10, <1>11 DEF Step

(* A side that is writing has seen no error, so the other has not ended.   *)
LEMMA WriterSeesOpen ==
    ASSUME Inv, TalkInv, CleanInv, NEW s \in Sides, ~ expired, pc[s] = "write" \/ wpc[s] = "write"
    PROVE  /\ writeErr[s] = "nil" /\ ~ CanFail(s)
           /\ readErr[s] # "closeError" /\ readErr[Other(s)] # "closeError"
           /\ reason[Other(s)] # "echo"
<1> DEFINE o == Other(s)
<1>1. o \in Sides /\ Other(o) = s /\ Clean(s) /\ Clean(o)
  BY OtherSide DEF CleanInv, Sides, Other
<1>2. writeErr[s] = "nil"
  BY DEF Inv, Exclusive
<1>3. readErr[o] # "closeError" /\ reason[o] # "echo"
  BY <1>1, <1>2 DEF Clean
<1>4. readErr[s] # "closeError"
  BY <1>1, <1>2 DEF Clean
<1>5. pc[s] # "done" /\ pc[o] # "done"
  BY <1>1, <1>3, <1>4 DEF Clean
<1>6. tcp[s] # "closed" /\ tcp[o] # "closed"
  BY <1>1, <1>5 DEF Clean
<1> QED BY <1>2, <1>3, <1>4, <1>6 DEF CanFail

LEMMA CleanStep ==
    ASSUME Inv, Inv', TalkInv, CleanInv, NEW s \in Sides,
           StartWrite(s) \/ Write(s) \/ CloseGracefully(s) \/ Step(s)
    PROVE  CleanInv'
<1> DEFINE o == Other(s)
<1>1. /\ o \in Sides /\ o # s /\ Other(s) = o /\ Other(o) = s
      /\ \A t \in Sides : t = s \/ t = o
  BY DEF Sides, Other
<1>2. expired => expired'
  BY DEF StartWrite, Write, CloseGracefully, Step, NextFrame, NextFails, ReadExpires, TakeMu,
         MuExpires, WriteControl, ControlFails, Teardown
<1> SUFFICES ASSUME ~ expired' PROVE Clean(s)' /\ Clean(o)'
  BY <1>1 DEF CleanInv
<1> USE DEF Inv, Types, TalkInv, EndTypes
<1>3. ~ expired /\ Clean(s) /\ Clean(o) /\ Reasoned(s) /\ Reasoned(o)
  BY <1>1, <1>2 DEF CleanInv
<1> HIDE DEF o
<1>4. CASE StartWrite(s)
  BY <1>1, <1>3, <1>4 DEF StartWrite, Clean, Announced
<1>5. CASE Write(s)
  <2>1. writeErr[s] = "nil" /\ ~ CanFail(s)
    BY <1>3, <1>5, WriterSeesOpen DEF Write
  <2>2. /\ UNCHANGED <<writeErr, readErr, pc, tcp, reason>> /\ pipe'[o] = pipe[o]
    <3>1. PICK f \in {"data", "ping"} : Put(s, f) /\ UNCHANGED writeErr
      BY <1>5, <2>1 DEF Write
    <3>2. pipe'[o] = pipe[o]
      BY <1>1, <3>1 DEF Put
    <3> QED BY <1>5, <3>1, <3>2 DEF Write
  <2>3. Clean(s)'
    BY <1>1, <1>3, <2>2 DEF Clean, Announced
  <2>4. Clean(o)'
    BY <1>1, <1>3, <2>1, <2>2 DEF Clean
  <2> QED BY <2>3, <2>4
<1>6. CASE CloseGracefully(s)
  <2>1. /\ pc[s] = "read" /\ pc'[s] = "wantMu" /\ pc'[o] = pc[o]
        /\ reason[s] = "none" /\ reason'[s] = "graceful" /\ reason'[o] = reason[o]
        /\ UNCHANGED <<pipe, tcp, writeErr, readErr>>
    BY <1>1, <1>3, <1>6 DEF CloseGracefully, Goto, Reasoned
  <2>2. Clean(s)'
    BY <1>1, <1>3, <2>1 DEF Clean, Announced
  <2>3. Clean(o)'
    BY <1>1, <1>3, <2>1 DEF Clean, Announced
  <2> QED BY <2>2, <2>3
<1>7. CASE NextFrame(s)
  <2>1. /\ UNCHANGED <<writeErr, readErr, tcp>> /\ pc[s] = "read" /\ reason[s] = "none"
        /\ pc'[o] = pc[o] /\ reason'[o] = reason[o] /\ pipe'[s] = pipe[s]
        /\ pipe[o] # <<>> /\ pipe'[o] = Tail(pipe[o])
    BY <1>1, <1>3, <1>7 DEF NextFrame, Reading, Reasoned, Goto, o
  <2>2. Clean(o)'
    BY <1>1, <1>3, <2>1 DEF Clean, Announced
  <2>3. CASE Head(pipe[o]) = "close"
    <3>1. pc'[s] = "wantMu" /\ reason'[s] = "echo"
      BY <1>7, <2>3 DEF NextFrame, Goto, o
    <3>2. writeErr[o] = "closeSent" /\ pipe'[o] = <<>>
      <4>1. pipe[o] \in Seq(Frames) /\ 1 \in DOMAIN pipe[o] /\ pipe[o][1] = "close"
        BY <1>1, <2>1, <2>3
      <4>2. Len(pipe[o]) = 1 /\ writeErr[o] = "closeSent"
        BY <1>1, <4>1 DEF LastOne
      <4>3. Tail(pipe[o]) = <<>>
        BY <4>1, <4>2, TailOfOne
      <4> QED BY <2>1, <4>2, <4>3
    <3> QED BY <1>1, <1>3, <2>1, <2>2, <3>1, <3>2 DEF Clean
  <2>4. CASE Head(pipe[o]) # "close"
    <3>1. pc'[s] \in {"read", "wantMu"} /\ reason'[s] \in {"none", "ping"}
      BY <1>7, <2>1, <2>4 DEF NextFrame, Goto, o
    <3>2. Announced(o) => Announced(o)'
      <4>1. SUFFICES ASSUME pipe[o][Len(pipe[o])] = "close" PROVE Announced(o)'
        BY DEF Announced
      <4>2. pipe[o] \in Seq(Frames) /\ Len(pipe[o]) \in Nat /\ Len(pipe[o]) > 1
        BY <1>1, <2>1, <2>4, <4>1
      <4>3. /\ Len(pipe'[o]) = Len(pipe[o]) - 1
            /\ pipe'[o][Len(pipe[o]) - 1] = pipe[o][Len(pipe[o]) - 1 + 1]
        BY <2>1, <4>2, TailOf
      <4>4. pipe'[o] # <<>> /\ pipe'[o][Len(pipe'[o])] = "close"
        BY <4>1, <4>2, <4>3
      <4> QED BY <4>4 DEF Announced
    <3> QED BY <1>1, <1>3, <2>1, <2>2, <3>1, <3>2 DEF Clean
  <2> QED BY <2>3, <2>4
<1>8. CASE NextFails(s)
  <2>1. pc[s] = "read" /\ reason[s] = "none"
    BY <1>3, <1>8 DEF NextFails, Reading, Reasoned
  <2>2. readErr[s] # "closeError" /\ tcp[s] # "closed"
    BY <1>3, <2>1 DEF Clean
  <2>3. pipe[o] = <<>> /\ tcp[o] = "closed"
    BY <1>8, <2>2 DEF NextFails, o
  <2>4. writeErr[o] = "closeSent"
    BY <1>3, <2>3 DEF Clean
  <2>5. Announced(o)
    BY <1>3, <2>1, <2>2, <2>4 DEF Clean, o
  <2> QED BY <2>3, <2>5 DEF Announced
<1>9. CASE ReadExpires(s)
  BY <1>9 DEF ReadExpires
<1>10. CASE TakeMu(s)
  <2>1. CASE writeErr[s] = "nil"
    BY <1>1, <1>3, <1>10, <2>1 DEF TakeMu, Goto, Clean, Announced
  <2>2. CASE writeErr[s] # "nil"
    BY <1>1, <1>3, <1>10, <2>2 DEF TakeMu, AfterControl, Goto, Clean, Reasoned, Announced
  <2> QED BY <2>1, <2>2
<1>11. CASE MuExpires(s)
  BY <1>11 DEF MuExpires
<1>12. CASE WriteControl(s)
  <2>1. writeErr[s] = "nil" /\ readErr[s] # "closeError"
    BY <1>3, <1>12, WriterSeesOpen DEF WriteControl
  <2>2. reason[o] # "echo" /\ readErr[o] # "closeError"
    BY <1>3, <1>12, WriterSeesOpen DEF WriteControl, o
  <2>3. /\ UNCHANGED tcp /\ pipe'[o] = pipe[o] /\ pc'[o] = pc[o] /\ pc[s] = "write"
        /\ readErr'[o] = readErr[o] /\ reason'[o] = reason[o] /\ writeErr'[o] = writeErr[o]
        /\ pipe'[s] = Append(pipe[s], IF reason[s] = "ping" THEN "pong" ELSE "close")
        /\ reason'[s] = "none" /\ pc'[s] = IF reason[s] = "echo" THEN "teardown" ELSE "read"
        /\ readErr'[s] = IF reason[s] = "echo" THEN "closeError" ELSE readErr[s]
        /\ writeErr'[s] = IF reason[s] = "ping" THEN "nil" ELSE "closeSent"
    BY <1>1, <1>12, <2>1 DEF WriteControl, AfterControl, Goto, Put
  <2>4. reason[s] # "ping" => Announced(s)'
    <3> SUFFICES ASSUME reason[s] # "ping" PROVE Announced(s)'
      OBVIOUS
    <3>1. pipe[s] \in Seq(Frames) /\ pipe'[s] = Append(pipe[s], "close") /\ "close" \in Frames
      BY <2>3 DEF Frames
    <3>2. Len(pipe'[s]) = Len(pipe[s]) + 1 /\ pipe'[s][Len(pipe[s]) + 1] = "close"
      BY <3>1, AppendOne
    <3>3. Len(pipe[s]) \in Nat /\ Len(<<>>) = 0
      BY <3>1
    <3>4. pipe'[s] # <<>> /\ pipe'[s][Len(pipe'[s])] = "close"
      BY <3>2, <3>3
    <3> QED BY <3>4 DEF Announced
  <2>5. Clean(s)'
    BY <1>1, <1>3, <2>1, <2>3 DEF Clean, Announced, o
  <2>6. Clean(o)'
    BY <1>1, <1>3, <2>1, <2>2, <2>3, <2>4 DEF Clean
  <2> QED BY <2>5, <2>6
<1>13. CASE ControlFails(s)
  <2>1. ~ CanFail(s)
    BY <1>3, <1>13, WriterSeesOpen DEF ControlFails
  <2> QED BY <1>13, <2>1 DEF ControlFails
<1>14. CASE Teardown(s)
  <2>1. pc[s] = "teardown" /\ readErr[s] = "closeError"
    BY <1>3, <1>14 DEF Teardown, Clean
  <2>2. pipe[o] = <<>>
    BY <1>3, <2>1 DEF Clean, o
  <2>3. UNCHANGED <<pipe, writeErr, readErr, reason>>
    BY <1>14, <2>2 DEF Teardown, o
  <2>4. /\ pc'[s] = "done" /\ tcp'[s] = "closed" /\ pc'[o] = pc[o] /\ tcp'[o] = tcp[o]
    BY <1>1, <1>14 DEF Teardown, Goto
  <2> QED BY <1>1, <1>3, <2>1, <2>3, <2>4 DEF Clean, Announced
<1> QED
  BY <1>4, <1>5, <1>6, <1>7, <1>8, <1>9, <1>10, <1>11, <1>12, <1>13, <1>14 DEF Step

(* Both ends have got the other's close frame when they have ended, unless *)
(* a deadline fired; and a nil of CloseGracefully means that one was sent  *)
(* (conn.go 393-450).                                                      *)
THEOREM EndsCleanly == Spec => []CleanClose
<1>1. Inv /\ Inv' /\ TalkInv /\ CleanInv /\ [Next]_vars => (TalkInv /\ CleanInv)'
  <2> SUFFICES ASSUME Inv, Inv', TalkInv, CleanInv, [Next]_vars PROVE TalkInv' /\ CleanInv'
    OBVIOUS
  <2>1. CASE Next
    BY <2>1, TalkStep, CleanStep DEF Next
  <2>2. CASE UNCHANGED vars
    <3>1. TalkInv'
      BY <2>2 DEF vars, TalkInv, EndTypes, Reasoned, Kept
    <3>2. ASSUME NEW s \in Sides, Clean(s) PROVE Clean(s)'
      BY <2>2, <3>2 DEF vars, Clean, Announced
    <3>3. expired' = expired
      BY <2>2 DEF vars
    <3> QED BY <3>1, <3>2, <3>3 DEF CleanInv
  <2> QED BY <2>1, <2>2
<1>2. TalkInv /\ CleanInv => CleanClose
  BY DEF TalkInv, CleanInv, Reasoned, Kept, Clean, CleanClose
<1> QED BY <1>1, <1>2, EndInit, Invariance, PTL DEF Spec
=============================================================================
