--------------------------- MODULE ConnWriteProofs ---------------------------
(***************************************************************************)
(* What TLAPS proves about ConnWrite for any set of goroutines and any     *)
(* bounds: the two channel mutexes; that the wire is the one FrameStream   *)
(* promises, and the first write error stays; and what the callers rely    *)
(* on: the write buffer and c.writer belong to the message in progress,    *)
(* and a call returns what became of its message.                          *)
(***************************************************************************)
EXTENDS ConnWrite, TLAPS

USE DEF Types, ControlTypes, MessageKinds, Kinds, Deadline, Results, InMuPCs, PCs,
        Goto, Done, Return, sharedVars, localVars, vars

(* A call record keeps its type when the flush or the clock changes it.    *)
LEMMA CallType ==
    /\ NoCall \in Calls
    /\ \A k \in Kinds, t \in Types, d \in Deadline :
          [kind |-> k, type |-> t, dl |-> d, fin |-> TRUE] \in Calls
    /\ \A c \in Calls, d \in Deadline, f \in BOOLEAN :
          [c EXCEPT !.dl = d, !.fin = f] \in Calls /\ [c EXCEPT !.dl = d] \in Calls
    /\ \A c \in Calls : /\ c.kind \in Kinds /\ c.type \in Types
                        /\ c.dl \in Deadline /\ c.fin \in BOOLEAN
<1>1. NoCall \in Calls
  BY DEF Calls, NoCall, Kinds, Types, ControlTypes, Deadline
<1>2. ASSUME NEW k \in Kinds, NEW t \in Types, NEW d \in Deadline
      PROVE  [kind |-> k, type |-> t, dl |-> d, fin |-> TRUE] \in Calls
  BY DEF Calls
<1>3. ASSUME NEW c \in Calls, NEW d \in Deadline
      PROVE  [c EXCEPT !.dl = d] \in Calls
  BY DEF Calls
<1>4. ASSUME NEW c \in Calls, NEW d \in Deadline, NEW f \in BOOLEAN
      PROVE  [c EXCEPT !.dl = d, !.fin = f] \in Calls
  BY DEF Calls
<1>5. ASSUME NEW c \in Calls
      PROVE  /\ c.kind \in Kinds /\ c.type \in Types
             /\ c.dl \in Deadline /\ c.fin \in BOOLEAN
  BY DEF Calls
<1> QED
  BY <1>1, <1>2, <1>3, <1>4, <1>5

LEMMA OpsType ==
    ASSUME TypeOK, NEW p \in Procs, ops[p] < MaxOps, ops' = [ops EXCEPT ![p] = @ + 1]
    PROVE  ops' \in [Procs -> 0..MaxOps]
<1>1. ops[p] + 1 \in 0..MaxOps
  BY BoundsAssumption DEF TypeOK
<1> QED
  BY <1>1 DEF TypeOK

LEMMA EnterType ==
    ASSUME TypeOK, NEW p \in Procs, NEW k \in Kinds, NEW t \in Types, NEW d \in Deadline,
           NEW l \in PCs, Enter(p, k, t, d, l)
    PROVE  TypeOK'
<1> USE DEF TypeOK
<1>1. ops' \in [Procs -> 0..MaxOps]
  BY OpsType DEF Enter
<1>2. CASE d = "past"
  <2>1. call' = [call EXCEPT ![p] = NoCall] /\ pc' = [pc EXCEPT ![p] = "idle"]
        /\ res' = [res EXCEPT ![p] = "timeout"]
    BY <1>2 DEF Enter
  <2>2. NoCall \in Calls
    BY CallType
  <2>3. call' \in [Procs -> Calls] /\ pc' \in [Procs -> PCs] /\ res' \in [Procs -> Results]
    BY <2>1, <2>2
  <2> QED
    BY <1>1, <2>3 DEF Enter
<1>3. CASE d # "past"
  <2>1. [kind |-> k, type |-> t, dl |-> d, fin |-> TRUE] \in Calls
    BY CallType
  <2>2. call' \in [Procs -> Calls] /\ pc' \in [Procs -> PCs]
    BY <1>3, <2>1 DEF Enter
  <2> QED
    BY <1>1, <1>3, <2>2 DEF Enter
<1> QED
  BY <1>2, <1>3

LEMMA InitType == Init => TypeOK
<1> SUFFICES ASSUME Init PROVE TypeOK
  OBVIOUS
<1>1. call \in [Procs -> Calls]
  BY CallType DEF Init
<1>2. ops \in [Procs -> 0..MaxOps]
  BY BoundsAssumption DEF Init
<1>3. wire \in Seq(Frames)
  BY DEF Init
<1> QED
  BY <1>1, <1>2, <1>3, PoolAssumption DEF Init, TypeOK

LEMMA NextType == TypeOK /\ [Next]_vars => TypeOK'
<1> SUFFICES ASSUME TypeOK, [Next]_vars PROVE TypeOK'
  OBVIOUS
<1>a. NoCall \in Calls
  BY CallType
<1>1. ASSUME NEW p \in Procs, Reject(p) PROVE TypeOK'
  <2>1. ops' \in [Procs -> 0..MaxOps]
    BY <1>1, OpsType DEF Reject
  <2> QED
    BY <1>1, <1>a, <2>1 DEF Reject, TypeOK
<1>2. ASSUME NEW p \in Procs, NEW k \in Kinds, NEW t \in Types, NEW d \in Deadline,
             NEW l \in PCs, Enter(p, k, t, d, l) PROVE TypeOK'
  BY <1>2, EnterType
<1>3. ASSUME NEW p \in Procs, AppStep(p) PROVE TypeOK'
  <2>1. CASE StartMessage(p)
    <3>1. PICK k \in MessageKinds, t \in AppTypes : Enter(p, k, t, deadline, "acquire")
      BY <2>1 DEF StartMessage
    <3>2. k \in Kinds /\ t \in Types /\ "acquire" \in PCs /\ deadline \in Deadline
      BY TypesAssumption DEF TypeOK
    <3> QED
      BY <3>1, <3>2, <1>2
  <2>2. CASE StartPrepared(p)
    <3>1. PICK t \in AppTypes : Enter(p, "prepared", t, deadline, "acquire")
      BY <2>2 DEF StartPrepared
    <3>2. "prepared" \in Kinds /\ t \in Types /\ "acquire" \in PCs /\ deadline \in Deadline
      BY TypesAssumption DEF TypeOK
    <3> QED
      BY <3>1, <3>2, <1>2
  <2>3. CASE StartControl(p)
    <3>1. PICK t \in AppTypes, d \in Deadlines : Enter(p, "control", t, d, "wantMu")
      BY <2>3 DEF StartControl
    <3>2. "control" \in Kinds /\ t \in Types /\ "wantMu" \in PCs /\ d \in Deadline
      BY TypesAssumption, DeadlineAssumption DEF TypeOK
    <3> QED
      BY <3>1, <3>2, <1>2
  <2>4. ASSUME NEW f \in BOOLEAN, NEW tooLong \in BOOLEAN, FlushFrame(p, f, tooLong)
        PROVE TypeOK'
    <3>1. [call[p] EXCEPT !.dl = deadline, !.fin = f] \in Calls
      BY CallType DEF TypeOK
    <3>2. call' \in [Procs -> Calls]
      BY <2>4, <3>1 DEF FlushFrame, TypeOK
    <3> QED
      BY <2>4, <3>2 DEF FlushFrame, TypeOK
  <2>5. CASE UseEndedWriter(p)
    BY <2>5, <1>a DEF TypeOK, UseEndedWriter
  <2> QED
    BY <1>1, <1>3, <2>1, <2>2, <2>3, <2>4, <2>5 DEF AppStep, WriteMore, CloseWriter
<1>4. ASSUME NEW p \in Procs, CodeStep(p) PROVE TypeOK'
  <2> USE DEF TypeOK
  <2>1. CASE AcquireWriteMu(p)  BY <2>1 DEF AcquireWriteMu
  <2>2. CASE AcquireTimeout(p)  BY <2>2, <1>a DEF AcquireTimeout
  <2>3. CASE BeginFails(p)      BY <2>3, <1>a DEF BeginFails
  <2>4. CASE Begin(p)           BY <2>4 DEF Begin
  <2>5. CASE TakeMu(p)          BY <2>5 DEF TakeMu
  <2>6. CASE TakeMuTimeout(p)   BY <2>6, <1>a DEF TakeMuTimeout
  <2>7. CASE CheckErr(p)        
    <3>1. CASE writeErr # "nil"
      BY <2>7, <3>1 DEF CheckErr
    <3>2. CASE writeErr = "nil"
      BY <2>7, <3>2 DEF CheckErr
    <3> QED
      BY <3>1, <3>2
  <2>8. CASE NetWriteFails(p)   BY <2>8 DEF NetWriteFails
  <2>9. CASE WriteFatal(p)      BY <2>9 DEF WriteFatal
  <2>10. CASE Unlock(p)         
    <3>1. CASE call[p].kind = "control"
      <4>1. Done(p) /\ mu' = TRUE
        BY <2>10, <3>1 DEF Unlock, Kinds, MessageKinds
      <4>2. pc' \in [Procs -> PCs] /\ call' \in [Procs -> Calls]
        BY <4>1, <1>a
      <4> QED BY <2>10, <4>1, <4>2 DEF Unlock
    <3>2. CASE call[p].kind = "prepared"
      BY <2>10, <3>2 DEF Unlock
    <3>3. CASE call[p].kind \in MessageKinds
      <4> DEFINE l == IF res[p] = "ok" /\ ~call[p].fin THEN "open" ELSE "end"
      <4>1. pc' = [pc EXCEPT ![p] = l]
        BY <2>10, <3>3 DEF Unlock
      <4>2. pc' \in [Procs -> PCs]
        <5>1. l \in PCs
          OBVIOUS
        <5> QED
          BY <4>1, <5>1
      <4> QED
        BY <2>10, <3>3, <4>2 DEF Unlock
    <3>4. call[p].kind \in Kinds
      BY CallType
    <3> QED
      BY <3>1, <3>2, <3>3, <3>4
  <2>11. CASE EndMessage(p)     BY <2>11, <1>a, PoolAssumption DEF EndMessage
  <2>12. CASE ReleasePrepared(p) BY <2>12, <1>a DEF ReleasePrepared
  <2> QED
    BY <1>4, <2>1, <2>2, <2>3, <2>4, <2>5, <2>6, <2>7, <2>8, <2>9, <2>10, <2>11, <2>12
    DEF CodeStep
<1>5. ASSUME NEW p \in Procs, NetWrite(p) PROVE TypeOK'
  <2> USE DEF TypeOK
  <2> DEFINE f == [msg |-> MsgId(p), op |-> IF cont[p] THEN "cont" ELSE call[p].type,
                   fin |-> call[p].fin]
  <2>1. wire' = Append(wire, f)
    BY <1>5 DEF NetWrite
  <2>2. MsgId(p) \in Msgs
    BY DEF Msgs, MsgId
  <2>3. call[p].type \in Types /\ call[p].fin \in BOOLEAN
    BY <1>5, CallType
  <2>4. f \in Frames
    BY <2>2, <2>3 DEF Frames
  <2>5. wire' \in Seq(Frames)
    BY <2>1, <2>4
  <2> QED
    BY <1>5, <2>5 DEF NetWrite
<1>6. ASSUME NEW p \in Procs, ExpireWait(p) PROVE TypeOK'
  <2> USE DEF TypeOK
  <2>1. [call[p] EXCEPT !.dl = "past"] \in Calls
    BY CallType
  <2>2. call' \in [Procs -> Calls]
    BY <1>6, <2>1 DEF ExpireWait
  <2> QED
    BY <1>6, <2>2 DEF ExpireWait
<1>7. CASE SetWriteDeadline BY <1>7, DeadlineAssumption DEF TypeOK, SetWriteDeadline
<1>8. CASE NetDown          BY <1>8 DEF TypeOK, NetDown
<1>9. CASE ExpireStored     BY <1>9 DEF TypeOK, ExpireStored
<1>10. CASE UNCHANGED vars  BY <1>10 DEF TypeOK
<1> QED
  BY <1>3, <1>4, <1>5, <1>6, <1>7, <1>8, <1>9, <1>10 DEF Next

(* Every state has variables of the declared types.                        *)
THEOREM Typing == Spec => []TypeOK
<1> QED
  BY InitType, NextType, PTL DEF Spec
-----------------------------------------------------------------------------
(* Mutual exclusion.  LockTokens speaks of the method a goroutine is in,   *)
(* so it is inductive only with KindInv: which methods reach which pc.     *)
KindInv ==
    \A p \in Procs :
        /\ pc[p] = "idle" => call[p].kind = "control"
        /\ pc[p] = "acquire" => call[p].kind # "control"
        /\ pc[p] \in {"begin", "open", "end"} => call[p].kind \in MessageKinds
        /\ pc[p] = "release" => call[p].kind = "prepared"

LockInv == TypeOK /\ KindInv /\ LockTokens

LEMMA NoCallKind == NoCall.kind = "control"
BY DEF NoCall

(* A step of p that keeps, takes or gives back each token as it changes    *)
(* p's own place keeps LockTokens.                                         *)
LEMMA TokenStep ==
    ASSUME TypeOK, LockTokens, NEW p \in Procs,
           \A q \in Procs \ {p} : pc'[q] = pc[q] /\ call'[q].kind = call[q].kind,
           \/ writeMu' = writeMu /\ HoldsWriteMu(p)' = HoldsWriteMu(p)
           \/ writeMu /\ ~writeMu' /\ HoldsWriteMu(p)'
           \/ HoldsWriteMu(p) /\ writeMu' /\ ~HoldsWriteMu(p)',
           writeMu' \in BOOLEAN, mu' \in BOOLEAN,
           \/ mu' = mu /\ HoldsMu(p)' = HoldsMu(p)
           \/ mu /\ ~mu' /\ HoldsMu(p)'
           \/ HoldsMu(p) /\ mu' /\ ~HoldsMu(p)'
    PROVE  LockTokens'
<1>1. \A q \in Procs \ {p} : /\ HoldsWriteMu(q)' = HoldsWriteMu(q)
                             /\ HoldsMu(q)' = HoldsMu(q)
  BY DEF HoldsMu, HoldsWriteMu
<1>2. /\ HoldsWriteMu(p) \in BOOLEAN /\ HoldsWriteMu(p)' \in BOOLEAN
      /\ HoldsMu(p) \in BOOLEAN /\ HoldsMu(p)' \in BOOLEAN
  BY DEF HoldsMu, HoldsWriteMu
<1>3. /\ \A q, r \in Procs : (HoldsWriteMu(q) /\ HoldsWriteMu(r)) => q = r
      /\ writeMu <=> ~ \E q \in Procs : HoldsWriteMu(q)
      /\ \A q, r \in Procs : (HoldsMu(q) /\ HoldsMu(r)) => q = r
      /\ mu <=> ~ \E q \in Procs : HoldsMu(q)
  BY DEF LockTokens
<1>4. /\ \A q, r \in Procs : (HoldsWriteMu(q)' /\ HoldsWriteMu(r)') => q = r
      /\ writeMu' <=> ~ \E q \in Procs : HoldsWriteMu(q)'
  <2>1. CASE writeMu' = writeMu /\ HoldsWriteMu(p)' = HoldsWriteMu(p)
    BY <1>1, <1>2, <1>3, <2>1
  <2>2. CASE writeMu /\ ~writeMu' /\ HoldsWriteMu(p)'
    BY <1>1, <1>2, <1>3, <2>2
  <2>3. CASE HoldsWriteMu(p) /\ writeMu' /\ ~HoldsWriteMu(p)'
    BY <1>1, <1>2, <1>3, <2>3
  <2> QED
    BY <2>1, <2>2, <2>3
<1>5. /\ \A q, r \in Procs : (HoldsMu(q)' /\ HoldsMu(r)') => q = r
      /\ mu' <=> ~ \E q \in Procs : HoldsMu(q)'
  <2>1. CASE mu' = mu /\ HoldsMu(p)' = HoldsMu(p)
    BY <1>1, <1>2, <1>3, <2>1
  <2>2. CASE mu /\ ~mu' /\ HoldsMu(p)'
    BY <1>1, <1>2, <1>3, <2>2
  <2>3. CASE HoldsMu(p) /\ mu' /\ ~HoldsMu(p)'
    BY <1>1, <1>2, <1>3, <2>3
  <2> QED
    BY <2>1, <2>2, <2>3
<1> QED
  BY <1>4, <1>5 DEF LockTokens

LEMMA EnterLock ==
    ASSUME LockInv, NEW p \in Procs, NEW k \in Kinds, NEW t \in Types, NEW d \in Deadline,
           NEW l \in {"acquire", "wantMu"}, k = "control" <=> l = "wantMu",
           Enter(p, k, t, d, l)
    PROVE  KindInv' /\ LockTokens'
<1>1. pc[p] = "idle" /\ call[p].kind = "control" /\ UNCHANGED <<writeMu, mu>>
  BY DEF Enter, LockInv, KindInv
<1>2. \A q \in Procs \ {p} : pc'[q] = pc[q] /\ call'[q] = call[q]
  BY DEF Enter, LockInv, TypeOK
<1>3. \/ pc'[p] = "idle" /\ call'[p].kind = "control"
      \/ pc'[p] = l /\ call'[p].kind = k
  <2>1. CASE d = "past"
    BY <2>1, NoCallKind DEF Enter, LockInv, TypeOK
  <2>2. CASE d # "past"
    BY <2>2 DEF Enter, LockInv, TypeOK
  <2> QED
    BY <2>1, <2>2
<1>4. KindInv'
  BY <1>2, <1>3 DEF LockInv, KindInv
<1>5. HoldsWriteMu(p)' = HoldsWriteMu(p) /\ HoldsMu(p)' = HoldsMu(p)
  BY <1>1, <1>3 DEF HoldsWriteMu, HoldsMu
<1> QED
  BY <1>1, <1>2, <1>4, <1>5, TokenStep DEF LockInv, TypeOK

LEMMA AppLock ==
    ASSUME LockInv, NEW p \in Procs, AppStep(p)
    PROVE  KindInv' /\ LockTokens'
<1>a. deadline \in Deadline
  BY DEF LockInv, TypeOK
<1>2. CASE StartMessage(p)
  <2>1. PICK k \in MessageKinds, t \in AppTypes : Enter(p, k, t, deadline, "acquire")
    BY <1>2 DEF StartMessage
  <2>2. k \in Kinds /\ k # "control" /\ t \in Types
    BY TypesAssumption
  <2> QED
    BY <1>a, <2>1, <2>2, EnterLock
<1>3. CASE StartPrepared(p)
  <2>1. PICK t \in AppTypes : Enter(p, "prepared", t, deadline, "acquire")
    BY <1>3 DEF StartPrepared
  <2>2. "prepared" \in Kinds /\ t \in Types
    BY TypesAssumption
  <2> QED
    BY <1>a, <2>1, <2>2, EnterLock
<1>4. CASE StartControl(p)
  <2>1. PICK t \in AppTypes, d \in Deadlines : Enter(p, "control", t, d, "wantMu")
    BY <1>4 DEF StartControl
  <2>2. "control" \in Kinds /\ t \in Types /\ d \in Deadline
    BY TypesAssumption, DeadlineAssumption
  <2> QED
    BY <2>1, <2>2, EnterLock
<1> USE DEF LockInv
<1>1. CASE Reject(p)
  BY <1>1, NoCallKind DEF Reject, TypeOK, KindInv, LockTokens, HoldsMu, HoldsWriteMu
<1>5. ASSUME NEW f \in BOOLEAN, NEW tooLong \in BOOLEAN, FlushFrame(p, f, tooLong)
      PROVE  KindInv' /\ LockTokens'
  <2>1. call[p].kind \in MessageKinds
    BY <1>5 DEF FlushFrame, KindInv
  <2>2. \A q \in Procs : call'[q].kind = call[q].kind
    <3>1. [call[p] EXCEPT !.dl = deadline, !.fin = f].kind = call[p].kind
      BY DEF TypeOK, Calls
    <3>2. \/ call' = call
          \/ call' = [call EXCEPT ![p] = [call[p] EXCEPT !.dl = deadline, !.fin = f]]
      BY <1>5 DEF FlushFrame
    <3> QED
      BY <3>1, <3>2 DEF TypeOK
  <2>3. /\ \A q \in Procs \ {p} : pc'[q] = pc[q]
        /\ pc[p] = "open" /\ pc'[p] \in {"end", "wantMu"} /\ UNCHANGED <<writeMu, mu>>
    BY <1>5 DEF FlushFrame, TypeOK
  <2>4. KindInv'
    BY <2>1, <2>2, <2>3 DEF KindInv
  <2>5. HoldsWriteMu(p)' = HoldsWriteMu(p) /\ HoldsMu(p)' = HoldsMu(p)
    BY <2>1, <2>2, <2>3 DEF HoldsWriteMu, HoldsMu
  <2> QED
    BY <2>2, <2>3, <2>4, <2>5, TokenStep DEF TypeOK
<1>6. CASE UseEndedWriter(p)
  BY <1>6, NoCallKind DEF UseEndedWriter, TypeOK, KindInv, LockTokens, HoldsMu, HoldsWriteMu
<1> QED
  BY <1>1, <1>2, <1>3, <1>4, <1>5, <1>6 DEF AppStep, WriteMore, CloseWriter

LEMMA CodeLock ==
    ASSUME LockInv, NEW p \in Procs, CodeStep(p) \/ NetWrite(p)
    PROVE  KindInv' /\ LockTokens'
<1> USE DEF LockInv, TypeOK, KindInv, LockTokens, HoldsMu, HoldsWriteMu
<1>0. call[p].kind \in Kinds
  BY CallType
<1>1. CASE AcquireWriteMu(p)
  BY <1>0, <1>1 DEF AcquireWriteMu
<1>2. CASE AcquireTimeout(p)
  BY <1>2, NoCallKind DEF AcquireTimeout
<1>3. CASE BeginFails(p)
  BY <1>3, NoCallKind DEF BeginFails
<1>4. CASE Begin(p)
  BY <1>4 DEF Begin
<1>5. CASE TakeMu(p)
  BY <1>5 DEF TakeMu
<1>6. CASE TakeMuTimeout(p)
  BY <1>6, NoCallKind DEF TakeMuTimeout
<1>7. CASE CheckErr(p)
  <2>1. /\ pc[p] = "check" /\ pc'[p] \in InMuPCs
        /\ \A q \in Procs \ {p} : pc'[q] = pc[q]
        /\ UNCHANGED <<call, writeMu, mu>>
    BY <1>7 DEF CheckErr
  <2> HIDE DEF LockTokens, HoldsMu, HoldsWriteMu
  <2>2. KindInv'
    BY <2>1
  <2>3. HoldsWriteMu(p)' = HoldsWriteMu(p) /\ HoldsMu(p)' = HoldsMu(p)
    BY <2>1 DEF HoldsMu, HoldsWriteMu
  <2> QED
    BY <2>1, <2>2, <2>3, TokenStep
<1>8. CASE NetWriteFails(p)
  BY <1>8 DEF NetWriteFails
<1>9. CASE WriteFatal(p)
  BY <1>9 DEF WriteFatal
<1>10. CASE Unlock(p)
  <2>1. /\ \A q \in Procs \ {p} : pc'[q] = pc[q] /\ call'[q] = call[q]
        /\ pc[p] = "unlock" /\ mu' /\ writeMu' = writeMu
    BY <1>10 DEF Unlock
  <2>2. \/ call[p].kind = "control" /\ pc'[p] = "idle" /\ call'[p].kind = "control"
        \/ call[p].kind = "prepared" /\ pc'[p] = "release" /\ call'[p] = call[p]
        \/ /\ call[p].kind \in MessageKinds
           /\ pc'[p] \in {"open", "end"} /\ call'[p] = call[p]
    BY <1>10, NoCallKind DEF Unlock
  <2> HIDE DEF LockTokens, HoldsMu, HoldsWriteMu
  <2>3. KindInv'
    BY <2>1, <2>2
  <2>4. HoldsWriteMu(p)' = HoldsWriteMu(p) /\ HoldsMu(p) /\ ~HoldsMu(p)'
    BY <2>1, <2>2 DEF HoldsMu, HoldsWriteMu
  <2>5. mu' \in BOOLEAN /\ writeMu' \in BOOLEAN
    BY <1>10 DEF Unlock
  <2> QED
    BY <2>1, <2>3, <2>4, <2>5, TokenStep
<1>11. CASE EndMessage(p)
  BY <1>11, NoCallKind DEF EndMessage
<1>12. CASE ReleasePrepared(p)
  BY <1>12, NoCallKind DEF ReleasePrepared
<1>13. CASE NetWrite(p)
  BY <1>13 DEF NetWrite
<1> QED
  BY <1>1, <1>2, <1>3, <1>4, <1>5, <1>6, <1>7, <1>8, <1>9, <1>10, <1>11, <1>12, <1>13
  DEF CodeStep

LEMMA LockInvariant == Spec => []LockInv
<1>1. Init => LockInv
  <2>1. Init => TypeOK
    BY InitType
  <2> QED
    BY <2>1, NoCallKind DEF Init, LockInv, KindInv, LockTokens, HoldsMu, HoldsWriteMu
<1>2. LockInv /\ [Next]_vars => LockInv'
  <2> SUFFICES ASSUME LockInv, [Next]_vars PROVE KindInv' /\ LockTokens'
    BY NextType DEF LockInv
  <2>1. ASSUME NEW p \in Procs, ExpireWait(p) PROVE KindInv' /\ LockTokens'
    <3>1. \A q \in Procs : call'[q].kind = call[q].kind
      BY <2>1 DEF ExpireWait, LockInv, TypeOK, Calls
    <3> QED
      BY <2>1, <3>1 DEF ExpireWait, LockInv, KindInv, LockTokens, HoldsMu, HoldsWriteMu
  <2>2. CASE SetWriteDeadline \/ NetDown \/ ExpireStored \/ UNCHANGED vars
    BY <2>2 DEF SetWriteDeadline, NetDown, ExpireStored, LockInv, KindInv, LockTokens,
                HoldsMu, HoldsWriteMu
  <2> QED
    BY <2>1, <2>2, AppLock, CodeLock DEF Next
<1> QED
  BY <1>1, <1>2, PTL DEF Spec

(* Each mutex token is in its channel exactly when nobody is inside, and   *)
(* nobody ever shares a section, for any number of goroutines.             *)
THEOREM MutualExclusion == Spec => []LockTokens
<1>1. LockInv => LockTokens
  BY DEF LockInv
<1> QED
  BY <1>1, LockInvariant, PTL
-----------------------------------------------------------------------------
(* FrameStream.  The argument: mu is exclusive, so between the check of    *)
(* writeErr and the record of an error nobody else writes or records one;  *)
(* writeMu is exclusive, so at most one goroutine has sent part of a       *)
(* message.                                                                *)
Sending == {"wantMu"} \cup InMuPCs

(* What a goroutine has sent and recorded at each point of its call.       *)
StreamAt(p) ==
    /\ pc[p] \in {"net", "latch"} => writeErr = "nil"
    /\ pc[p] = "latch" => \/ res[p] = "failed"
                          \/ res[p] = "ok" /\ call[p].type = "close" /\ ~cont[p]
    /\ pc[p] = "unlock" => /\ res[p] = "ok" \/ writeErr # "nil"
                           /\ res[p] = "ok" /\ call[p].fin => ~cont[p]
    /\ pc[p] = "end" /\ cont[p] => writeErr # "nil"
    /\ cont[p] => /\ pc[p] \in {"open", "end"} \cup Sending
                  /\ call[p].kind \in MessageKinds /\ call[p].type = "data"
    /\ pc[p] \in {"open"} \cup Sending => call[p].type # "bad"
    /\ pc[p] \in Sending /\ call[p].type \in ControlTypes => call[p].fin
    /\ pc[p] \in Sending /\ call[p].kind = "control" => call[p].type \in ControlTypes
    /\ call[p].kind \notin MessageKinds => call[p].fin
    /\ call[p].kind = "prepared" => call[p].type # "bad"

StreamInv == \A p \in Procs : StreamAt(p)

Inv == LockInv /\ StreamInv

LEMMA NoCallFields == NoCall.kind = "control" /\ NoCall.fin
BY DEF NoCall

(* A step of p that records an error, if any, while no other goroutine is  *)
(* under mu leaves what is known of the others as it was.                  *)
LEMMA OthersStay ==
    ASSUME StreamInv, NEW p \in Procs, StreamAt(p)',
           \A q \in Procs \ {p} : /\ pc'[q] = pc[q] /\ call'[q] = call[q]
                                  /\ res'[q] = res[q] /\ cont'[q] = cont[q],
           \/ writeErr' = writeErr
           \/ writeErr' # "nil" /\ \A q \in Procs \ {p} : pc[q] \notin InMuPCs
    PROVE  StreamInv'
<1> SUFFICES ASSUME NEW q \in Procs, q # p PROVE StreamAt(q)'
  BY DEF StreamInv
<1>1. StreamAt(q)
  BY DEF StreamInv
<1> QED
  BY <1>1 DEF StreamAt, Sending

LEMMA EnterStream ==
    ASSUME Inv, NEW p \in Procs, NEW k \in Kinds, NEW t \in Types, NEW d \in Deadline,
           NEW l \in {"acquire", "wantMu"}, l = "wantMu" => t \in ControlTypes,
           k = "prepared" => t # "bad",
           Enter(p, k, t, d, l)
    PROVE  StreamInv'
<1> USE DEF Inv, LockInv
<1>1. pc[p] = "idle" /\ ~cont[p] /\ UNCHANGED <<writeErr, cont>>
  BY DEF Enter, StreamInv, StreamAt, TypeOK, Sending
<1>2. \A q \in Procs \ {p} : pc'[q] = pc[q] /\ call'[q] = call[q] /\ res'[q] = res[q]
  BY DEF Enter, TypeOK
<1>3. \/ pc'[p] = "idle" /\ call'[p].kind = "control" /\ call'[p].fin
      \/ /\ pc'[p] = l /\ call'[p].kind = k
         /\ call'[p].type = t /\ call'[p].fin
  <2>1. CASE d = "past"
    BY <2>1, NoCallFields DEF Enter, TypeOK
  <2>2. CASE d # "past"
    BY <2>2 DEF Enter, TypeOK
  <2> QED
    BY <2>1, <2>2
<1>4. StreamAt(p)'
  BY <1>1, <1>3 DEF StreamAt, Sending
<1> QED
  BY <1>1, <1>2, <1>4, OthersStay

LEMMA AppStream ==
    ASSUME Inv, NEW p \in Procs, AppStep(p)
    PROVE  StreamInv'
<1> USE DEF Inv, LockInv
<1>1. CASE Reject(p) \/ UseEndedWriter(p)
  <2>1. /\ pc[p] = "idle" /\ UNCHANGED <<writeErr, cont>>
        /\ \A q \in Procs \ {p} : pc'[q] = pc[q] /\ call'[q] = call[q] /\ res'[q] = res[q]
        /\ pc'[p] = "idle" /\ call'[p].kind = "control" /\ call'[p].fin
    BY <1>1, NoCallFields DEF Reject, UseEndedWriter, TypeOK
  <2>2. StreamAt(p)'
    BY <2>1 DEF StreamInv, StreamAt, Sending
  <2> QED
    BY <2>1, <2>2, OthersStay
<1>2. CASE StartMessage(p)
  <2>1. PICK k \in MessageKinds, t \in AppTypes : Enter(p, k, t, deadline, "acquire")
    BY <1>2 DEF StartMessage
  <2>2. k \in Kinds /\ k # "prepared" /\ t \in Types /\ deadline \in Deadline
    BY TypesAssumption DEF TypeOK
  <2> QED
    BY <2>1, <2>2, EnterStream
<1>3. CASE StartPrepared(p)
  <2>1. PICK t \in AppTypes \ {"bad"} : Enter(p, "prepared", t, deadline, "acquire")
    BY <1>3 DEF StartPrepared
  <2> QED
    BY <2>1, EnterStream, TypesAssumption DEF TypeOK
<1>4. CASE StartControl(p)
  <2>1. PICK t \in AppTypes \cap ControlTypes, d \in Deadlines :
            Enter(p, "control", t, d, "wantMu")
    BY <1>4 DEF StartControl
  <2>2. t \in Types /\ d \in Deadline /\ "control" \in Kinds
    BY TypesAssumption, DeadlineAssumption
  <2> QED
    BY <2>1, <2>2, EnterStream
<1>5. ASSUME NEW f \in BOOLEAN, NEW tooLong \in BOOLEAN, FlushFrame(p, f, tooLong)
      PROVE  StreamInv'
  <2>1. /\ pc[p] = "open" /\ call[p].kind \in MessageKinds
        /\ UNCHANGED <<writeErr, cont>>
        /\ \A q \in Procs \ {p} : pc'[q] = pc[q] /\ call'[q] = call[q] /\ res'[q] = res[q]
    BY <1>5 DEF FlushFrame, TypeOK, KindInv
  <2>2. CASE call[p].type \in ControlTypes /\ (~f \/ tooLong)
    <3>1. pc'[p] = "end" /\ call' = call
      BY <1>5, <2>2 DEF FlushFrame, TypeOK
    <3>2. ~cont[p]
      BY <2>2 DEF StreamInv, StreamAt
    <3>3. StreamAt(p)'
      BY <2>1, <3>1, <3>2 DEF StreamInv, StreamAt, Sending
    <3> QED
      BY <2>1, <3>3, OthersStay
  <2>3. CASE ~(call[p].type \in ControlTypes /\ (~f \/ tooLong))
    <3>1. /\ pc'[p] = "wantMu" /\ call'[p].fin = f
          /\ call'[p].kind = call[p].kind /\ call'[p].type = call[p].type
      BY <1>5, <2>3 DEF FlushFrame, TypeOK, Calls
    <3>2. StreamAt(p)'
      BY <2>1, <2>3, <3>1 DEF StreamInv, StreamAt, Sending
    <3> QED
      BY <2>1, <3>2, OthersStay
  <2> QED
    BY <2>2, <2>3
<1> QED
  BY <1>1, <1>2, <1>3, <1>4, <1>5 DEF AppStep, WriteMore, CloseWriter

(* The steps under mu: by LockTokens no other goroutine is at one of them. *)
LEMMA MuStream ==
    ASSUME Inv, NEW p \in Procs,
           CheckErr(p) \/ NetWrite(p) \/ NetWriteFails(p) \/ WriteFatal(p) \/ Unlock(p)
    PROVE  StreamInv'
<1> USE DEF Inv, LockInv
<1>1. \A q \in Procs \ {p} : pc[q] \notin InMuPCs
  BY DEF CheckErr, NetWrite, NetWriteFails, WriteFatal, Unlock, LockTokens, HoldsMu
<1>2. \A q \in Procs \ {p} : /\ pc'[q] = pc[q] /\ call'[q] = call[q]
                             /\ res'[q] = res[q] /\ cont'[q] = cont[q]
  BY DEF CheckErr, NetWrite, NetWriteFails, WriteFatal, Unlock, TypeOK
<1>a. StreamAt(p)
  BY DEF StreamInv
<1>3. writeErr' = writeErr \/ writeErr' # "nil"
  BY DEF CheckErr, NetWrite, NetWriteFails, WriteFatal, Unlock
<1> SUFFICES StreamAt(p)'
  BY <1>1, <1>2, <1>3, OthersStay
<1>4. CASE CheckErr(p)
  <2>1. /\ pc[p] = "check" /\ UNCHANGED <<writeErr, call, cont>>
        /\ \/ pc'[p] = "unlock" /\ writeErr # "nil" /\ res'[p] = writeErr
           \/ pc'[p] = "latch" /\ writeErr = "nil" /\ res'[p] = "failed"
           \/ pc'[p] = "net" /\ writeErr = "nil"
    BY <1>4 DEF CheckErr, TypeOK
  <2>2. writeErr # "ok"
    BY DEF TypeOK
  <2> QED
    BY <1>a, <2>1, <2>2 DEF StreamAt, Sending
<1>5. CASE NetWrite(p)
  <2>1. /\ pc[p] = "net" /\ UNCHANGED <<writeErr, call>>
        /\ cont'[p] = ~call[p].fin /\ res'[p] = "ok"
        /\ pc'[p] = IF call[p].type = "close" THEN "latch" ELSE "unlock"
    BY <1>5 DEF NetWrite, TypeOK
  <2>0. call[p].type \in Types /\ call[p].kind \in Kinds
    BY CallType DEF TypeOK
  <2>2. /\ call[p].type \in Types \ {"bad"} /\ call[p].kind \in Kinds
        /\ call[p].type \in ControlTypes => call[p].fin
        /\ call[p].kind = "control" => call[p].type \in ControlTypes
        /\ call[p].kind \notin MessageKinds => call[p].fin
    BY <1>a, <2>0, <2>1 DEF StreamAt, Sending
  <2> QED
    BY <1>a, <2>1, <2>2 DEF StreamAt, Sending
<1>6. CASE NetWriteFails(p)
  <2>1. /\ pc[p] = "net" /\ UNCHANGED <<writeErr, call, cont>>
        /\ pc'[p] = "latch" /\ res'[p] = "failed"
    BY <1>6 DEF NetWriteFails, TypeOK
  <2> QED
    BY <1>a, <2>1 DEF StreamAt, Sending
<1>7. CASE WriteFatal(p)
  <2>1. /\ pc[p] = "latch" /\ UNCHANGED <<call, cont, res>>
        /\ pc'[p] = "unlock" /\ writeErr' # "nil"
    BY <1>7 DEF WriteFatal, TypeOK
  <2> QED
    BY <1>a, <2>1 DEF StreamAt, Sending
<1>8. CASE Unlock(p)
  <2>1. /\ pc[p] = "unlock" /\ UNCHANGED <<writeErr, cont, res>>
    BY <1>8 DEF Unlock
  <2>2. \/ /\ call[p].kind = "control" /\ pc'[p] = "idle"
           /\ call'[p].kind = "control" /\ call'[p].fin
        \/ /\ call[p].kind = "prepared" /\ pc'[p] = "release" /\ call'[p] = call[p]
        \/ /\ call[p].kind \in MessageKinds /\ call'[p] = call[p]
           /\ \/ pc'[p] = "open"
              \/ pc'[p] = "end" /\ ~(res[p] = "ok" /\ ~call[p].fin)
    BY <1>8, NoCallFields DEF Unlock, TypeOK
  <2> QED
    BY <1>a, <2>1, <2>2 DEF StreamAt, Sending
<1> QED
  BY <1>4, <1>5, <1>6, <1>7, <1>8

LEMMA OtherStream ==
    ASSUME Inv, NEW p \in Procs, CodeStep(p) \/ ExpireWait(p),
           ~(CheckErr(p) \/ NetWriteFails(p) \/ WriteFatal(p) \/ Unlock(p))
    PROVE  StreamInv'
<1> USE DEF Inv, LockInv
<1>a. StreamAt(p)
  BY DEF StreamInv
<1>1. CASE AcquireWriteMu(p)
  <2>1. /\ pc[p] = "acquire" /\ UNCHANGED <<writeErr, call, cont, res>>
        /\ pc'[p] = IF call[p].kind = "prepared" THEN "wantMu" ELSE "begin"
        /\ \A q \in Procs \ {p} : pc'[q] = pc[q]
    BY <1>1 DEF AcquireWriteMu, TypeOK
  <2>2. call[p].kind # "control"
    BY <2>1 DEF KindInv
  <2>3. StreamAt(p)'
    BY <1>a, <2>1, <2>2 DEF StreamAt, Sending
  <2> QED
    BY <2>1, <2>3, OthersStay
<1>2. ASSUME AcquireTimeout(p) \/ BeginFails(p) \/ TakeMuTimeout(p)
      PROVE  StreamInv'
  <2>1. /\ UNCHANGED <<writeErr, cont>>
        /\ \A q \in Procs \ {p} : pc'[q] = pc[q] /\ call'[q] = call[q] /\ res'[q] = res[q]
        /\ pc'[p] = "idle" /\ call'[p].kind = "control" /\ call'[p].fin
    BY <1>2, NoCallFields DEF AcquireTimeout, BeginFails, TakeMuTimeout, TypeOK
  <2>2. \/ pc[p] \in {"acquire", "begin"}
        \/ pc[p] = "wantMu" /\ call[p].kind = "control"
    BY <1>2 DEF AcquireTimeout, BeginFails, TakeMuTimeout
  <2>3. ~cont[p]
    BY <1>a, <2>2 DEF StreamAt, Sending
  <2>4. StreamAt(p)'
    BY <2>1, <2>3 DEF StreamAt, Sending
  <2> QED
    BY <2>1, <2>4, OthersStay
<1>3. CASE Begin(p)
  <2>1. /\ pc'[p] = "open" /\ call[p].type # "bad" /\ ~cont'[p]
        /\ UNCHANGED <<writeErr, call, res>>
        /\ \A q \in Procs \ {p} : pc'[q] = pc[q] /\ cont'[q] = cont[q]
    BY <1>3 DEF Begin, TypeOK
  <2>2. StreamAt(p)'
    BY <1>a, <2>1 DEF StreamAt, Sending
  <2> QED
    BY <2>1, <2>2, OthersStay
<1>4. CASE TakeMu(p)
  <2>1. /\ pc[p] = "wantMu" /\ pc'[p] = "check" /\ UNCHANGED <<writeErr, call, cont, res>>
        /\ \A q \in Procs \ {p} : pc'[q] = pc[q]
    BY <1>4 DEF TakeMu, TypeOK
  <2>2. StreamAt(p)'
    BY <1>a, <2>1 DEF StreamAt, Sending
  <2> QED
    BY <2>1, <2>2, OthersStay
<1>5. ASSUME EndMessage(p) \/ ReleasePrepared(p)
      PROVE  StreamInv'
  <2>1. /\ ~cont'[p] /\ UNCHANGED <<writeErr, res>>
        /\ \A q \in Procs \ {p} : pc'[q] = pc[q] /\ call'[q] = call[q] /\ cont'[q] = cont[q]
        /\ pc'[p] = "idle" /\ call'[p].kind = "control" /\ call'[p].fin
    BY <1>5, <1>a, NoCallFields DEF EndMessage, ReleasePrepared, TypeOK, StreamAt, Sending
  <2>2. StreamAt(p)'
    BY <2>1 DEF StreamAt, Sending
  <2> QED
    BY <2>1, <2>2, OthersStay
<1>6. CASE ExpireWait(p)
  <2>1. /\ UNCHANGED <<writeErr, pc, cont, res>>
        /\ \A q \in Procs : /\ call'[q].kind = call[q].kind
                            /\ call'[q].type = call[q].type /\ call'[q].fin = call[q].fin
    BY <1>6 DEF ExpireWait, TypeOK, Calls
  <2> SUFFICES ASSUME NEW q \in Procs PROVE StreamAt(q)'
    BY DEF StreamInv
  <2>2. StreamAt(q)
    BY DEF StreamInv
  <2> QED
    BY <2>1, <2>2 DEF StreamAt, Sending
<1> QED
  BY <1>1, <1>2, <1>3, <1>4, <1>5, <1>6 DEF CodeStep

LEMMA StreamInvariant == Spec => []Inv
<1>1. Init => StreamInv
  <2> SUFFICES ASSUME Init, NEW p \in Procs PROVE StreamAt(p)
    BY DEF StreamInv
  <2>1. /\ pc[p] = "idle" /\ ~cont[p]
        /\ call[p].kind = "control" /\ call[p].fin
    BY NoCallFields DEF Init
  <2> QED
    BY <2>1 DEF StreamAt, Sending
<1>2. Inv /\ [Next]_vars => StreamInv'
  <2> SUFFICES ASSUME Inv, [Next]_vars PROVE StreamInv'
    OBVIOUS
  <2>1. ASSUME NEW p \in Procs, CodeStep(p) \/ NetWrite(p) \/ ExpireWait(p)
        PROVE  StreamInv'
    BY <2>1, MuStream, OtherStream
  <2>2. CASE SetWriteDeadline \/ NetDown \/ ExpireStored \/ UNCHANGED vars
    <3>1. writeErr' = writeErr /\ pc' = pc /\ call' = call /\ cont' = cont /\ res' = res
      BY <2>2 DEF SetWriteDeadline, NetDown, ExpireStored
    <3> QED
      BY <3>1 DEF Inv, StreamInv, StreamAt, Sending
  <2> QED
    BY <2>1, <2>2, AppStream DEF Next
<1> QED
  BY <1>1, <1>2, LockInvariant, PTL DEF Spec, Inv
-----------------------------------------------------------------------------
(* While p is under mu and no error is recorded, no other goroutine has a  *)
(* result that is still to be recorded.                                    *)
LEMMA NoneLatched ==
    ASSUME Inv, NEW p \in Procs, HoldsMu(p), pc[p] # "latch", writeErr = "nil"
    PROVE  ~Broken /\ ~Closed
BY DEF Inv, LockInv, LockTokens, HoldsMu, Broken, Closed

(* Only NetWrite puts a frame on the wire, and only WriteFatal changes     *)
(* writeErr.                                                               *)
LEMMA Frozen ==
    ASSUME [Next]_vars
    PROVE  /\ wire' = wire \/ \E p \in Procs : NetWrite(p)
           /\ writeErr' = writeErr \/ \E p \in Procs : WriteFatal(p)
<1>1. ASSUME NEW p \in Procs, AppStep(p) PROVE UNCHANGED <<wire, writeErr>>
  BY <1>1 DEF AppStep, Reject, StartMessage, StartPrepared, StartControl, Enter, WriteMore,
              CloseWriter, FlushFrame, UseEndedWriter
<1>2. ASSUME NEW p \in Procs, CodeStep(p), ~WriteFatal(p) PROVE UNCHANGED <<wire, writeErr>>
  BY <1>2 DEF CodeStep, AcquireWriteMu, AcquireTimeout, BeginFails, Begin, TakeMu,
              TakeMuTimeout, CheckErr, NetWriteFails, Unlock, EndMessage, ReleasePrepared
<1>3. ASSUME NEW p \in Procs, WriteFatal(p) PROVE wire' = wire
  BY <1>3 DEF WriteFatal
<1>4. ASSUME NEW p \in Procs, NetWrite(p) PROVE writeErr' = writeErr
  BY <1>4 DEF NetWrite
<1>5. ASSUME NEW p \in Procs, ExpireWait(p) PROVE UNCHANGED <<wire, writeErr>>
  BY <1>5 DEF ExpireWait
<1>6. CASE SetWriteDeadline \/ NetDown \/ ExpireStored \/ UNCHANGED vars
  BY <1>6 DEF SetWriteDeadline, NetDown, ExpireStored
<1> QED
  BY <1>1, <1>2, <1>3, <1>4, <1>5, <1>6 DEF Next

(* After the first write error, no byte is written and the error stays     *)
(* what it was.                                                            *)
THEOREM ErrorStays == Spec => WriteErrLatched
<1>1. ASSUME Inv, [Next]_vars, writeErr # "nil"
      PROVE  writeErr' = writeErr /\ wire' = wire
  <2>1. ASSUME NEW p \in Procs, NetWrite(p) PROVE FALSE
    BY <1>1, <2>1 DEF NetWrite, Inv, StreamInv, StreamAt
  <2>2. ASSUME NEW p \in Procs, WriteFatal(p) PROVE FALSE
    BY <1>1, <2>2 DEF WriteFatal, Inv, StreamInv, StreamAt
  <2> QED
    BY <1>1, <2>1, <2>2, Frozen
<1>2. Inv /\ [Next]_vars => [writeErr # "nil" => writeErr' = writeErr /\ wire' = wire]_vars
  BY <1>1
<1> QED
  BY <1>2, StreamInvariant, PTL DEF Spec, WriteErrLatched
-----------------------------------------------------------------------------
(* The refinement.  Four kinds of step: a frame that the net.Conn took,    *)
(* a write that failed, and the steps that only change what is private to  *)
(* the connection, of which those that record an error or forget a writer  *)
(* are told apart.                                                         *)
LEMMA OpenMsgOf ==
    ASSUME Inv, NEW p \in Procs, cont[p], ~Broken, ~Closed
    PROVE  OpenMsg = MsgId(p)
<1>1. \A q \in Procs : cont[q] => HoldsWriteMu(q) \/ writeErr # "nil"
  BY DEF Inv, StreamInv, StreamAt, HoldsWriteMu, Sending
<1>2. writeErr = "nil"
  BY DEF Broken, Closed, Inv, LockInv, TypeOK
<1>3. \A q \in Procs : cont[q] => q = p
  BY <1>1, <1>2 DEF Inv, LockInv, LockTokens
<1> QED
  BY <1>3 DEF OpenMsg

LEMMA FrameStep ==
    ASSUME Inv, Inv', NEW p \in Procs, NetWrite(p)
    PROVE  FS!Next
<1> DEFINE m == MsgId(p)
<1>1. /\ pc[p] = "net" /\ writeErr = "nil" /\ ~Broken /\ ~Closed
      /\ wire' = Append(wire, [msg |-> m, op |-> IF cont[p] THEN "cont" ELSE call[p].type,
                               fin |-> call[p].fin])
      /\ UNCHANGED <<writeErr, call, ops>>
      /\ cont'[p] = ~call[p].fin /\ res'[p] = "ok"
      /\ pc'[p] = IF call[p].type = "close" THEN "latch" ELSE "unlock"
      /\ \A q \in Procs \ {p} : /\ pc[q] \notin InMuPCs /\ pc'[q] = pc[q]
                                /\ cont'[q] = cont[q]
  BY NoneLatched DEF NetWrite, Inv, LockInv, TypeOK, StreamInv, StreamAt, LockTokens, HoldsMu
<1>2. /\ call[p].type \in Types \ {"bad"} /\ call[p].fin \in BOOLEAN
      /\ call[p].type \in ControlTypes => call[p].fin /\ ~cont[p]
      /\ cont[p] => call[p].type = "data"
      /\ call[p].type = "data" => HoldsWriteMu(p)
  <2>1. call[p] \in Calls /\ StreamAt(p) /\ cont[p] \in BOOLEAN /\ pc[p] \in Sending
    BY <1>1 DEF Inv, LockInv, TypeOK, StreamInv, Sending, InMuPCs
  <2>2. call[p].type \in Types /\ call[p].kind \in Kinds /\ call[p].fin \in BOOLEAN
    BY <2>1, CallType
  <2>3. cont[p] => call[p].type = "data"
    BY <2>1 DEF StreamAt
  <2>4. call[p].type # "bad" /\ (call[p].type \in ControlTypes => call[p].fin)
    BY <2>1 DEF StreamAt
  <2>5. call[p].type = "data" => HoldsWriteMu(p)
    BY <1>1, <2>1 DEF StreamAt, HoldsWriteMu, ControlTypes, Sending, InMuPCs
  <2> QED BY <2>2, <2>3, <2>4, <2>5 DEF ControlTypes
<1>3. m \in Msgs /\ m # None /\ m' = m
  BY <1>1, NoneAssumption DEF Inv, LockInv, TypeOK, MsgId, Msgs
<1>4. CASE call[p].type = "close"
  <2>1. ~Broken' /\ Closed'
    BY <1>1, <1>4 DEF Broken, Closed
  <2>2. FS!SendClose(m)
    BY <1>1, <1>2, <1>4, <2>1 DEF FS!SendClose, OpenMsg
  <2> QED
    BY <1>3, <2>2 DEF FS!Next
<1>5. (~Broken' /\ ~Closed') \/ call[p].type = "close"
  BY <1>1 DEF Broken, Closed
<1>6. CASE call[p].type = "ping"
  <2>1. OpenMsg' = OpenMsg
    <3>1. \A q \in Procs : cont'[q] = cont[q]
      BY <1>1, <1>2, <1>6 DEF Inv, LockInv, TypeOK
    <3>2. cont' = cont
      BY <3>1 DEF Inv, LockInv, TypeOK
    <3> QED
      BY <1>1, <1>5, <1>6, <3>2 DEF OpenMsg, MsgId
  <2>2. FS!SendPing(m)
    BY <1>1, <1>2, <1>5, <1>6, <2>1 DEF FS!SendPing
  <2> QED
    BY <1>3, <2>2 DEF FS!Next
<1>7. CASE call[p].type = "data"
  <2>1. \A q \in Procs \ {p} : ~cont[q]
    BY <1>1, <1>2, <1>7 DEF Inv, LockInv, LockTokens, StreamInv, StreamAt, HoldsWriteMu, Sending
  <2>2. OpenMsg = IF cont[p] THEN m ELSE None
    <3>1. CASE cont[p]
      BY <1>1, <3>1, OpenMsgOf
    <3>2. CASE ~cont[p]
      BY <2>1, <3>2 DEF OpenMsg
    <3> QED
      BY <3>1, <3>2
  <2>3. OpenMsg' = IF call[p].fin THEN None ELSE m
    <3>1. CASE call[p].fin
      BY <1>1, <2>1, <3>1 DEF OpenMsg
    <3>2. CASE ~call[p].fin
      <4>1. \A q \in Procs : cont'[q] => q = p
        BY <1>1, <2>1
      <4>2. (CHOOSE q \in Procs : cont'[q]) = p
        BY <1>1, <3>2, <4>1
      <4> QED
        BY <1>1, <1>3, <1>5, <1>7, <3>2, <4>2 DEF OpenMsg, MsgId
    <3> QED
      BY <3>1, <3>2
  <2>4. FS!SendData(m, call[p].fin)
    BY <1>1, <1>2, <1>3, <1>5, <1>7, <2>2, <2>3 DEF FS!SendData
  <2> QED
    BY <1>2, <1>3, <2>4 DEF FS!Next
<1> QED
  BY <1>2, <1>4, <1>6, <1>7

LEMMA BreakStep ==
    ASSUME Inv, NEW p \in Procs,
           NetWriteFails(p) \/ (CheckErr(p) /\ pc'[p] = "latch")
    PROVE  FS!Next
<1>1. /\ pc[p] \in {"check", "net"} /\ writeErr = "nil" /\ ~Broken /\ ~Closed
      /\ UNCHANGED <<wire, writeErr>>
      /\ pc'[p] = "latch" /\ res'[p] = "failed"
      /\ \A q \in Procs \ {p} : pc[q] \notin InMuPCs /\ pc'[q] = pc[q]
  BY NoneLatched DEF NetWriteFails, CheckErr, Inv, LockInv, TypeOK, StreamInv, StreamAt, LockTokens, HoldsMu
<1>2. Broken' /\ ~Closed'
  BY <1>1 DEF Broken, Closed
<1>3. FS!Break
  BY <1>1, <1>2 DEF FS!Break, OpenMsg
<1> QED
  BY <1>3 DEF FS!Next

(* A step that neither writes nor records keeps the abstract state when it *)
(* keeps the writers that have sent part of their message.                 *)
LEMMA SameStream ==
    ASSUME Inv, UNCHANGED wire, Broken' <=> Broken, Closed' <=> Closed,
           ~Broken /\ ~Closed => cont' = cont /\ \A q \in Procs : cont[q] => ops'[q] = ops[q]
    PROVE  UNCHANGED FS!vars
<1>1. OpenMsg' = OpenMsg
  <2>1. CASE ~Broken /\ ~Closed /\ \E q \in Procs : cont[q]
    <3> DEFINE w == CHOOSE q \in Procs : cont[q]
    <3>1. w \in Procs /\ cont[w] /\ cont' = cont /\ ops'[w] = ops[w]
      BY <2>1
    <3> QED
      BY <2>1, <3>1 DEF OpenMsg, MsgId
  <2>2. CASE ~(~Broken /\ ~Closed /\ \E q \in Procs : cont[q])
    BY <2>2 DEF OpenMsg
  <2> QED
    BY <2>1, <2>2
<1> QED
  BY <1>1 DEF FS!vars

LEMMA RecordStep ==
    ASSUME Inv, NEW p \in Procs, WriteFatal(p)
    PROVE  UNCHANGED FS!vars
<1>1. /\ pc[p] = "latch" /\ writeErr = "nil" /\ UNCHANGED <<wire, cont, ops, res>>
      /\ res[p] \in {"ok", "failed"}
      /\ writeErr' = IF res[p] = "ok" THEN "closeSent" ELSE "failed"
      /\ pc'[p] = "unlock"
      /\ \A q \in Procs \ {p} : pc[q] \notin InMuPCs /\ pc'[q] = pc[q]
  BY DEF WriteFatal, Inv, LockInv, TypeOK, StreamInv, StreamAt, LockTokens, HoldsMu
<1>2. (Broken' <=> Broken) /\ (Closed' <=> Closed)
  BY <1>1 DEF Broken, Closed
<1> QED
  BY <1>1, <1>2, SameStream

Visible(p) == \/ NetWrite(p) \/ NetWriteFails(p) \/ WriteFatal(p)
              \/ CheckErr(p) /\ pc'[p] = "latch"

LEMMA QuietStep ==
    ASSUME Inv, [Next]_vars, \A p \in Procs : ~Visible(p)
    PROVE  UNCHANGED FS!vars
<1> USE DEF Inv, LockInv, Visible
<1>1. UNCHANGED <<wire, writeErr>>
  BY Frozen
<1>2. \A p \in Procs : /\ pc[p] = "latch" <=> pc'[p] = "latch"
                       /\ pc[p] = "latch" => res'[p] = res[p]
  <2>1. ASSUME NEW p \in Procs, AppStep(p)
        PROVE  \A q \in Procs : /\ pc[q] = "latch" <=> pc'[q] = "latch"
                                /\ pc[q] = "latch" => res'[q] = res[q]
    BY <2>1 DEF AppStep, Reject, StartMessage, StartPrepared, StartControl, Enter, WriteMore,
                CloseWriter, FlushFrame, UseEndedWriter, TypeOK
  <2>2. ASSUME NEW p \in Procs, CodeStep(p)
        PROVE  \A q \in Procs : /\ pc[q] = "latch" <=> pc'[q] = "latch"
                                /\ pc[q] = "latch" => res'[q] = res[q]
    BY <2>2 DEF CodeStep, AcquireWriteMu, AcquireTimeout, BeginFails, Begin, TakeMu,
                TakeMuTimeout, CheckErr, Unlock, EndMessage, ReleasePrepared, TypeOK
  <2>3. CASE \/ \E p \in Procs : ExpireWait(p)
             \/ SetWriteDeadline \/ NetDown \/ ExpireStored \/ UNCHANGED vars
    BY <2>3 DEF ExpireWait, SetWriteDeadline, NetDown, ExpireStored
  <2> QED
    BY <2>1, <2>2, <2>3 DEF Next
<1>3. (Broken' <=> Broken) /\ (Closed' <=> Closed)
  <2>1. \A p \in Procs : (pc[p] = "latch" /\ res[p] = "failed")
                           <=> (pc'[p] = "latch" /\ res'[p] = "failed")
    BY <1>2
  <2>2. \A p \in Procs : (pc[p] = "latch" /\ res[p] = "ok")
                           <=> (pc'[p] = "latch" /\ res'[p] = "ok")
    BY <1>2
  <2> QED
    BY <1>1, <2>1, <2>2 DEF Broken, Closed
<1>4. ASSUME ~Broken, ~Closed
      PROVE  cont' = cont /\ \A q \in Procs : cont[q] => ops'[q] = ops[q]
  <2>0. writeErr = "nil"
    BY <1>4 DEF Broken, Closed, TypeOK
  <2>1. ASSUME NEW p \in Procs, EndMessage(p) \/ Begin(p)
        PROVE  cont' = cont /\ ops' = ops
    <3>1. ~cont[p] /\ ops' = ops /\ cont' = [cont EXCEPT ![p] = FALSE]
      BY <2>0, <2>1 DEF EndMessage, Begin, StreamInv, StreamAt, Sending
    <3> QED
      BY <3>1 DEF TypeOK
  <2>2. ASSUME NEW p \in Procs, AppStep(p)
        PROVE  cont' = cont /\ \A q \in Procs : cont[q] => ops'[q] = ops[q]
    <3>1. cont' = cont
      BY <2>2 DEF AppStep, Reject, StartMessage, StartPrepared, StartControl, Enter,
                  WriteMore, CloseWriter, FlushFrame, UseEndedWriter
    <3>2. ops' = ops \/ (pc[p] = "idle" /\ \A q \in Procs \ {p} : ops'[q] = ops[q])
      BY <2>2 DEF AppStep, Reject, StartMessage, StartPrepared, StartControl, Enter,
                  WriteMore, CloseWriter, FlushFrame, UseEndedWriter, TypeOK
    <3>3. pc[p] = "idle" => ~cont[p]
      BY DEF StreamInv, StreamAt, Sending
    <3> QED
      BY <3>1, <3>2, <3>3 DEF TypeOK
  <2>3. ASSUME NEW p \in Procs, CodeStep(p), ~EndMessage(p), ~Begin(p)
        PROVE  cont' = cont /\ ops' = ops
    BY <2>3 DEF CodeStep, AcquireWriteMu, AcquireTimeout, BeginFails, TakeMu,
                TakeMuTimeout, CheckErr, Unlock, ReleasePrepared
  <2>4. CASE \/ \E p \in Procs : ExpireWait(p)
             \/ SetWriteDeadline \/ NetDown \/ ExpireStored \/ UNCHANGED vars
    BY <2>4 DEF ExpireWait, SetWriteDeadline, NetDown, ExpireStored
  <2> QED
    BY <2>1, <2>2, <2>3, <2>4 DEF Next
<1> QED
  BY <1>1, <1>3, <1>4, SameStream

(* The wire is one that FrameStream allows: fragments of two messages are  *)
(* never mixed, and nothing follows a close frame or a failed write.       *)
THEOREM Implements == Spec => ImplementsFrameStream
<1>1. Init => FS!Init
  BY DEF Init, FS!Init, Broken, Closed, OpenMsg
<1>2. Inv /\ Inv' /\ [Next]_vars => [FS!Next]_(FS!vars)
  <2> SUFFICES ASSUME Inv, Inv', [Next]_vars PROVE FS!Next \/ UNCHANGED FS!vars
    OBVIOUS
  <2>1. ASSUME NEW p \in Procs, NetWrite(p) PROVE FS!Next
    BY <2>1, FrameStep
  <2>2. ASSUME NEW p \in Procs, NetWriteFails(p) \/ (CheckErr(p) /\ pc'[p] = "latch")
        PROVE  FS!Next
    BY <2>2, BreakStep
  <2>3. ASSUME NEW p \in Procs, WriteFatal(p) PROVE UNCHANGED FS!vars
    BY <2>3, RecordStep
  <2>4. CASE \A p \in Procs : ~Visible(p)
    BY <2>4, QuietStep
  <2>5. ASSUME NEW p \in Procs, Visible(p) PROVE FS!Next \/ UNCHANGED FS!vars
    <3>1. \/ NetWrite(p) \/ NetWriteFails(p) \/ (CheckErr(p) /\ pc'[p] = "latch")
          \/ WriteFatal(p)
      BY <2>5 DEF Visible
    <3> QED
      BY <2>1, <2>2, <2>3, <3>1, Zenon
  <2> QED
    BY <2>4, <2>5
<1> QED
  BY <1>1, <1>2, StreamInvariant, PTL DEF Spec, ImplementsFrameStream, FS!Spec
-----------------------------------------------------------------------------
(* A goroutine that holds writeMu and has no messageWriter: the buffer is  *)
(* where the last message left it.                                         *)
Between(p) == \/ pc[p] = "begin"
              \/ call[p].kind = "prepared" /\ pc[p] \in {"wantMu", "release"} \cup InMuPCs

(* A goroutine whose messageWriter has not ended.                          *)
Writing(p) == \/ pc[p] \in {"open", "end"}
              \/ call[p].kind \in MessageKinds /\ pc[p] \in {"wantMu"} \cup InMuPCs

AtRest == writer = None /\ writeBuf = ~UsePool

BufferInv ==
    /\ \A p \in Procs : Between(p) => AtRest
    /\ \A p \in Procs : mw[p] = "live" => Writing(p) /\ writeBuf
    /\ writeMu => AtRest

BufInv == LockInv /\ BufferInv

(* At most one goroutine is in a message, and none is when writeMu is free *)
LEMMA OneMessage ==
    ASSUME LockInv, NEW p \in Procs, NEW q \in Procs, Between(p) \/ Writing(p)
    PROVE  ~writeMu /\ (Between(q) \/ Writing(q) => p = q)
<1>1. \A r \in Procs : Between(r) \/ Writing(r) => HoldsWriteMu(r)
  BY DEF Between, Writing, HoldsWriteMu
<1> QED BY <1>1 DEF LockInv, LockTokens

(* A step of p that leaves the buffer alone, and that neither brings p     *)
(* between messages nor lets a live writer out of its message.             *)
LEMMA BufferStays ==
    ASSUME BufInv, NEW p \in Procs, UNCHANGED <<writer, writeBuf>>,
           \A q \in Procs \ {p} : /\ pc'[q] = pc[q] /\ call'[q].kind = call[q].kind
                                  /\ mw'[q] = mw[q],
           Between(p)' => Between(p) \/ writeMu,
           mw'[p] = "live" => mw[p] = "live" /\ Writing(p)',
           writeMu' => writeMu \/ Between(p)
    PROVE  BufferInv'
BY DEF BufInv, BufferInv, Between, Writing, AtRest

LEMMA EnterBuffer ==
    ASSUME BufInv, NEW p \in Procs, NEW k \in Kinds, NEW t \in Types, NEW d \in Deadline,
           NEW l \in {"acquire", "wantMu"}, k = "control" <=> l = "wantMu",
           Enter(p, k, t, d, l)
    PROVE  BufferInv'
<1>1. pc[p] = "idle" /\ UNCHANGED <<writer, writeBuf, writeMu, mw>> /\ mw[p] # "live"
  BY DEF Enter, BufInv, BufferInv, Writing
<1>2. \A q \in Procs \ {p} : pc'[q] = pc[q] /\ call'[q] = call[q]
  BY DEF Enter, BufInv, LockInv, TypeOK
<1>3. \/ pc'[p] = "idle"
      \/ pc'[p] = l /\ call'[p].kind = k
  <2>1. CASE d = "past"
    BY <2>1 DEF Enter, BufInv, LockInv, TypeOK
  <2>2. CASE d # "past"
    BY <2>2 DEF Enter, BufInv, LockInv, TypeOK
  <2> QED BY <2>1, <2>2
<1>4. ~Between(p)'
  BY <1>3 DEF Between
<1> QED BY <1>1, <1>2, <1>4, BufferStays

LEMMA AppBuffer ==
    ASSUME BufInv, NEW p \in Procs, AppStep(p)
    PROVE  BufferInv'
<1>1. CASE Reject(p) \/ UseEndedWriter(p)
  <2>1. /\ pc[p] = "idle" /\ pc'[p] = "idle" /\ UNCHANGED <<writer, writeBuf, writeMu, mw>>
        /\ \A q \in Procs \ {p} : pc'[q] = pc[q] /\ call'[q] = call[q]
    BY <1>1 DEF Reject, UseEndedWriter, BufInv, LockInv, TypeOK
  <2>2. mw[p] # "live" /\ ~Between(p)'
    BY <2>1 DEF BufInv, BufferInv, Writing, Between
  <2> QED BY <2>1, <2>2, BufferStays
<1>a. deadline \in Deadline
  BY DEF BufInv, LockInv, TypeOK
<1>2. CASE StartMessage(p)
  <2>1. PICK k \in MessageKinds, t \in AppTypes : Enter(p, k, t, deadline, "acquire")
    BY <1>2 DEF StartMessage
  <2>2. k \in Kinds /\ k # "control" /\ t \in Types
    BY TypesAssumption
  <2> QED BY <1>a, <2>1, <2>2, EnterBuffer
<1>3. CASE StartPrepared(p)
  <2>1. PICK t \in AppTypes : Enter(p, "prepared", t, deadline, "acquire")
    BY <1>3 DEF StartPrepared
  <2>2. "prepared" \in Kinds /\ t \in Types
    BY TypesAssumption
  <2> QED BY <1>a, <2>1, <2>2, EnterBuffer
<1>4. CASE StartControl(p)
  <2>1. PICK t \in AppTypes, d \in Deadlines : Enter(p, "control", t, d, "wantMu")
    BY <1>4 DEF StartControl
  <2>2. "control" \in Kinds /\ t \in Types /\ d \in Deadline
    BY TypesAssumption, DeadlineAssumption
  <2> QED BY <2>1, <2>2, EnterBuffer
<1>5. ASSUME NEW f \in BOOLEAN, NEW tooLong \in BOOLEAN, FlushFrame(p, f, tooLong)
      PROVE  BufferInv'
  <2>1. /\ pc[p] = "open" /\ pc'[p] \in {"end", "wantMu"} /\ call[p].kind \in MessageKinds
        /\ UNCHANGED <<writer, writeBuf, writeMu, mw>>
        /\ \A q \in Procs \ {p} : pc'[q] = pc[q] /\ call'[q] = call[q]
    BY <1>5 DEF FlushFrame, BufInv, LockInv, TypeOK, KindInv
  <2>2. call'[p].kind = call[p].kind
    <3>1. \/ call' = call
          \/ call' = [call EXCEPT ![p] = [call[p] EXCEPT !.dl = deadline, !.fin = f]]
      BY <1>5 DEF FlushFrame
    <3>2. call \in [Procs -> Calls]
      BY DEF BufInv, LockInv, TypeOK
    <3>3. call[p] \in Calls
      BY <3>2
    <3>4. [call[p] EXCEPT !.dl = deadline, !.fin = f].kind = call[p].kind
      BY <3>3 DEF Calls
    <3> QED BY <3>1, <3>2, <3>4
  <2>3. ~Between(p)' /\ Writing(p)'
    BY <2>1, <2>2 DEF Between, Writing
  <2> QED BY <2>1, <2>3, BufferStays
<1> QED
  BY <1>1, <1>2, <1>3, <1>4, <1>5 DEF AppStep, WriteMore, CloseWriter

LEMMA CodeBuffer ==
    ASSUME BufInv, NEW p \in Procs, CodeStep(p) \/ NetWrite(p)
    PROVE  BufferInv'
<1> USE DEF BufInv, LockInv, TypeOK
<1>0. call[p].kind \in Kinds
  BY CallType
<1>1. CASE AcquireWriteMu(p)
  <2>1. /\ writeMu /\ ~writeMu' /\ pc[p] = "acquire"
        /\ UNCHANGED <<writer, writeBuf, mw, call>>
        /\ \A q \in Procs \ {p} : pc'[q] = pc[q]
    BY <1>1 DEF AcquireWriteMu
  <2>2. mw[p] # "live"
    BY <2>1 DEF BufferInv, Writing, KindInv
  <2> QED BY <2>1, <2>2, BufferStays
<1>2. CASE AcquireTimeout(p)
  <2>1. /\ pc[p] = "acquire" /\ pc'[p] = "idle"
        /\ UNCHANGED <<writer, writeBuf, writeMu, mw>>
        /\ \A q \in Procs \ {p} : pc'[q] = pc[q] /\ call'[q] = call[q]
    BY <1>2 DEF AcquireTimeout
  <2>2. mw[p] # "live" /\ ~Between(p)'
    BY <2>1 DEF BufferInv, Writing, Between
  <2> QED BY <2>1, <2>2, BufferStays
<1>3. CASE BeginFails(p)
  <2>1. /\ pc[p] = "begin" /\ pc'[p] = "idle"
        /\ UNCHANGED <<writer, writeBuf, mw>>
        /\ \A q \in Procs \ {p} : pc'[q] = pc[q] /\ call'[q] = call[q]
    BY <1>3 DEF BeginFails
  <2>2. mw[p] # "live" /\ ~Between(p)' /\ Between(p)
    BY <2>1 DEF BufferInv, Writing, Between
  <2> QED BY <2>1, <2>2, BufferStays
<1>4. CASE Begin(p)
  <2>1. /\ pc[p] = "begin" /\ pc'[p] = "open" /\ writeBuf'
        /\ UNCHANGED <<writeMu, call>>
        /\ \A q \in Procs \ {p} : pc'[q] = pc[q] /\ mw'[q] = mw[q]
    BY <1>4 DEF Begin
  <2>2. ~writeMu /\ \A q \in Procs \ {p} : ~Between(q) /\ ~Writing(q)
    BY <2>1, OneMessage DEF Between
  <2>3. \A q \in Procs \ {p} : ~Between(q)' /\ mw'[q] # "live"
    BY <2>1, <2>2 DEF Between, BufferInv
  <2>4. call[p].kind \in MessageKinds
    BY <2>1 DEF KindInv
  <2>5. ~Between(p)' /\ Writing(p)'
    BY <2>1, <2>4 DEF Between, Writing
  <2> QED BY <2>1, <2>2, <2>3, <2>5 DEF BufferInv
<1>5. CASE TakeMu(p) \/ NetWrite(p) \/ NetWriteFails(p) \/ WriteFatal(p)
  <2>1. /\ pc[p] \in {"wantMu"} \cup InMuPCs /\ pc'[p] \in InMuPCs
        /\ UNCHANGED <<writer, writeBuf, writeMu, mw, call>>
        /\ \A q \in Procs \ {p} : pc'[q] = pc[q]
    BY <1>5 DEF TakeMu, NetWrite, NetWriteFails, WriteFatal
  <2>2. (Between(p)' => Between(p)) /\ (Writing(p) => Writing(p)')
    BY <2>1 DEF Between, Writing
  <2>3. mw[p] = "live" => Writing(p)
    BY DEF BufferInv
  <2> QED BY <2>1, <2>2, <2>3, BufferStays
<1>6. CASE TakeMuTimeout(p)
  <2>1. /\ pc[p] = "wantMu" /\ call[p].kind = "control" /\ pc'[p] = "idle"
        /\ UNCHANGED <<writer, writeBuf, writeMu, mw>>
        /\ \A q \in Procs \ {p} : pc'[q] = pc[q] /\ call'[q] = call[q]
    BY <1>6 DEF TakeMuTimeout
  <2>2. mw[p] # "live" /\ ~Between(p)'
    BY <2>1 DEF BufferInv, Writing, Between
  <2> QED BY <2>1, <2>2, BufferStays
<1>7. CASE CheckErr(p)
  <2>1. /\ pc[p] = "check" /\ pc'[p] \in InMuPCs
        /\ UNCHANGED <<writer, writeBuf, writeMu, mw, call>>
        /\ \A q \in Procs \ {p} : pc'[q] = pc[q]
    BY <1>7 DEF CheckErr
  <2>2. (Between(p)' => Between(p)) /\ (Writing(p) => Writing(p)')
    BY <2>1 DEF Between, Writing
  <2>3. mw[p] = "live" => Writing(p)
    BY DEF BufferInv
  <2> QED BY <2>1, <2>2, <2>3, BufferStays
<1>8. CASE Unlock(p)
  <2>1. /\ pc[p] = "unlock" /\ UNCHANGED <<writer, writeBuf, writeMu, mw>>
        /\ \A q \in Procs \ {p} : pc'[q] = pc[q] /\ call'[q] = call[q]
    BY <1>8 DEF Unlock
  <2>2. \/ call[p].kind = "control" /\ pc'[p] = "idle"
        \/ call[p].kind = "prepared" /\ pc'[p] = "release" /\ call'[p] = call[p]
        \/ /\ call[p].kind \in MessageKinds
           /\ pc'[p] \in {"open", "end"} /\ call'[p] = call[p]
    BY <1>8 DEF Unlock
  <2>3. Between(p)' => Between(p)
    BY <2>1, <2>2 DEF Between
  <2>4. mw[p] = "live" => Writing(p)'
    BY <2>1, <2>2 DEF BufferInv, Writing
  <2> QED BY <2>1, <2>3, <2>4, BufferStays
<1>9. CASE EndMessage(p)
  <2>1. /\ pc[p] = "end" /\ pc'[p] = "idle" /\ writer' = None /\ writeBuf' = ~UsePool
        /\ mw'[p] # "live"
        /\ \A q \in Procs \ {p} : pc'[q] = pc[q] /\ mw'[q] = mw[q]
    BY <1>9 DEF EndMessage
  <2>2. \A q \in Procs \ {p} : ~Writing(q)
    BY <2>1, OneMessage DEF Writing
  <2>3. \A q \in Procs \ {p} : mw'[q] # "live"
    BY <2>1, <2>2 DEF BufferInv
  <2> QED BY <2>1, <2>3 DEF BufferInv, AtRest
<1>10. CASE ReleasePrepared(p)
  <2>1. /\ pc[p] = "release" /\ call[p].kind = "prepared" /\ pc'[p] = "idle"
        /\ UNCHANGED <<writer, writeBuf, mw>>
        /\ \A q \in Procs \ {p} : pc'[q] = pc[q] /\ call'[q] = call[q]
    BY <1>10 DEF ReleasePrepared, KindInv
  <2>2. mw[p] # "live" /\ ~Between(p)' /\ Between(p)
    BY <2>1 DEF BufferInv, Writing, Between
  <2> QED BY <2>1, <2>2, BufferStays
<1> QED
  BY <1>1, <1>2, <1>3, <1>4, <1>5, <1>6, <1>7, <1>8, <1>9, <1>10 DEF CodeStep

LEMMA BufferInvariant == Spec => []BufInv
<1>1. Init => BufferInv
  BY DEF Init, BufferInv, AtRest, Between, NoCall
<1>2. BufInv /\ [Next]_vars => BufferInv'
  <2> SUFFICES ASSUME BufInv, [Next]_vars PROVE BufferInv'
    OBVIOUS
  <2>1. ASSUME NEW p \in Procs, ExpireWait(p) PROVE BufferInv'
    <3>1. \A q \in Procs : call'[q].kind = call[q].kind
      BY <2>1 DEF ExpireWait, BufInv, LockInv, TypeOK, Calls
    <3>2. UNCHANGED <<pc, mw, writer, writeBuf, writeMu>>
      BY <2>1 DEF ExpireWait
    <3> QED BY <3>1, <3>2 DEF BufInv, BufferInv, Between, Writing, AtRest
  <2>2. CASE SetWriteDeadline \/ NetDown \/ ExpireStored \/ UNCHANGED vars
    BY <2>2 DEF SetWriteDeadline, NetDown, ExpireStored, BufInv, BufferInv, Between, Writing, AtRest
  <2> QED BY <2>1, <2>2, AppBuffer, CodeBuffer DEF Next
<1> QED BY <1>1, <1>2, LockInvariant, PTL DEF Spec, BufInv

(* beginMessage never finds a writer of an earlier message, a message in   *)
(* progress has the buffer, and between messages a pooled buffer is back   *)
(* in its pool (conn.go 661-700, 784-801).                                 *)
THEOREM BufferIsOwned == Spec => []BufferOwned
<1>1. BufInv => BufferOwned
  BY DEF BufInv, LockInv, BufferInv, BufferOwned, AtRest, Between, Writing, HoldsWriteMu, KindInv
<1> QED BY <1>1, BufferInvariant, PTL
-----------------------------------------------------------------------------
Touched(p) == \E i \in DOMAIN wire : wire[i].msg = MsgId(p)

(* No frame belongs to a call that has not been made.                      *)
NoFuture == \A i \in DOMAIN wire, p \in Procs :
                \A n \in Nat : wire[i].msg = <<p, n>> => n <= ops[p]

(* What of its message is on the wire at each point of a call, and what    *)
(* the call is going to say of it.                                         *)
Honest(p) ==
    /\ pc[p] = "acquire" \/ (pc[p] = "wantMu" /\ call[p].kind = "control") => ~Touched(p)
    /\ pc[p] \in {"acquire", "begin", "open", "wantMu", "check", "net"} => ~Sent(p)
    /\ pc[p] = "latch" => (res[p] = "ok" <=> Sent(p)) /\ (Sent(p) => call[p].fin)
    /\ pc[p] = "unlock" => res[p] = "ok" /\ call[p].fin <=> Sent(p)
    /\ pc[p] \in {"end", "release"} => (res[p] = "ok" <=> Sent(p))
    /\ pc[p] \in {"latch", "unlock", "end", "release"} => res[p] # "timeout"
    /\ pc[p] = "idle" /\ ops[p] > 0 /\ res[p] # "ended" =>
          (res[p] = "ok" <=> Sent(p)) /\ (res[p] = "timeout" => ~Touched(p))

AllHonest == NoFuture /\ \A p \in Procs : Honest(p)

HonestInv == Inv /\ AllHonest

LEMMA SameWire ==
    ASSUME UNCHANGED wire, NEW p \in Procs, ops'[p] = ops[p]
    PROVE  (Sent(p)' <=> Sent(p)) /\ (Touched(p)' <=> Touched(p))
BY DEF Sent, Touched, MsgId

LEMMA Bystander ==
    ASSUME UNCHANGED wire, NEW p \in Procs, Honest(p), ops'[p] = ops[p], pc'[p] = pc[p],
           res'[p] = res[p], call'[p].kind = call[p].kind, call'[p].fin = call[p].fin
    PROVE  Honest(p)'
BY SameWire DEF Honest

(* A new call: nothing of its message can be on the wire yet.              *)
LEMMA NewCall ==
    ASSUME HonestInv, NEW p \in Procs, ops' = [ops EXCEPT ![p] = @ + 1], UNCHANGED wire
    PROVE  ~Touched(p)' /\ ~Sent(p)' /\ NoFuture'
<1>1. ops \in [Procs -> Nat]
  BY BoundsAssumption DEF HonestInv, AllHonest, Inv, LockInv, TypeOK
<1>2. \A i \in DOMAIN wire : wire[i].msg # <<p, ops[p] + 1>>
  BY <1>1 DEF HonestInv, AllHonest, NoFuture
<1>3. ops'[p] = ops[p] + 1 /\ \A q \in Procs : ops[q] <= ops'[q] /\ ops'[q] \in Nat
  BY <1>1
<1>4. NoFuture'
  BY <1>1, <1>3 DEF HonestInv, AllHonest, NoFuture
<1> QED BY <1>2, <1>3, <1>4 DEF Touched, Sent, MsgId

LEMMA EnterHonest ==
    ASSUME HonestInv, NEW p \in Procs, NEW k \in Kinds, NEW t \in Types, NEW d \in Deadline,
           NEW l \in {"acquire", "wantMu"}, Enter(p, k, t, d, l)
    PROVE  NoFuture' /\ \A q \in Procs : Honest(q)'
<1> USE DEF HonestInv, AllHonest, Inv, LockInv, TypeOK
<1>1. NoFuture' /\ ~Touched(p)' /\ ~Sent(p)'
  BY NewCall DEF Enter
<1>2. /\ UNCHANGED wire
      /\ \A q \in Procs \ {p} : /\ pc'[q] = pc[q] /\ call'[q] = call[q]
                                /\ res'[q] = res[q] /\ ops'[q] = ops[q]
  BY DEF Enter
<1>3. pc'[p] = l \/ (pc'[p] = "idle" /\ res'[p] = "timeout")
  BY DEF Enter
<1>4. Honest(p)'
  BY <1>1, <1>3 DEF Honest
<1> QED BY <1>1, <1>2, <1>4, Bystander

LEMMA AppHonest ==
    ASSUME HonestInv, NEW p \in Procs, AppStep(p)
    PROVE  NoFuture' /\ \A q \in Procs : Honest(q)'
<1>a. deadline \in Deadline
  BY DEF HonestInv, AllHonest, Inv, LockInv, TypeOK
<1>2. CASE StartMessage(p)
  <2>1. PICK k \in MessageKinds, t \in AppTypes : Enter(p, k, t, deadline, "acquire")
    BY <1>2 DEF StartMessage
  <2>2. k \in Kinds /\ t \in Types
    BY TypesAssumption
  <2> QED BY <1>a, <2>1, <2>2, EnterHonest
<1>3. CASE StartPrepared(p)
  <2>1. PICK t \in AppTypes : Enter(p, "prepared", t, deadline, "acquire")
    BY <1>3 DEF StartPrepared
  <2>2. "prepared" \in Kinds /\ t \in Types
    BY TypesAssumption
  <2> QED BY <1>a, <2>1, <2>2, EnterHonest
<1>4. CASE StartControl(p)
  <2>1. PICK t \in AppTypes, d \in Deadlines : Enter(p, "control", t, d, "wantMu")
    BY <1>4 DEF StartControl
  <2>2. "control" \in Kinds /\ t \in Types /\ d \in Deadline
    BY TypesAssumption, DeadlineAssumption
  <2> QED BY <2>1, <2>2, EnterHonest
<1> USE DEF HonestInv, AllHonest, Inv, LockInv, TypeOK
<1>1. CASE Reject(p)
  <2>1. NoFuture' /\ ~Touched(p)' /\ ~Sent(p)'
    BY <1>1, NewCall DEF Reject
  <2>2. /\ UNCHANGED wire /\ pc'[p] = "idle" /\ res'[p] = "rejected"
        /\ \A q \in Procs \ {p} : /\ pc'[q] = pc[q] /\ call'[q] = call[q]
                                  /\ res'[q] = res[q] /\ ops'[q] = ops[q]
    BY <1>1 DEF Reject
  <2>3. Honest(p)'
    BY <2>1, <2>2 DEF Honest
  <2> QED BY <2>1, <2>2, <2>3, Bystander
<1>5. ASSUME NEW f \in BOOLEAN, NEW tooLong \in BOOLEAN, FlushFrame(p, f, tooLong)
      PROVE  NoFuture' /\ \A q \in Procs : Honest(q)'
  <2>1. /\ pc[p] = "open" /\ UNCHANGED <<wire, ops>> /\ call[p].kind \in MessageKinds
        /\ pc'[p] = "wantMu" \/ (pc'[p] = "end" /\ res'[p] = "invalidControl")
        /\ \A q \in Procs \ {p} : /\ pc'[q] = pc[q] /\ call'[q] = call[q]
                                  /\ res'[q] = res[q]
    BY <1>5 DEF FlushFrame, KindInv
  <2>2. call'[p].kind = call[p].kind
    <3>1. \/ call' = call
          \/ call' = [call EXCEPT ![p] = [call[p] EXCEPT !.dl = deadline, !.fin = f]]
      BY <1>5 DEF FlushFrame
    <3>2. [call[p] EXCEPT !.dl = deadline, !.fin = f].kind = call[p].kind
      BY DEF Calls
    <3> QED BY <3>1, <3>2
  <2>3. NoFuture' /\ ~Sent(p)'
    BY <2>1, SameWire DEF NoFuture, Honest
  <2>4. Honest(p)'
    BY <2>1, <2>2, <2>3 DEF Honest
  <2> QED BY <2>1, <2>3, <2>4, Bystander
<1>6. CASE UseEndedWriter(p)
  <2>1. /\ UNCHANGED <<wire, ops>> /\ pc'[p] = "idle" /\ res'[p] = "ended"
        /\ \A q \in Procs \ {p} : /\ pc'[q] = pc[q] /\ call'[q] = call[q]
                                  /\ res'[q] = res[q]
    BY <1>6 DEF UseEndedWriter
  <2>2. NoFuture' /\ Honest(p)'
    BY <2>1 DEF NoFuture, Honest
  <2> QED BY <2>1, <2>2, Bystander
<1> QED
  BY <1>1, <1>2, <1>3, <1>4, <1>5, <1>6 DEF AppStep, WriteMore, CloseWriter

(* Only p's own message gains a frame, and is sent whole with the last.    *)
LEMMA NetWriteHonest ==
    ASSUME HonestInv, NEW p \in Procs, NetWrite(p)
    PROVE  NoFuture' /\ \A q \in Procs : Honest(q)'
<1> USE DEF HonestInv, AllHonest, Inv, LockInv, TypeOK
<1> DEFINE f == [msg |-> MsgId(p), op |-> IF cont[p] THEN "cont" ELSE call[p].type,
                 fin |-> call[p].fin]
<1>1. /\ pc[p] = "net" /\ wire' = Append(wire, f) /\ UNCHANGED <<ops, call>>
      /\ res' = [res EXCEPT ![p] = "ok"]
      /\ pc' = [pc EXCEPT ![p] = IF call[p].type = "close" THEN "latch" ELSE "unlock"]
  BY DEF NetWrite
<1>2. /\ DOMAIN wire = 1..Len(wire) /\ DOMAIN wire' = 1..(Len(wire) + 1)
      /\ Len(wire) \in Nat /\ wire'[Len(wire) + 1] = f
      /\ \A i \in DOMAIN wire : wire'[i] = wire[i]
  BY <1>1
<1>3. f.msg = <<p, ops[p]>> /\ f.fin = call[p].fin
  BY DEF MsgId
<1>4. NoFuture'
  <2> SUFFICES ASSUME NEW i \in DOMAIN wire', NEW q \in Procs, NEW n \in Nat,
                      wire'[i].msg = <<q, n>>
               PROVE  n <= ops[q]
    BY <1>1 DEF NoFuture
  <2>1. CASE i \in DOMAIN wire
    BY <1>2, <2>1 DEF NoFuture
  <2>2. CASE i = Len(wire) + 1
    BY <1>2, <1>3, <2>2, BoundsAssumption
  <2> QED BY <1>2, <2>1, <2>2
<1>5. \A q \in Procs \ {p} : Honest(q)'
  <2> SUFFICES ASSUME NEW q \in Procs \ {p} PROVE Honest(q)'
    OBVIOUS
  <2>1. f.msg # MsgId(q) /\ MsgId(q)' = MsgId(q)
    BY <1>1, <1>3 DEF MsgId
  <2>2. \A i \in DOMAIN wire' :
           wire'[i].msg = MsgId(q) => i \in DOMAIN wire /\ wire'[i] = wire[i]
    BY <1>2, <2>1
  <2>3. DOMAIN wire \subseteq DOMAIN wire'
    BY <1>2
  <2>4. (Sent(q)' <=> Sent(q)) /\ (Touched(q)' <=> Touched(q))
    BY <1>2, <2>1, <2>2, <2>3 DEF Sent, Touched
  <2> QED BY <1>1, <2>4 DEF Honest
<1>6. Sent(p)' <=> call[p].fin
  <2>1. ~Sent(p) /\ MsgId(p)' = MsgId(p)
    BY <1>1 DEF Honest, MsgId
  <2>2. f.msg = MsgId(p)
    OBVIOUS
  <2>3. ASSUME NEW i \in DOMAIN wire', wire'[i].msg = MsgId(p), wire'[i].fin
        PROVE  call[p].fin
    <3>1. i \notin DOMAIN wire
      BY <1>2, <2>1, <2>3 DEF Sent
    <3> QED BY <1>2, <1>3, <2>3, <3>1
  <2>4. Len(wire) + 1 \in DOMAIN wire'
    BY <1>2
  <2> HIDE DEF f
  <2> QED BY <1>2, <1>3, <2>1, <2>2, <2>3, <2>4 DEF Sent
<1>7. call[p].type = "close" => call[p].fin
  BY <1>1 DEF StreamInv, StreamAt, Sending
<1>8. Honest(p)'
  BY <1>1, <1>6, <1>7 DEF Honest
<1> QED BY <1>4, <1>5, <1>8

LEMMA CodeHonest ==
    ASSUME HonestInv, NEW p \in Procs, CodeStep(p)
    PROVE  NoFuture' /\ \A q \in Procs : Honest(q)'
<1> USE DEF HonestInv, AllHonest, Inv, LockInv, TypeOK
<1>1. UNCHANGED <<wire, ops>>
  BY DEF CodeStep, AcquireWriteMu, AcquireTimeout, BeginFails, Begin, TakeMu, TakeMuTimeout,
         CheckErr, NetWriteFails, WriteFatal, Unlock, EndMessage, ReleasePrepared
<1>2. \A q \in Procs \ {p} : pc'[q] = pc[q] /\ call'[q] = call[q] /\ res'[q] = res[q]
  BY DEF CodeStep, AcquireWriteMu, AcquireTimeout, BeginFails, Begin, TakeMu, TakeMuTimeout,
         CheckErr, NetWriteFails, WriteFatal, Unlock, EndMessage, ReleasePrepared
<1>3. NoFuture' /\ \A q \in Procs \ {p} : Honest(q)'
  BY <1>1, <1>2, Bystander DEF NoFuture
<1>4. (Sent(p)' <=> Sent(p)) /\ (Touched(p)' <=> Touched(p)) /\ Honest(p)
  BY <1>1, SameWire
<1>5. Honest(p)'
  <2>1. CASE AcquireWriteMu(p) \/ Begin(p) \/ TakeMu(p)
    BY <1>4, <2>1 DEF AcquireWriteMu, Begin, TakeMu, Honest, KindInv
  <2>2. CASE AcquireTimeout(p) \/ TakeMuTimeout(p)
    <3>1. ~Touched(p) /\ pc'[p] = "idle" /\ res'[p] = "timeout"
      BY <2>2 DEF AcquireTimeout, TakeMuTimeout, Honest
    <3>2. ~Sent(p)
      BY <3>1 DEF Sent, Touched
    <3> QED BY <1>4, <3>1, <3>2 DEF Honest
  <2>3. CASE BeginFails(p)
    BY <1>4, <2>3 DEF BeginFails, Honest
  <2>4. CASE CheckErr(p)
    <3>1. /\ pc[p] = "check"
          /\ \/ pc'[p] = "unlock" /\ res'[p] \in {"closeSent", "failed"}
             \/ pc'[p] = "latch" /\ res'[p] = "failed"
             \/ pc'[p] = "net"
      BY <2>4 DEF CheckErr
    <3> QED BY <1>4, <3>1 DEF Honest
  <2>5. CASE NetWriteFails(p)
    BY <1>4, <2>5 DEF NetWriteFails, Honest
  <2>6. CASE WriteFatal(p)
    BY <1>4, <2>6 DEF WriteFatal, Honest, StreamInv, StreamAt, Sending
  <2>7. CASE Unlock(p)
    <3>1. pc[p] = "unlock" /\ res' = res
      BY <2>7 DEF Unlock
    <3>2. call[p].kind \notin MessageKinds => call[p].fin
      BY DEF StreamInv, StreamAt
    <3>3. \/ call[p].kind = "control" /\ pc'[p] = "idle"
          \/ call[p].kind = "prepared" /\ pc'[p] = "release"
          \/ pc'[p] = IF res[p] = "ok" /\ ~call[p].fin THEN "open" ELSE "end"
      BY <2>7 DEF Unlock
    <3> QED BY <1>4, <3>1, <3>2, <3>3 DEF Honest
  <2>8. CASE EndMessage(p) \/ ReleasePrepared(p)
    BY <1>4, <2>8 DEF EndMessage, ReleasePrepared, Honest
  <2> QED BY <2>1, <2>2, <2>3, <2>4, <2>5, <2>6, <2>7, <2>8 DEF CodeStep
<1> QED BY <1>3, <1>5

(* A call returns nil exactly when its whole message is on the wire, and a *)
(* timeout only when nothing of it is (conn.go 570-581, 649-659): a caller *)
(* may send the message of a call that timed out again.                    *)
THEOREM HonestResults == Spec => []ReturnsHonestly
<1>1. Init => AllHonest
  BY DEF Init, AllHonest, NoFuture, Honest
<1>2. HonestInv /\ [Next]_vars => AllHonest'
  <2> SUFFICES ASSUME HonestInv, [Next]_vars PROVE NoFuture' /\ \A p \in Procs : Honest(p)'
    BY DEF AllHonest
  <2>1. ASSUME NEW p \in Procs, ExpireWait(p) PROVE NoFuture' /\ \A q \in Procs : Honest(q)'
    <3>1. \A q \in Procs : call'[q].kind = call[q].kind /\ call'[q].fin = call[q].fin
      BY <2>1 DEF ExpireWait, HonestInv, Inv, LockInv, TypeOK, Calls
    <3>2. UNCHANGED <<pc, ops, wire, res>>
      BY <2>1 DEF ExpireWait
    <3> QED BY <3>1, <3>2, Bystander DEF HonestInv, AllHonest, NoFuture
  <2>2. CASE SetWriteDeadline \/ NetDown \/ ExpireStored \/ UNCHANGED vars
    <3>1. UNCHANGED <<pc, ops, wire, res, call>>
      BY <2>2 DEF SetWriteDeadline, NetDown, ExpireStored
    <3> QED BY <3>1, Bystander DEF HonestInv, AllHonest, NoFuture
  <2> QED BY <2>1, <2>2, AppHonest, CodeHonest, NetWriteHonest DEF Next
<1>3. HonestInv => ReturnsHonestly
  BY DEF HonestInv, AllHonest, Honest, ReturnsHonestly, Touched
<1> QED BY <1>1, <1>2, <1>3, StreamInvariant, PTL DEF Spec, HonestInv
=============================================================================
