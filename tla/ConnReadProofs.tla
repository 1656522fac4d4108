---------------------------- MODULE ConnReadProofs ----------------------------
(***************************************************************************)
(* Proofs about the read half, for every set of scripts, every read limit  *)
(* and every way the bytes arrive.                                         *)
(*                                                                         *)
(* BaseInv holds of every run: the types, which call runs when, and that   *)
(* the frame being parsed is a later one than all that have been seen.     *)
(* Each of the four properties has an invariant of its own on top of it:   *)
(* TellInv, GuardInv, InStep and DelivInv.  The last one rests on the two  *)
(* before it: that what Read copies is the payload of its frame follows    *)
(* from where the parser stands in the stream.                             *)
(*                                                                         *)
(* A theorem names the flags it needs.  An application that goes on after  *)
(* a timeout does make the parser lose its place (the run                  *)
(* conn_read_timeout).  A net.Conn that returns io.EOF along with the last *)
(* bytes makes Read return io.EOF inside a message, and close with another *)
(* error than the one it keeps: the other three properties need that out.  *)
(***************************************************************************)
EXTENDS ConnRead, TextProofs

(* The stream of a script: which unit is where.                            *)
Unit == [part : {"h1", "h2", "key", "body"}, frame : Nat, byte : Bytes]

(* The units of the first i frames, and how many they are.                 *)
Units(s, i) == FlattenSeq([j \in 1..i |-> FrameUnits(s[j], j)])
Off(s, i)   == Len(Units(s, i))
Size(f)     == 3 + Len(f.body)

LEMMA BytesRegroup ==
    ASSUME NEW a \in Seq(Bytes), NEW b \in Seq(Bytes), NEW c \in Seq(Bytes)
    PROVE  (a \o b) \o c = a \o (b \o c)
BY ConcatAssociative, SMT

LEMMA FrameFields ==
    ASSUME NEW s \in Seq(Frame), NEW i \in 1..Len(s)
    PROVE  /\ s[i] \in Frame /\ s[i].body \in Seq(Bytes) /\ Len(s[i].body) \in Nat
           /\ s[i].op \in DataOps \cup ControlOps /\ s[i].fin \in BOOLEAN
<1>1. s[i] \in Frame
  BY ElementOfSeq
<1> QED BY <1>1, LenProperties DEF Frame

LEMMA UnitsOfFrame ==
    ASSUME NEW f \in Frame, NEW i \in Nat
    PROVE  /\ FrameUnits(f, i) \in Seq(Unit) /\ Len(FrameUnits(f, i)) = Size(f) /\ Size(f) \in Nat
           /\ \A k \in 1..Size(f) :
                 /\ FrameUnits(f, i)[k].frame = i
                 /\ FrameUnits(f, i)[k].part = "h1" <=> k = 1
                 /\ k > 3 => FrameUnits(f, i)[k].byte = f.body[k - 3]
<1> DEFINE head == <<[part |-> "h1", frame |-> i, byte |-> "a"],
                     [part |-> "h2", frame |-> i, byte |-> "a"],
                     [part |-> "key", frame |-> i, byte |-> "a"]>>
           rest == [k \in DOMAIN f.body |-> [part |-> "body", frame |-> i, byte |-> f.body[k]]]
           n    == Len(f.body)
<1>1. f.body \in Seq(Bytes) /\ n \in Nat /\ DOMAIN f.body = 1..n /\ \A k \in 1..n : f.body[k] \in Bytes
  <2>1. f.body \in Seq(Bytes)
    BY DEF Frame
  <2> QED BY <2>1, LenProperties, ElementOfSeq
<1>2. head \in Seq(Unit) /\ Len(head) = 3
      /\ head[1].part = "h1" /\ head[2].part = "h2" /\ head[3].part = "key"
      /\ \A k \in 1..3 : head[k].frame = i
  <2>1. [part |-> "h1", frame |-> i, byte |-> "a"] \in Unit
        /\ [part |-> "h2", frame |-> i, byte |-> "a"] \in Unit
        /\ [part |-> "key", frame |-> i, byte |-> "a"] \in Unit
    BY DEF Unit, Bytes
  <2> QED BY <2>1
<1>3. rest \in Seq(Unit) /\ Len(rest) = n
      /\ \A k \in 1..n : rest[k].part = "body" /\ rest[k].frame = i /\ rest[k].byte = f.body[k]
  <2>1. \A k \in 1..n : [part |-> "body", frame |-> i, byte |-> f.body[k]] \in Unit
    BY <1>1 DEF Unit
  <2> HIDE DEF n
  <2>2. rest \in [1..n -> Unit]
    BY <1>1, <2>1
  <2>3. rest \in Seq(Unit)
    BY <1>1, <2>2
  <2>4. DOMAIN rest = 1..n
    BY <1>1
  <2>5. Len(rest) = n
    <3> HIDE DEF rest
    <3> QED BY <1>1, <2>3, <2>4, LenProperties
  <2> QED BY <1>1, <2>3, <2>5
<1>4. FrameUnits(f, i) = head \o rest /\ Size(f) = 3 + n
  BY DEF FrameUnits, Size
<1> HIDE DEF head, rest, n
<1>5. /\ head \o rest \in Seq(Unit) /\ Len(head \o rest) = 3 + n
      /\ \A k \in 1 .. 3 + n : (head \o rest)[k] = IF k <= 3 THEN head[k] ELSE rest[k - 3]
  <2>1. /\ head \o rest \in Seq(Unit) /\ Len(head \o rest) = Len(head) + Len(rest)
        /\ \A k \in 1 .. Len(head) + Len(rest) :
              (head \o rest)[k] = IF k <= Len(head) THEN head[k] ELSE rest[k - Len(head)]
    <3>1. head \in Seq(Unit) /\ rest \in Seq(Unit)
      BY <1>2, <1>3
    <3> QED BY <3>1, ConcatProperties, Zenon
  <2> QED BY <1>2, <1>3, <2>1
<1>6. ASSUME NEW k \in 1 .. 3 + n
      PROVE  /\ (head \o rest)[k].frame = i
             /\ (head \o rest)[k].part = "h1" <=> k = 1
             /\ k > 3 => (head \o rest)[k].byte = f.body[k - 3]
  <2>1. CASE k > 3
    <3>1. k - 3 \in 1..n /\ (head \o rest)[k] = rest[k - 3]
      BY <1>1, <1>5, <2>1
    <3> QED BY <1>3, <2>1, <3>1
  <2>2. CASE k \in 1..3
    <3>1. (head \o rest)[k] = head[k] /\ ~(k > 3) /\ (k = 1 \/ k = 2 \/ k = 3)
      BY <1>1, <1>5, <2>2
    <3>2. head[k].frame = i
      BY <1>2, <2>2
    <3>3. head[k].part = "h1" <=> k = 1
      <4>1. head[1].part = "h1" /\ head[2].part = "h2" /\ head[3].part = "key"
        BY <1>2
      <4> QED BY <3>1, <4>1
    <3> QED BY <3>1, <3>2, <3>3, Zenon
  <2>3. k > 3 \/ k \in 1..3
    BY <1>1
  <2> QED BY <2>1, <2>2, <2>3, Zenon
<1> QED BY <1>1, <1>4, <1>5, <1>6

LEMMA UnitsGrow ==
    ASSUME NEW s \in Seq(Frame)
    PROVE  /\ Units(s, 0) = <<>>
           /\ \A i \in 0..Len(s) : Units(s, i) \in Seq(Unit) /\ Off(s, i) \in Nat
           /\ \A i \in 0..Len(s) - 1 :
                 /\ Units(s, i + 1) = Units(s, i) \o FrameUnits(s[i + 1], i + 1)
                 /\ Off(s, i + 1) = Off(s, i) + Size(s[i + 1])
<1>0. Len(s) \in Nat
  BY LenProperties
<1>1. Units(s, 0) = <<>>
  <2>1. [j \in 1..0 |-> FrameUnits(s[j], j)] = <<>>
    OBVIOUS
  <2> QED BY <2>1, FlatEmpty DEF Units
<1> DEFINE q(i) == [j \in 1..i |-> FrameUnits(s[j], j)]
<1>2. ASSUME NEW i \in 0..Len(s)
      PROVE  q(i) \in Seq(Seq(Unit)) /\ Len(q(i)) = i
  <2>1. \A j \in 1..i : FrameUnits(s[j], j) \in Seq(Unit)
    <3> SUFFICES ASSUME NEW j \in 1..i PROVE FrameUnits(s[j], j) \in Seq(Unit)
      OBVIOUS
    <3>1. s[j] \in Frame /\ j \in Nat
      <4>1. j \in 1..Len(s)
        BY <1>0
      <4> QED BY <4>1, FrameFields
    <3> QED BY <3>1, UnitsOfFrame
  <2>2. i \in Nat
    BY <1>0
  <2>3. q(i) \in [1..i -> Seq(Unit)] /\ DOMAIN q(i) = 1..i
    BY <2>1
  <2> HIDE DEF q
  <2>4. q(i) \in Seq(Seq(Unit))
    BY <2>2, <2>3
  <2> QED BY <2>2, <2>3, <2>4, LenProperties
<1>3. ASSUME NEW i \in 0..Len(s) PROVE Units(s, i) \in Seq(Unit) /\ Off(s, i) \in Nat
  <2>1. FlattenSeq(q(i)) \in Seq(Unit)
    <3> HIDE DEF q
    <3> QED BY <1>2, FlatType
  <2>2. Units(s, i) \in Seq(Unit)
    BY <2>1 DEF Units
  <2> QED BY <2>2, LenProperties DEF Off
<1>4. ASSUME NEW i \in 0..Len(s) - 1
      PROVE  /\ Units(s, i + 1) = Units(s, i) \o FrameUnits(s[i + 1], i + 1)
             /\ Off(s, i + 1) = Off(s, i) + Size(s[i + 1])
  <2> DEFINE x == FrameUnits(s[i + 1], i + 1)
  <2>1. i \in 0..Len(s) /\ i + 1 \in 0..Len(s) /\ i + 1 \in 1..Len(s) /\ i \in Nat /\ i + 1 \in Nat
    BY <1>0
  <2>2. x \in Seq(Unit) /\ Len(x) = Size(s[i + 1])
    <3>1. s[i + 1] \in Frame
      BY <2>1, FrameFields
    <3> QED BY <2>1, <3>1, UnitsOfFrame
  <2>3. /\ q(i) \in Seq(Seq(Unit)) /\ Len(q(i)) = i
        /\ q(i + 1) \in Seq(Seq(Unit)) /\ Len(q(i + 1)) = i + 1
    BY <1>2, <2>1
  <2>4. \A j \in 1 .. i + 1 : q(i + 1)[j] = IF j <= i THEN q(i)[j] ELSE x
    BY <2>1
  <2>5. q(i + 1) = Append(q(i), x)
    <3> HIDE DEF q, x
    <3>1. /\ Append(q(i), x) \in Seq(Seq(Unit)) /\ Len(Append(q(i), x)) = i + 1
          /\ \A j \in 1..i : Append(q(i), x)[j] = q(i)[j]
          /\ Append(q(i), x)[i + 1] = x
      BY <2>2, <2>3, AppendProperties
    <3>2. \A j \in 1 .. i + 1 : Append(q(i), x)[j] = q(i + 1)[j]
      <4> SUFFICES ASSUME NEW j \in 1 .. i + 1 PROVE Append(q(i), x)[j] = q(i + 1)[j]
        OBVIOUS
      <4>1. CASE j \in 1..i
        BY <2>1, <2>4, <3>1, <4>1
      <4>2. CASE j = i + 1
        <5>1. ~(j <= i) /\ i + 1 \in 1 .. i + 1
          BY <2>1, <4>2
        <5>2. q(i + 1)[j] = x
          BY <2>4, <5>1
        <5>3. Append(q(i), x)[j] = x
          BY <3>1, <4>2, Zenon
        <5> QED BY <5>2, <5>3
      <4>3. j \in 1..i \/ j = i + 1
        BY <2>1
      <4> QED BY <4>1, <4>2, <4>3, Zenon
    <3> QED BY <2>3, <3>1, <3>2, SeqEqual
  <2>6. FlattenSeq(q(i + 1)) = FlattenSeq(q(i)) \o x
    <3> HIDE DEF q, x
    <3> QED BY <2>2, <2>3, <2>5, FlatAppend
  <2>7. Units(s, i + 1) = Units(s, i) \o x
    BY <2>6 DEF Units
  <2>8. Units(s, i) \in Seq(Unit)
    BY <1>3, <2>1
  <2> HIDE DEF x
  <2>9. Len(Units(s, i) \o x) = Len(Units(s, i)) + Len(x)
    BY <2>2, <2>8, ConcatProperties
  <2> QED BY <2>2, <2>7, <2>9 DEF Off, x
<1> QED BY <1>1, <1>3, <1>4

(* Later frames come later.                                                *)
LEMMA OffGrows ==
    ASSUME NEW s \in Seq(Frame), NEW i \in 0..Len(s), NEW j \in 0..Len(s), i < j
    PROVE  Off(s, i) < Off(s, j)
<1> DEFINE T == {n \in Nat : i < n /\ n <= Len(s) => Off(s, i) < Off(s, n)}
<1>0. Len(s) \in Nat /\ Off(s, i) \in Nat
  BY LenProperties, UnitsGrow
<1>1. 0 \in T
  BY <1>0
<1>2. ASSUME NEW n \in Nat, n \in T PROVE n + 1 \in T
  <2> SUFFICES ASSUME i < n + 1, n + 1 <= Len(s) PROVE Off(s, i) < Off(s, n + 1)
    OBVIOUS
  <2>1. n \in 0..Len(s) - 1 /\ n \in 0..Len(s) /\ n + 1 \in 1..Len(s) /\ (i = n \/ i < n)
    BY <1>0
  <2>2. Off(s, n) \in Nat /\ Off(s, n + 1) = Off(s, n) + Size(s[n + 1])
    BY <2>1, UnitsGrow
  <2>3. Size(s[n + 1]) \in Nat /\ Size(s[n + 1]) > 0
    BY <2>1, FrameFields DEF Size
  <2> QED BY <1>0, <1>2, <2>1, <2>2, <2>3
<1>3. \A n \in Nat : n \in T
  <2> HIDE DEF T
  <2> QED BY <1>1, <1>2, InductNat
<1> QED BY <1>0, <1>3

(* Where the units of frame i are, as soon as it is there.                 *)
LEMMA UnitsStay ==
    ASSUME NEW s \in Seq(Frame), NEW i \in 1..Len(s), NEW k \in 1..Size(s[i]),
           NEW m \in i..Len(s)
    PROVE  Units(s, m)[Off(s, i - 1) + k] = FrameUnits(s[i], i)[k]
<1> DEFINE T == {n \in Nat : i <= n /\ n <= Len(s) =>
                                Units(s, n)[Off(s, i - 1) + k] = FrameUnits(s[i], i)[k]}
           p == Off(s, i - 1) + k
<1>0. /\ Len(s) \in Nat /\ i - 1 \in 0..Len(s) /\ i - 1 \in 0..Len(s) - 1 /\ (i - 1) + 1 = i
      /\ s[i] \in Frame /\ i \in Nat
  BY LenProperties, FrameFields
<1>1. /\ Off(s, i - 1) \in Nat /\ Off(s, i) = Off(s, i - 1) + Size(s[i])
      /\ Units(s, i) = Units(s, i - 1) \o FrameUnits(s[i], i)
      /\ Units(s, i - 1) \in Seq(Unit)
  <2>1. /\ Off(s, (i - 1) + 1) = Off(s, i - 1) + Size(s[(i - 1) + 1])
        /\ Units(s, (i - 1) + 1) = Units(s, i - 1) \o FrameUnits(s[(i - 1) + 1], (i - 1) + 1)
    BY <1>0, UnitsGrow
  <2>2. Off(s, i - 1) \in Nat /\ Units(s, i - 1) \in Seq(Unit)
    BY <1>0, UnitsGrow
  <2> QED BY <1>0, <2>1, <2>2
<1>2. FrameUnits(s[i], i) \in Seq(Unit) /\ Len(FrameUnits(s[i], i)) = Size(s[i]) /\ Size(s[i]) \in Nat
  BY <1>0, UnitsOfFrame
<1>3. p \in Nat /\ p >= 1 /\ p <= Off(s, i) /\ p > Off(s, i - 1) /\ p - Off(s, i - 1) = k
  BY <1>1, <1>2
<1>4. Units(s, i)[p] = FrameUnits(s[i], i)[k]
  <2>1. (Units(s, i - 1) \o FrameUnits(s[i], i))[p] = FrameUnits(s[i], i)[p - Off(s, i - 1)]
    <3>1. \A x \in 1 .. Len(Units(s, i - 1)) + Len(FrameUnits(s[i], i)) :
             (Units(s, i - 1) \o FrameUnits(s[i], i))[x]
               = IF x <= Len(Units(s, i - 1)) THEN Units(s, i - 1)[x]
                                              ELSE FrameUnits(s[i], i)[x - Len(Units(s, i - 1))]
      BY <1>1, <1>2, ConcatProperties
    <3>2. Len(Units(s, i - 1)) = Off(s, i - 1)
      BY DEF Off
    <3>3. p \in 1 .. Off(s, i - 1) + Size(s[i]) /\ ~(p <= Off(s, i - 1))
      <4> HIDE DEF p
      <4> QED BY <1>1, <1>2, <1>3
    <3> HIDE DEF p
    <3> QED BY <1>2, <3>1, <3>2, <3>3
  <2> QED BY <1>1, <1>3, <2>1
<1>5. 0 \in T
  BY <1>0
<1>6. ASSUME NEW n \in Nat, n \in T PROVE n + 1 \in T
  <2> SUFFICES ASSUME i <= n + 1, n + 1 <= Len(s) PROVE Units(s, n + 1)[p] = FrameUnits(s[i], i)[k]
    OBVIOUS
  <2>1. CASE i = n + 1
    BY <1>4, <2>1
  <2>2. CASE i # n + 1
    <3>1. i <= n /\ n <= Len(s) /\ n \in 0..Len(s) - 1 /\ n \in 0..Len(s) /\ n + 1 \in 1..Len(s)
          /\ i \in 0..Len(s)
      BY <1>0, <2>2
    <3>2. /\ Units(s, n + 1) = Units(s, n) \o FrameUnits(s[n + 1], n + 1)
          /\ Units(s, n) \in Seq(Unit) /\ Off(s, n) \in Nat /\ Off(s, i) \in Nat
      BY <3>1, UnitsGrow
    <3>3. FrameUnits(s[n + 1], n + 1) \in Seq(Unit) /\ Len(FrameUnits(s[n + 1], n + 1)) \in Nat
      <4>1. s[n + 1] \in Frame
        BY <3>1, FrameFields
      <4> QED BY <4>1, UnitsOfFrame
    <3>4. Off(s, i) <= Off(s, n)
      <4>1. CASE i = n
        BY <3>2, <4>1
      <4>2. CASE i # n
        <5>1. i < n
          BY <1>0, <3>1, <4>2
        <5> QED BY <3>1, <3>2, <5>1, OffGrows
      <4> QED BY <4>1, <4>2
    <3>5. p \in 1 .. Off(s, n) /\ Off(s, n) = Len(Units(s, n))
      BY <1>1, <1>2, <1>3, <3>2, <3>4 DEF Off
    <3> HIDE DEF p
    <3>6. (Units(s, n) \o FrameUnits(s[n + 1], n + 1))[p] = Units(s, n)[p]
      BY <3>2, <3>3, <3>5, ConcatProperties
    <3>7. Units(s, n)[p] = FrameUnits(s[i], i)[k]
      BY <1>6, <3>1 DEF p
    <3> QED BY <3>2, <3>6, <3>7
  <2> QED BY <2>1, <2>2
<1>7. \A n \in Nat : n \in T
  <2> HIDE DEF T
  <2> QED BY <1>5, <1>6, InductNat
<1> QED BY <1>0, <1>7

(* Every unit is one of a frame.                                           *)
LEMMA UnitsAreOfFrames ==
    ASSUME NEW s \in Seq(Frame), NEW p \in 1..Off(s, Len(s))
    PROVE  \E i \in 1..Len(s) : \E k \in 1..Size(s[i]) : p = Off(s, i - 1) + k
<1> DEFINE T == {n \in Nat : n <= Len(s) =>
                    \A x \in 1..Off(s, n) :
                       \E i \in 1..Len(s) : \E k \in 1..Size(s[i]) : x = Off(s, i - 1) + k}
<1>0. Len(s) \in Nat
  BY LenProperties
<1>1. 0 \in T
  <2>1. Off(s, 0) = 0
    BY UnitsGrow, EmptySeq DEF Off
  <2> QED BY <2>1
<1>2. ASSUME NEW n \in Nat, n \in T PROVE n + 1 \in T
  <2> SUFFICES ASSUME n + 1 <= Len(s), NEW x \in 1..Off(s, n + 1)
               PROVE  \E i \in 1..Len(s) : \E k \in 1..Size(s[i]) : x = Off(s, i - 1) + k
    OBVIOUS
  <2>1. n \in 0..Len(s) - 1 /\ n \in 0..Len(s) /\ n + 1 \in 1..Len(s) /\ n <= Len(s) /\ (n + 1) - 1 = n
    BY <1>0
  <2>2. Off(s, n + 1) = Off(s, n) + Size(s[n + 1]) /\ Off(s, n) \in Nat /\ Size(s[n + 1]) \in Nat
    BY <2>1, UnitsGrow, FrameFields DEF Size
  <2>3. CASE x <= Off(s, n)
    <3>1. x \in 1..Off(s, n)
      BY <2>2, <2>3
    <3> QED BY <1>2, <2>1, <3>1
  <2>4. CASE x > Off(s, n)
    <3>1. x - Off(s, n) \in 1..Size(s[n + 1]) /\ x = Off(s, n) + (x - Off(s, n))
      BY <2>2, <2>4
    <3>2. x = Off(s, (n + 1) - 1) + (x - Off(s, n))
      BY <2>1, <3>1
    <3> QED BY <2>1, <3>1, <3>2
  <2> QED BY <2>2, <2>3, <2>4
<1>3. \A n \in Nat : n \in T
  <2> HIDE DEF T
  <2> QED BY <1>1, <1>2, InductNat
<1>4. Len(s) \in T
  <2> HIDE DEF T
  <2> QED BY <1>0, <1>3
<1> QED BY <1>0, <1>4

-----------------------------------------------------------------------------
(* The state that every step keeps: the types ...                          *)
ReplyType == [op : {"pong", "close"}, why : {"app", "ping"} \cup Errors, frame : Nat]

ReadTypes ==
    /\ peer \in Scripts
    /\ arrived \in Nat /\ arrived <= Len(stream)
    /\ pos \in Nat /\ pos <= arrived
    /\ readErr \in {"nil"} \cup Errors
    /\ readRemaining \in Nat /\ readFinal \in BOOLEAN /\ readLength \in Nat
    /\ messageReader \in 0..Len(peer) /\ validating \in BOOLEAN /\ utf8State \in States
    /\ closeSent \in BOOLEAN /\ replies \in Seq(ReplyType)
    /\ pc \in {"idle", "skip", "head", "key", "payload", "read", "panicked"}
    /\ caller \in {"next", "read"} /\ frame \in 0..Len(peer)
    /\ got \in [1..Len(peer) -> Seq(Bytes)] /\ complete \subseteq 1..Len(peer)

(* A call that has not returned; and one that is inside a frame's header   *)
(* or control payload, so that `frame' is not yet part of any message.     *)
Running == pc \notin {"idle", "panicked"}
Parsing == pc \in {"key", "payload"}

(* ... a call runs only while there is no error, and Read only on a reader *)
(* that is open (conn.go 1389-1396, 1511-1515) ...                         *)
Calm ==
    /\ Running => readErr = "nil" /\ (caller = "read" <=> messageReader # 0)
    /\ pc = "panicked" => readErr # "nil"
    /\ pc = "skip" => caller = "next"
    /\ pc = "read" => caller = "read"

(* ... and frames come in the order of the stream: the one being parsed is *)
(* later than every frame that a message has been given from.              *)
InOrder ==
    /\ Parsing => frame # 0
    /\ frame # 0 => Off(peer, frame - 1) < pos
    /\ messageReader <= frame /\ (Parsing => messageReader < frame)
    /\ \A m \in 1..Len(peer) : (got[m] # <<>> \/ m \in complete) =>
                                   m <= frame /\ (Parsing => m < frame)

(* For AnswersPeer: a pong is for a frame that is over, and closeSent is   *)
(* latched by the close frame that was written.                            *)
Answered ==
    /\ \A i \in DOMAIN replies : replies[i].op = "pong" =>
           replies[i].frame \in 1..frame /\ (Parsing => replies[i].frame < frame)
    /\ (\E i \in DOMAIN replies : replies[i].op = "close") => closeSent

Open == messageReader # 0 /\ readErr = "nil"

(* For GuardsApplication: what the open message has delivered, and what is *)
(* left of its frame, is within readLength; the automaton's state is that  *)
(* of the delivered bytes.                                                 *)
Guarded == Open =>
    /\ messageReader \notin complete
    /\ validating <=> peer[messageReader].op = "text"
    /\ validating => utf8State = Utf8Run("accept", got[messageReader])
    /\ Len(got[messageReader]) + (IF Parsing THEN 0 ELSE readRemaining) <= readLength
    /\ ReadLimit > 0 => readLength <= ReadLimit

(* For FramesInStep: between two calls, after a timeout that latched no    *)
(* error, the position is lost; at every other point it is known.          *)
Lost == pc = "idle" /\ readErr = "nil" /\ result = "timeout"

Placed ==
    /\ pc \in {"idle", "skip", "read"} => pos + readRemaining = Off(peer, frame)
    /\ pc = "head" => pos = Off(peer, frame)
    /\ pc = "key" => pos = Off(peer, frame - 1) + 2
    /\ pc = "payload" => pos = Off(peer, frame - 1) + 3
    /\ Parsing => readRemaining = Len(peer[frame].body)

InStep ==
    /\ Lost => messageReader = 0
    /\ readErr = "nil" /\ ~Lost => Placed

(* For DeliversMessages: what the first i frames hold of the message that  *)
(* starts with frame m, and the last n bytes of a payload.                 *)
Part(m, i) == FoldLeft(LAMBDA acc, j : IF j \in Conts(m) THEN acc \o peer[j].body ELSE acc,
                       <<>>, [j \in 1..i |-> j])

Data(i) == peer[i].op \in DataOps

Left(f, n) == SubSeq(f.body, Len(f.body) - n + 1, Len(f.body))

(* What the application has of the message that is open, and what there is *)
(* of its frames so far.                                                   *)
OpenDelivers ==
    /\ messageReader \in Starts
    /\ \A i \in messageReader + 1 .. frame : peer[i].op \notin {"text", "binary"}
    /\ readFinal => \E i \in Conts(messageReader) : i <= frame /\ peer[i].fin
    /\ ~readFinal => \A i \in messageReader..frame : Data(i) => ~peer[i].fin
    /\ Parsing => /\ got[messageReader] = Part(messageReader, frame - 1)
                  /\ \A i \in messageReader .. frame - 1 : Data(i) => ~peer[i].fin
    /\ ~Parsing => /\ readRemaining <= Len(peer[frame].body)
                   /\ got[messageReader] \o Left(peer[frame], readRemaining)
                        = Part(messageReader, frame)

(* The parser knows the last frame of the message (readFinal, 1205).       *)
Delivering ==
    /\ (Parsing /\ Data(frame)) => readFinal = peer[frame].fin
    /\ (pc = "head" /\ caller = "read") => ~readFinal /\ readRemaining = 0
    /\ Open => OpenDelivers

BaseInv == ReadTypes /\ Calm /\ InOrder

LEMMA StreamIs ==
    ASSUME ReadTypes
    PROVE  /\ peer \in Seq(Frame) /\ Len(peer) \in Nat /\ DOMAIN peer = 1..Len(peer)
           /\ stream = Units(peer, Len(peer)) /\ Len(stream) = Off(peer, Len(peer))
           /\ stream \in Seq(Unit) /\ Len(stream) \in Nat
<1>1. peer \in Scripts /\ peer \in Seq(Frame)
  BY ScriptsAssumption DEF ReadTypes
<1>2. Len(peer) \in Nat /\ DOMAIN peer = 1..Len(peer)
  BY <1>1, LenProperties
<1>3. stream = FlattenSeq([i \in DOMAIN peer |-> FrameUnits(peer[i], i)])
  BY <1>1 DEF stream, Stream
<1>4. stream = Units(peer, Len(peer))
  BY <1>2, <1>3 DEF Units
<1>5. Len(peer) \in 0..Len(peer)
  BY <1>2
<1>6. stream \in Seq(Unit)
  BY <1>1, <1>4, <1>5, UnitsGrow
<1> QED BY <1>1, <1>2, <1>4, <1>6, LenProperties DEF Off

(* A header is where a frame starts.                                       *)
LEMMA HeadIs ==
    ASSUME ReadTypes, pos < Len(stream), unit(1).part = "h1"
    PROVE  unit(1).frame \in 1..Len(peer) /\ pos = Off(peer, unit(1).frame - 1)
<1>0. pos \in Nat
  BY DEF ReadTypes
<1>1. pos + 1 \in 1..Off(peer, Len(peer))
  BY <1>0, StreamIs
<1>2. PICK i \in 1..Len(peer) : \E k \in 1..Size(peer[i]) : pos + 1 = Off(peer, i - 1) + k
  BY <1>1, StreamIs, UnitsAreOfFrames
<1>8. PICK k \in 1..Size(peer[i]) : pos + 1 = Off(peer, i - 1) + k
  BY <1>2
<1>3. unit(1) = FrameUnits(peer[i], i)[k]
  <2>1. Len(peer) \in i..Len(peer)
    BY StreamIs
  <2>2. Units(peer, Len(peer))[Off(peer, i - 1) + k] = FrameUnits(peer[i], i)[k]
    BY <2>1, StreamIs, UnitsStay
  <2> QED BY <1>8, <2>2, StreamIs DEF unit
<1>4. peer[i] \in Frame /\ i \in Nat /\ i - 1 \in 0..Len(peer)
  BY StreamIs, FrameFields
<1>5. FrameUnits(peer[i], i)[k].frame = i /\ (FrameUnits(peer[i], i)[k].part = "h1" <=> k = 1)
  BY <1>4, UnitsOfFrame
<1>6. unit(1).frame = i /\ k = 1
  BY <1>3, <1>5
<1>7. Off(peer, i - 1) \in Nat
  BY <1>4, StreamIs, UnitsGrow
<1> QED BY <1>0, <1>6, <1>7, <1>8

LEMMA FailIs ==
    ASSUME NEW e \in Errors, Fail(e)
    PROVE  /\ pc' \in {"idle", "panicked"}
           /\ e # "timeout" \/ caller # "next" => readErr' = e
           /\ e = "timeout" /\ caller = "next" => readErr' = readErr /\ result' = "timeout"
                                                  /\ pc' = "idle"
BY DEF Fail, NextReaderFails, ReadFails

(* The types and the calm of a call that has failed.                       *)
LEMMA FailCalms ==
    ASSUME BaseInv, Running, NEW e \in Errors, Fail(e)
    PROVE  /\ readErr' \in {"nil"} \cup Errors /\ pc' \in {"idle", "panicked"}
           /\ pc' = "panicked" => readErr' # "nil"
           /\ readErr' = "nil" => result' = "timeout" /\ messageReader = 0
<1>1. readErr = "nil" /\ (caller = "read" <=> messageReader # 0) /\ caller \in {"next", "read"}
  BY DEF BaseInv, Calm, ReadTypes
<1> QED BY <1>1, FailIs DEF Errors

LEMMA ReplyIs ==
    ASSUME replies \in Seq(ReplyType), closeSent \in BOOLEAN,
           NEW op \in {"pong", "close"}, NEW why \in {"app", "ping"} \cup Errors, NEW i \in Nat,
           Reply(op, why, i)
    PROVE  replies' \in Seq(ReplyType) /\ closeSent' \in BOOLEAN
<1>1. [op |-> op, why |-> why, frame |-> i] \in ReplyType
  BY DEF ReplyType
<1>2. Append(replies, [op |-> op, why |-> why, frame |-> i]) \in Seq(ReplyType)
  BY <1>1, AppendProperties
<1> QED BY <1>2 DEF Reply, outVars

(* Most steps leave the frame alone.                                       *)
LEMMA OrderStays ==
    ASSUME BaseInv, UNCHANGED <<peer, frame>>, pos' \in Nat, pos' >= pos, Parsing' => Parsing,
           messageReader' \in {0, messageReader},
           \A m \in 1..Len(peer) : m # messageReader =>
              got'[m] = got[m] /\ (m \in complete' => m \in complete)
    PROVE  InOrder'
<1>1. /\ pos \in Nat /\ frame \in 0..Len(peer) /\ messageReader \in 0..Len(peer) /\ Len(peer) \in Nat
      /\ messageReader <= frame /\ (Parsing => messageReader < frame)
      /\ \A m \in 1..Len(peer) : (got[m] # <<>> \/ m \in complete) => m <= frame /\ (Parsing => m < frame)
      /\ Parsing => frame # 0
      /\ frame # 0 => Off(peer, frame - 1) < pos
  BY StreamIs DEF BaseInv, ReadTypes, InOrder
<1>2. frame # 0 => Off(peer, frame - 1) \in Nat
  <2>1. frame # 0 => frame - 1 \in 0..Len(peer)
    BY <1>1
  <2> QED BY <2>1, StreamIs, UnitsGrow DEF BaseInv
<1>3. frame' # 0 => Off(peer', frame' - 1) < pos'
  BY <1>1, <1>2
<1>4. messageReader' <= frame' /\ (Parsing' => messageReader' < frame') /\ (Parsing' => frame' # 0)
  BY <1>1
<1>5. ASSUME NEW m \in 1..Len(peer'), got'[m] # <<>> \/ m \in complete'
      PROVE  m <= frame' /\ (Parsing' => m < frame')
  BY <1>1, <1>5
<1> QED BY <1>3, <1>4, <1>5 DEF InOrder

-----------------------------------------------------------------------------
(* Every action keeps the types and the order.                             *)
LEMMA NetBase ==
    ASSUME BaseInv, Arrive \/ StreamEnds \/ AppCloses
    PROVE  BaseInv'
<1>1. UNCHANGED <<peer, pos, connVars, pc, caller, frame, appVars>> /\ stream' = stream
  BY DEF Arrive, StreamEnds, AppCloses, netVars, connVars, outVars, appVars, stream
<1>2. arrived' \in Nat /\ arrived' <= Len(stream') /\ pos' <= arrived' /\ pos' \in Nat
  BY <1>1, StreamIs DEF BaseInv, ReadTypes, Arrive, StreamEnds, AppCloses, netVars
<1>3. replies' \in Seq(ReplyType) /\ closeSent' \in BOOLEAN
  <2>1. CASE AppCloses
    <3>1. frame \in Nat /\ replies \in Seq(ReplyType)
      BY StreamIs DEF BaseInv, ReadTypes
    <3>2. [op |-> "close", why |-> "app", frame |-> frame] \in ReplyType
      BY <3>1 DEF ReplyType
    <3> QED BY <2>1, <3>1, <3>2, AppendProperties DEF AppCloses
  <2>2. CASE Arrive \/ StreamEnds
    BY <2>2 DEF BaseInv, ReadTypes, Arrive, StreamEnds, outVars
  <2> QED BY <2>1, <2>2
<1>4. ReadTypes'
  BY <1>1, <1>2, <1>3 DEF BaseInv, ReadTypes, connVars, appVars
<1>5. Calm'
  BY <1>1 DEF BaseInv, Calm, Running, connVars
<1>6. InOrder'
  BY <1>1, <1>2, OrderStays DEF Parsing, connVars, appVars, BaseInv, ReadTypes
<1> QED BY <1>4, <1>5, <1>6 DEF BaseInv

LEMMA NextReaderBase ==
    ASSUME BaseInv, NextReader
    PROVE  BaseInv'
<1>1. /\ pc = "idle" /\ messageReader' = 0 /\ validating' = FALSE /\ readLength' = 0 /\ caller' = "next"
      /\ UNCHANGED <<netVars, pos, readRemaining, readFinal, utf8State, outVars, frame, appVars>>
      /\ stream' = stream
  BY DEF NextReader, netVars, stream
<1>2. /\ readErr' = readErr
      /\ pc' \in {"idle", "skip", "head", "panicked"}
      /\ pc' \in {"skip", "head"} => readErr = "nil"
      /\ pc' = "panicked" => readErr # "nil"
  BY DEF NextReader, NextReaderFails
<1>3. ReadTypes'
  <2>1. Len(peer) \in Nat
    BY StreamIs DEF BaseInv
  <2>2. messageReader' \in 0..Len(peer) /\ readLength' \in Nat
    BY <1>1, <2>1
  <2>4. validating' \in BOOLEAN /\ caller' \in {"next", "read"}
    BY <1>1
  <2>5. pc' \in {"idle", "skip", "head", "key", "payload", "read", "panicked"}
    BY <1>2
  <2>3. UNCHANGED <<peer, arrived, eof, closeSent, replies, got, complete, stream>>
    BY <1>1 DEF netVars, outVars, appVars
  <2> QED BY <1>1, <1>2, <2>2, <2>3, <2>4, <2>5 DEF BaseInv, ReadTypes
<1>4. Calm'
  BY <1>1, <1>2 DEF BaseInv, Calm, Running
<1>5. InOrder'
  BY <1>1, <1>2, OrderStays DEF Parsing, netVars, appVars, BaseInv, ReadTypes
<1> QED BY <1>3, <1>4, <1>5 DEF BaseInv

(* An action that only moves on in the stream and in the call.             *)
LEMMA MovesBase ==
    ASSUME BaseInv, UNCHANGED <<netVars, readErr, messageReader, validating, utf8State, outVars, caller,
                                frame, appVars>>,
           pos' \in Nat, pos' >= pos, pos' <= arrived,
           readRemaining' \in Nat, readFinal' \in BOOLEAN, readLength' \in Nat,
           Running, Parsing' => Parsing,
           pc' \in {"skip", "head", "key", "payload", "read"},
           pc' = "skip" => caller = "next", pc' = "read" => caller = "read"
    PROVE  BaseInv'
<1>1. stream' = stream /\ UNCHANGED <<peer, arrived, eof, closeSent, replies, got, complete>>
  BY DEF stream, netVars, outVars, appVars
<1>2. ReadTypes'
  BY <1>1 DEF BaseInv, ReadTypes
<1>3. Calm'
  BY DEF BaseInv, Calm, Running
<1>4. InOrder'
  BY <1>1, OrderStays DEF BaseInv, ReadTypes
<1> QED BY <1>2, <1>3, <1>4 DEF BaseInv

(* An action that ends the call with an error.                             *)
LEMMA FailsBase ==
    ASSUME BaseInv, Running, NEW e \in Errors, Fail(e),
           UNCHANGED <<netVars, messageReader, validating, utf8State, caller, frame, appVars>>,
           pos' \in Nat, pos' >= pos, pos' <= arrived,
           readRemaining' \in Nat, readFinal' \in BOOLEAN, readLength' \in Nat,
           replies' \in Seq(ReplyType), closeSent' \in BOOLEAN
    PROVE  BaseInv'
<1>1. stream' = stream /\ UNCHANGED <<peer, arrived, eof, got, complete>>
  BY DEF stream, netVars, appVars
<1>2. /\ readErr' \in {"nil"} \cup Errors /\ pc' \in {"idle", "panicked"}
      /\ pc' = "panicked" => readErr' # "nil"
  BY FailCalms
<1>3. ReadTypes'
  BY <1>1, <1>2 DEF BaseInv, ReadTypes
<1>4. Calm'
  BY <1>2 DEF Calm, Running
<1>5. InOrder'
  BY <1>1, <1>2, OrderStays DEF Parsing, BaseInv, ReadTypes
<1> QED BY <1>3, <1>4, <1>5 DEF BaseInv

LEMMA AvailableIs ==
    ASSUME ReadTypes
    PROVE  Available \in Nat /\ Available = arrived - pos
BY DEF ReadTypes, Available

LEMMA SkipBase ==
    ASSUME BaseInv, SkipFrame
    PROVE  BaseInv'
<1>1. /\ pc = "skip" /\ pos' = pos + readRemaining /\ pc' = "head" /\ Available >= readRemaining
      /\ UNCHANGED <<netVars, connVars, outVars, caller, frame, result, appVars>>
  BY DEF SkipFrame, Needed
<1>2. pos \in Nat /\ arrived \in Nat /\ readRemaining \in Nat /\ readFinal \in BOOLEAN
      /\ readLength \in Nat
  BY DEF BaseInv, ReadTypes
<1>3. pos' \in Nat /\ pos' >= pos /\ pos' <= arrived
  BY <1>1, <1>2 DEF Available
<1> QED BY <1>1, <1>2, <1>3, MovesBase DEF connVars, Running, Parsing

LEMMA KeyBase ==
    ASSUME BaseInv, ReadKey
    PROVE  BaseInv'
<1>1. /\ pc = "key" /\ pos' = pos + 1 /\ Available >= 1
      /\ UNCHANGED <<netVars, readRemaining, readFinal, readLength, messageReader, validating,
                     utf8State, outVars, caller, frame, appVars>>
  BY DEF ReadKey, Needed
<1>2. pos \in Nat /\ arrived \in Nat /\ readRemaining \in Nat /\ readFinal \in BOOLEAN
      /\ readLength \in Nat
      /\ replies \in Seq(ReplyType) /\ closeSent \in BOOLEAN
  BY DEF BaseInv, ReadTypes
<1>3. pos' \in Nat /\ pos' >= pos /\ pos' <= arrived
  BY <1>1, <1>2 DEF Available
<1>4. CASE Fail("limit")
  BY <1>1, <1>2, <1>3, <1>4, FailsBase DEF Running, Errors, outVars
<1>5. CASE pc' = "payload" /\ UNCHANGED <<readErr, readErrCount, result>>
  BY <1>1, <1>2, <1>3, <1>5, MovesBase DEF Running, Parsing
<1> QED BY <1>4, <1>5 DEF ReadKey

(* Only a call that runs is interrupted.                                   *)
LEMMA InterruptsRun ==
    ASSUME BaseInv, ReadTimeout \/ ReadEOF
    PROVE  Running
<1>1. Available \in Nat
  BY AvailableIs DEF BaseInv
<1>2. Needed > 0
  BY <1>1 DEF ReadTimeout, ReadEOF, Needed, BaseInv, ReadTypes
<1> QED BY <1>2 DEF Needed, Running

LEMMA InterruptedBase ==
    ASSUME BaseInv, ReadTimeout \/ ReadEOF
    PROVE  BaseInv'
<1>0. Available \in Nat /\ pos \in Nat /\ arrived \in Nat /\ Available = arrived - pos
  BY AvailableIs DEF BaseInv, ReadTypes
<1>1. PICK k \in 0..Available, e \in {"timeout", "eof", "unexpectedEOF"} : Interrupted(e, k) /\ k < Needed
  BY <1>0 DEF ReadTimeout, ReadEOF
<1>2. pos' \in Nat /\ pos' >= pos /\ pos' <= arrived
  BY <1>0, <1>1 DEF Interrupted
<1>3. Running
  BY InterruptsRun
<1>4. /\ readRemaining' \in Nat /\ readFinal' \in BOOLEAN /\ readLength' \in Nat
      /\ replies' \in Seq(ReplyType) /\ closeSent' \in BOOLEAN
  BY <1>1 DEF Interrupted, BaseInv, ReadTypes, outVars
<1> QED BY <1>1, <1>2, <1>3, <1>4, FailsBase DEF Interrupted, Errors

(* Where the parser is when it takes the next header.                      *)
LEMMA HeadPlace ==
    ASSUME BaseInv, ReadHead
    PROVE  LET j == unit(1).frame
           IN  /\ j \in 1..Len(peer) /\ pos = Off(peer, j - 1) /\ frame < j
               /\ pos' \in Nat /\ pos' <= arrived /\ pos' = pos + 2
               /\ frame' = j /\ readRemaining' = Len(peer[j].body)
<1> DEFINE j == unit(1).frame
<1>0. /\ Available \in Nat /\ pos \in Nat /\ arrived \in Nat /\ Available = arrived - pos
      /\ arrived <= Len(stream) /\ frame \in 0..Len(peer) /\ peer \in Seq(Frame) /\ Len(peer) \in Nat
      /\ messageReader \in 0..Len(peer) /\ Len(stream) \in Nat
  BY AvailableIs, StreamIs DEF BaseInv, ReadTypes
<1>1. /\ pc = "head" /\ pos' = pos + 2 /\ Available >= 2 /\ unit(1).part = "h1"
      /\ frame' = j /\ readRemaining' = Len(peer[j].body)
  BY DEF ReadHead, Needed
<1>2. pos' \in Nat /\ pos' <= arrived /\ pos < Len(stream)
  BY <1>0, <1>1
<1>3. j \in 1..Len(peer) /\ pos = Off(peer, j - 1)
  BY <1>1, <1>2, HeadIs DEF BaseInv
<1> HIDE DEF j
<1>4. frame < j
  <2> SUFFICES ASSUME j <= frame PROVE FALSE
    BY <1>0, <1>3
  <2>1. frame # 0 /\ frame - 1 \in 0..Len(peer) /\ j - 1 \in 0..Len(peer)
    BY <1>0, <1>3
  <2>2. Off(peer, frame - 1) < pos /\ Off(peer, frame - 1) \in Nat /\ Off(peer, j - 1) \in Nat
    BY <1>0, <2>1, UnitsGrow DEF BaseInv, InOrder
  <2>3. CASE j = frame
    BY <1>3, <2>2, <2>3
  <2>4. CASE j - 1 < frame - 1
    <3>1. Off(peer, j - 1) < Off(peer, frame - 1)
      BY <1>0, <2>1, <2>4, OffGrows
    <3> QED BY <1>0, <1>3, <2>2, <3>1
  <2> QED BY <1>0, <1>3, <2>3, <2>4
<1> QED BY <1>1, <1>2, <1>3, <1>4 DEF j

LEMMA HeadBase ==
    ASSUME BaseInv, ReadHead
    PROVE  BaseInv'
<1> DEFINE j == unit(1).frame
<1>0. /\ pos \in Nat /\ arrived \in Nat /\ frame \in 0..Len(peer) /\ peer \in Seq(Frame)
      /\ Len(peer) \in Nat
      /\ messageReader \in 0..Len(peer)
  BY StreamIs DEF BaseInv, ReadTypes
<1>1. /\ pc = "head" /\ pos' = pos + 2
      /\ frame' = j /\ readRemaining' = Len(peer[j].body)
      /\ readFinal' = IF peer[j].op \in DataOps THEN peer[j].fin ELSE readFinal
      /\ \/ Fail("protocol") /\ Reply("close", "protocol", j)
         \/ pc' = "key" /\ UNCHANGED <<readErr, readErrCount, result, outVars>>
      /\ UNCHANGED <<netVars, readLength, messageReader, validating, utf8State, caller, appVars>>
      /\ stream' = stream
  BY DEF ReadHead, netVars, stream
<1>2. pos' \in Nat /\ pos' <= arrived
  BY HeadPlace
<1>3. j \in 1..Len(peer) /\ pos = Off(peer, j - 1)
  BY HeadPlace
<1>4. frame < j
  BY HeadPlace
<1> HIDE DEF j
<1>5. peer[j].body \in Seq(Bytes) /\ Len(peer[j].body) \in Nat /\ peer[j].fin \in BOOLEAN
  BY <1>0, <1>3, FrameFields
<1>6. /\ replies' \in Seq(ReplyType) /\ closeSent' \in BOOLEAN
      /\ readErr' \in {"nil"} \cup Errors
      /\ pc' \in {"idle", "panicked", "key"}
      /\ pc' = "key" => readErr' = "nil" /\ (caller' = "read" <=> messageReader' # 0)
      /\ pc' = "panicked" => readErr' # "nil"
  <2>1. Running /\ readErr = "nil" /\ (caller = "read" <=> messageReader # 0)
        /\ replies \in Seq(ReplyType) /\ closeSent \in BOOLEAN
    BY <1>1 DEF Running, BaseInv, Calm, ReadTypes
  <2>2. CASE Fail("protocol") /\ Reply("close", "protocol", j)
    <3>1. "protocol" \in Errors /\ j \in Nat
      BY <1>3 DEF Errors
    <3>2. replies' \in Seq(ReplyType) /\ closeSent' \in BOOLEAN
      BY <2>1, <2>2, <3>1, ReplyIs
    <3> QED BY <2>1, <2>2, <3>1, <3>2, FailCalms
  <2>3. CASE pc' = "key" /\ UNCHANGED <<readErr, readErrCount, result, outVars>>
    BY <1>1, <2>1, <2>3 DEF outVars
  <2> QED BY <1>1, <2>2, <2>3
<1>7. ReadTypes'
  <2>1. readFinal' \in BOOLEAN
    BY <1>1, <1>5 DEF BaseInv, ReadTypes
  <2>2. frame' \in 0..Len(peer)
    BY <1>0, <1>1, <1>3
  <2>3. UNCHANGED <<peer, arrived, eof, got, complete, stream>>
    BY <1>1 DEF netVars, appVars
  <2> QED BY <1>1, <1>2, <1>5, <1>6, <2>1, <2>2, <2>3 DEF BaseInv, ReadTypes
<1>8. Calm'
  BY <1>6 DEF Calm, Running
<1>9. InOrder'
  <2>1. UNCHANGED <<peer, got, complete, messageReader>>
    BY <1>1 DEF netVars, appVars
  <2>2. frame' = j /\ frame' # 0 /\ pos' = pos + 2
    BY <1>0, <1>1, <1>3
  <2>3. Off(peer', frame' - 1) < pos'
    <3>1. Off(peer', frame' - 1) = Off(peer, j - 1)
      BY <2>1, <2>2, Zenon
    <3>2. Off(peer', frame' - 1) = pos
      BY <1>3, <3>1, Zenon
    <3>3. pos < pos'
      BY <1>0, <2>2
    <3> QED BY <3>2, <3>3, Zenon
  <2>4. messageReader' < frame'
    <3>1. messageReader <= frame /\ messageReader \in Nat /\ frame \in Nat /\ j \in Nat
      BY <1>0, <1>3 DEF BaseInv, InOrder
    <3>2. messageReader < j
      BY <1>4, <3>1
    <3> QED BY <2>1, <2>2, <3>2
  <2>5. ASSUME NEW m \in 1..Len(peer'), got'[m] # <<>> \/ m \in complete'
        PROVE  m < frame'
    <3>1. m <= frame
      BY <2>1, <2>5 DEF BaseInv, InOrder
    <3> QED BY <1>0, <1>3, <1>4, <2>1, <2>2, <3>1
  <2>6. messageReader' \in Nat /\ frame' \in Nat
    BY <1>0, <1>3, <2>1, <2>2
  <2> QED BY <1>0, <2>1, <2>2, <2>3, <2>4, <2>5, <2>6 DEF InOrder
<1> QED BY <1>7, <1>8, <1>9 DEF BaseInv

LEMMA DataBase ==
    ASSUME BaseInv, DataFrame
    PROVE  BaseInv'
<1>0. /\ frame \in 1..Len(peer) /\ readRemaining \in Nat /\ readLength \in Nat /\ readFinal \in BOOLEAN
      /\ pos \in Nat /\ arrived \in Nat /\ pos <= arrived /\ Len(peer) \in Nat
      /\ replies \in Seq(ReplyType) /\ closeSent \in BOOLEAN /\ utf8State \in States
      /\ pc = "payload" /\ Running
  BY StreamIs DEF BaseInv, ReadTypes, InOrder, Parsing, Running, DataFrame
<1>1. /\ readLength' = readLength + readRemaining /\ readLength' \in Nat
      /\ UNCHANGED <<netVars, pos, readRemaining, readFinal, caller, frame, appVars>>
  BY <1>0 DEF DataFrame
<1>2. CASE /\ Fail("limit") /\ Reply("close", "limit", frame)
           /\ UNCHANGED <<messageReader, validating, utf8State>>
  <2>1. "limit" \in Errors /\ frame \in Nat
    BY <1>0 DEF Errors
  <2>2. replies' \in Seq(ReplyType) /\ closeSent' \in BOOLEAN
    BY <1>0, <1>2, <2>1, ReplyIs
  <2> QED BY <1>0, <1>1, <1>2, <2>1, <2>2, FailsBase
<1>3. CASE /\ UNCHANGED outVars /\ FrameDone(readRemaining)
           /\ UNCHANGED <<readErr, result, messageReader, validating, utf8State>>
  <2>1. /\ pc' \in {"skip", "head", "read"}
        /\ pc' = "skip" => caller = "next"
        /\ pc' = "read" => caller = "read"
    BY <1>3 DEF FrameDone, BaseInv, ReadTypes
  <2> QED BY <1>0, <1>1, <1>3, <2>1, MovesBase DEF Parsing
<1>4. CASE /\ UNCHANGED outVars
           /\ Fail("internal") /\ UNCHANGED <<messageReader, validating, utf8State>>
  BY <1>0, <1>1, <1>4, FailsBase DEF Errors, outVars
<1>5. CASE /\ UNCHANGED outVars
           /\ messageReader' = frame
           /\ validating' = (peer[frame].op = "text")
           /\ utf8State' = IF validating' THEN "accept" ELSE utf8State
           /\ readErrCount' = 0
           /\ result' = "reader" /\ pc' = "idle"
           /\ UNCHANGED readErr
  <2>1. UNCHANGED <<peer, arrived, eof, got, complete, stream, closeSent, replies>>
    BY <1>1, <1>5 DEF netVars, appVars, stream, outVars
  <2>2. utf8State' \in States /\ validating' \in BOOLEAN /\ messageReader' \in 0..Len(peer)
        /\ messageReader' = frame' /\ frame' = frame
    BY <1>0, <1>1, <1>5 DEF States
  <2>3. ReadTypes'
    BY <1>1, <1>5, <2>1, <2>2 DEF BaseInv, ReadTypes
  <2>4. Calm'
    BY <1>5 DEF Calm, Running
  <2>5. InOrder'
    BY <1>0, <1>1, <1>5, <2>1, <2>2 DEF BaseInv, InOrder, Parsing
  <2> QED BY <2>3, <2>4, <2>5 DEF BaseInv
<1> QED BY <1>2, <1>3, <1>4, <1>5 DEF DataFrame

LEMMA ControlBase ==
    ASSUME BaseInv, Ping \/ Pong \/ Close \/ HandlerFails
    PROVE  BaseInv'
<1>0. /\ ReadControl /\ frame \in Nat /\ readRemaining \in Nat /\ readLength \in Nat
      /\ readFinal \in BOOLEAN
      /\ pos \in Nat /\ arrived \in Nat /\ Available = arrived - pos
      /\ replies \in Seq(ReplyType) /\ closeSent \in BOOLEAN
  BY StreamIs, AvailableIs DEF BaseInv, ReadTypes, Ping, Pong, Close, HandlerFails
<1>1. /\ pc = "payload" /\ Running /\ pos' = pos + readRemaining /\ readRemaining' = 0
      /\ Available >= readRemaining
      /\ UNCHANGED <<netVars, readFinal, readLength, messageReader, validating, utf8State,
                     caller, frame, appVars>>
  BY <1>0 DEF ReadControl, Needed, Running
<1>2. /\ pos' \in Nat /\ pos' >= pos /\ pos' <= arrived
      /\ readRemaining' \in Nat /\ readFinal' \in BOOLEAN /\ readLength' \in Nat
  BY <1>0, <1>1
<1>3. CASE Pong
  <2>1. /\ pc' \in {"skip", "head", "read"}
        /\ pc' = "skip" => caller = "next"
        /\ pc' = "read" => caller = "read"
    BY <1>3 DEF Pong, FrameDone, BaseInv, ReadTypes
  <2> QED BY <1>1, <1>2, <1>3, <2>1, MovesBase DEF Pong, Parsing
<1>4. CASE Ping
  <2>1. pc' \in {"skip", "head", "read"} /\ (pc' = "skip" => caller = "next")
        /\ (pc' = "read" => caller = "read")
    BY <1>4 DEF Ping, FrameDone, BaseInv, ReadTypes
  <2>2. replies' \in Seq(ReplyType) /\ closeSent' \in BOOLEAN
    BY <1>0, <1>4, ReplyIs DEF Ping
  <2>3. ReadTypes'
    <3>1. UNCHANGED <<peer, arrived, eof, got, complete, stream>>
      BY <1>1 DEF netVars, appVars, stream
    <3> QED BY <1>1, <1>2, <1>4, <2>1, <2>2, <3>1 DEF Ping, BaseInv, ReadTypes
  <2>4. Calm'
    BY <1>1, <1>4, <2>1 DEF Ping, BaseInv, Calm, Running
  <2>5. InOrder'
    BY <1>1, <1>2, <2>1, OrderStays DEF Parsing, netVars, appVars, BaseInv, ReadTypes
  <2> QED BY <2>3, <2>4, <2>5 DEF BaseInv
<1>5. CASE Close
  <2>1. PICK e \in {"protocol", "closed"} : Reply("close", e, frame) /\ Fail(e)
    BY <1>5 DEF Close
  <2>2. replies' \in Seq(ReplyType) /\ closeSent' \in BOOLEAN
    BY <1>0, <2>1, ReplyIs DEF Errors
  <2> QED BY <1>1, <1>2, <2>1, <2>2, FailsBase DEF Errors
<1>6. CASE HandlerFails
  BY <1>0, <1>1, <1>2, <1>6, FailsBase DEF HandlerFails, Errors, outVars
<1> QED BY <1>3, <1>4, <1>5, <1>6

(* ReadBody hands the reader's message on, and nothing else.               *)
LEMMA OnlyThisMessage ==
    ASSUME ReadTypes, messageReader # 0, NEW x \in Seq(Bytes),
           \/ got' = [got EXCEPT ![messageReader] = @ \o x]
           \/ got' = got,
           complete' \in {complete, complete \cup {messageReader}}
    PROVE  /\ got' \in [1..Len(peer) -> Seq(Bytes)] /\ complete' \subseteq 1..Len(peer)
           /\ \A m \in 1..Len(peer) : m # messageReader =>
                 got'[m] = got[m] /\ (m \in complete' => m \in complete)
<1>1. /\ messageReader \in 1..Len(peer) /\ got \in [1..Len(peer) -> Seq(Bytes)]
      /\ complete \subseteq 1..Len(peer)
  BY StreamIs DEF ReadTypes
<1>2. got[messageReader] \o x \in Seq(Bytes)
  <2>1. got[messageReader] \in Seq(Bytes)
    BY <1>1
  <2> QED BY <2>1, ConcatProperties
<1> QED BY <1>1, <1>2

LEMMA UnitsOfStream ==
    ASSUME ReadTypes
    PROVE  \A k \in 1..Available : unit(k).byte \in Bytes
<1> SUFFICES ASSUME NEW k \in 1..Available PROVE unit(k).byte \in Bytes
  OBVIOUS
<1>1. pos + k \in 1..Len(stream)
  BY StreamIs DEF ReadTypes, Available
<1>2. stream[pos + k] \in Unit
  BY <1>1, StreamIs, ElementOfSeq
<1> QED BY <1>2 DEF unit, Unit

(* A call of Read that ends: what it may have changed.                     *)
LEMMA ReturnsBase ==
    ASSUME BaseInv, UNCHANGED <<netVars, readFinal, readLength, validating, caller, frame>>,
           pos' \in Nat, pos' >= pos, pos' <= arrived, readRemaining' \in Nat,
           pc' = "idle", readErr' \in {"nil"} \cup Errors, utf8State' \in States,
           messageReader' \in {0, messageReader}, messageReader # 0,
           replies' \in Seq(ReplyType), closeSent' \in BOOLEAN,
           NEW x \in Seq(Bytes), got' = [got EXCEPT ![messageReader] = @ \o x] \/ got' = got,
           complete' \in {complete, complete \cup {messageReader}}
    PROVE  BaseInv'
<1>1. stream' = stream /\ UNCHANGED <<peer, arrived, eof>>
  BY DEF stream, netVars
<1>2. /\ got' \in [1..Len(peer) -> Seq(Bytes)] /\ complete' \subseteq 1..Len(peer)
      /\ \A m \in 1..Len(peer) : m # messageReader =>
            got'[m] = got[m] /\ (m \in complete' => m \in complete)
  BY OnlyThisMessage DEF BaseInv
<1>3. messageReader' \in 0..Len(peer) /\ messageReader \in 0..Len(peer) /\ 0 \in 0..Len(peer)
  BY StreamIs DEF BaseInv, ReadTypes
<1>4. ReadTypes'
  BY <1>1, <1>2, <1>3 DEF BaseInv, ReadTypes
<1>5. Calm'
  BY DEF Calm, Running
<1>6. InOrder'
  BY <1>1, <1>2, OrderStays DEF Parsing
<1> QED BY <1>4, <1>5, <1>6 DEF BaseInv

LEMMA ReadBase ==
    ASSUME BaseInv, Read
    PROVE  BaseInv'
<1>1. /\ pc = "idle" /\ messageReader # 0 /\ caller' = "read" /\ pc' \in {"idle", "read"}
      /\ pc' = "read" => readErr = "nil"
      /\ UNCHANGED <<peer, arrived, eof, pos, readErr, readErrCount, readRemaining, readFinal, readLength,
                     messageReader, validating, utf8State, closeSent, replies, frame, got, complete, stream>>
  BY DEF Read, netVars, connVars, outVars, appVars, stream
<1>2. ReadTypes'
  BY <1>1 DEF BaseInv, ReadTypes
<1>3. Calm'
  BY <1>1 DEF Calm, Running
<1>4. InOrder'
  BY <1>1, OrderStays DEF Parsing, BaseInv, ReadTypes
<1> QED BY <1>2, <1>3, <1>4 DEF BaseInv

(* What Read takes of the payload, and what it makes of it.                *)
Took(n, x, err) ==
    /\ Len(x) = n /\ n <= readRemaining /\ \A k \in 1..n : x[k] = unit(k).byte
    /\ pos' = pos + n /\ readRemaining' = readRemaining - n
    /\ utf8State' = (IF validating THEN Utf8Run(utf8State, x) ELSE utf8State)
    /\ err # "nil" => EOFWithData
    /\ \/ utf8State' = "reject" /\ Reject(err, "utf8")
       \/ err = "eof" /\ utf8State' # "accept" /\ Reject(err, "eof")
       \/ /\ utf8State' # "reject" /\ readErr' = err
          /\ result' = (IF err = "nil" THEN "data" ELSE err)
          /\ got' = [got EXCEPT ![messageReader] = @ \o x]
          /\ complete' = (IF err = "eof" THEN complete \cup {messageReader} ELSE complete)
          /\ UNCHANGED outVars

BodyErrors == {"nil", "eof", "unexpectedEOF"}

LEMMA BodyStep ==
    ASSUME BaseInv, ReadBody
    PROVE  \E n \in 1..Available, x \in Seq(Bytes), err \in BodyErrors : Took(n, x, err)
<1>1. PICK n \in ReadSizes, e \in {"nil", "eof"} :
         /\ e = "eof" => EOFWithData /\ eof /\ n = Available
         /\ LET bytes == [k \in 1..n |-> unit(k).byte]
                state == IF validating THEN Utf8Run(utf8State, bytes) ELSE utf8State
                err   == IF e = "eof" /\ n < readRemaining THEN "unexpectedEOF" ELSE e
            IN  /\ pos' = pos + n
                /\ readRemaining' = readRemaining - n
                /\ utf8State' = state
                /\ IF state = "reject" THEN Reject(err, "utf8")
                   ELSE IF err = "eof" /\ state # "accept" THEN Reject(err, "eof")
                   ELSE /\ readErr' = err
                        /\ result' = IF err = "nil" THEN "data" ELSE err
                        /\ got' = [got EXCEPT ![messageReader] = @ \o bytes]
                        /\ complete' = IF err = "eof" THEN complete \cup {messageReader}
                                                      ELSE complete
                        /\ UNCHANGED outVars
  BY DEF ReadBody
<1> DEFINE bytes == [k \in 1..n |-> unit(k).byte]
           err   == IF e = "eof" /\ n < readRemaining THEN "unexpectedEOF" ELSE e
<1>2. n \in 1..Available /\ n <= readRemaining /\ n \in Nat
  BY DEF ReadSizes
<1>3. bytes \in Seq(Bytes) /\ Len(bytes) = n /\ \A k \in 1..n : bytes[k] = unit(k).byte
  <2>1. \A k \in 1..n : unit(k).byte \in Bytes
    <3>1. Available \in Nat
      BY AvailableIs DEF BaseInv
    <3>2. \A k \in 1..n : k \in 1..Available
      BY <1>2, <3>1
    <3> QED BY <3>2, UnitsOfStream DEF BaseInv
  <2>2. bytes \in [1..n -> Bytes] /\ DOMAIN bytes = 1..n
    BY <2>1
  <2>3. bytes \in Seq(Bytes)
    BY <1>2, <2>2
  <2>4. Len(bytes) = n
    <3> HIDE DEF bytes
    <3> QED BY <1>2, <2>2, <2>3, LenProperties
  <2> QED BY <2>3, <2>4
<1>4. err \in BodyErrors /\ (err # "nil" => EOFWithData)
  BY <1>1 DEF BodyErrors
<1>5. /\ pos' = pos + n /\ readRemaining' = readRemaining - n
      /\ utf8State' = (IF validating THEN Utf8Run(utf8State, bytes) ELSE utf8State)
      /\ \/ utf8State' = "reject" /\ Reject(err, "utf8")
         \/ err = "eof" /\ utf8State' # "accept" /\ Reject(err, "eof")
         \/ /\ utf8State' # "reject" /\ readErr' = err
            /\ result' = (IF err = "nil" THEN "data" ELSE err)
            /\ got' = [got EXCEPT ![messageReader] = @ \o bytes]
            /\ complete' = (IF err = "eof" THEN complete \cup {messageReader} ELSE complete)
            /\ UNCHANGED outVars
  BY <1>1
<1> HIDE DEF bytes, err
<1>6. Took(n, bytes, err)
  BY <1>2, <1>3, <1>4, <1>5 DEF Took
<1> QED BY <1>2, <1>3, <1>4, <1>6

LEMMA ReadBodyBase ==
    ASSUME BaseInv, ReadBody
    PROVE  BaseInv'
<1>1. PICK n \in 1..Available, x \in Seq(Bytes), err \in BodyErrors : Took(n, x, err)
  BY BodyStep
<1>2. /\ n <= readRemaining /\ pos' = pos + n /\ readRemaining' = readRemaining - n
      /\ utf8State' = (IF validating THEN Utf8Run(utf8State, x) ELSE utf8State)
      /\ \/ utf8State' = "reject" /\ Reject(err, "utf8")
         \/ err = "eof" /\ utf8State' # "accept" /\ Reject(err, "eof")
         \/ /\ utf8State' # "reject" /\ readErr' = err
            /\ got' = [got EXCEPT ![messageReader] = @ \o x]
            /\ complete' = (IF err = "eof" THEN complete \cup {messageReader} ELSE complete)
            /\ UNCHANGED outVars
  BY <1>1 DEF Took
<1>3. /\ pos \in Nat /\ arrived \in Nat /\ Available = arrived - pos /\ Available \in Nat
      /\ readRemaining \in Nat /\ utf8State \in States /\ replies \in Seq(ReplyType)
      /\ closeSent \in BOOLEAN /\ frame \in Nat
  BY AvailableIs, StreamIs DEF BaseInv, ReadTypes
<1>4. /\ pc = "read" /\ pc' = "idle"
      /\ UNCHANGED <<netVars, readErrCount, readFinal, readLength, messageReader, validating,
                     caller, frame>>
  BY DEF ReadBody
<1>5. messageReader # 0
  BY <1>4 DEF BaseInv, Calm, Running
<1>6. pos' \in Nat /\ pos' >= pos /\ pos' <= arrived /\ readRemaining' \in Nat
  BY <1>2, <1>3
<1>7. utf8State' \in States
  BY <1>2, <1>3, Utf8Type
<1>8. /\ replies' \in Seq(ReplyType) /\ closeSent' \in BOOLEAN
      /\ readErr' \in {"nil"} \cup Errors
      /\ got' = [got EXCEPT ![messageReader] = @ \o x] \/ got' = got
      /\ complete' \in {complete, complete \cup {messageReader}}
  <2>1. CASE \E returned \in {"utf8", "eof"} : Reject(err, returned)
    <3>1. Reply("close", "utf8", frame)
      BY <2>1 DEF Reject
    <3>2. replies' \in Seq(ReplyType) /\ closeSent' \in BOOLEAN
      BY <1>3, <3>1, ReplyIs DEF Errors
    <3>3. /\ readErr' \in {"nil"} \cup Errors /\ got' = got
          /\ complete' \in {complete, complete \cup {messageReader}}
      BY <2>1 DEF Reject, Errors, BodyErrors
    <3> QED BY <3>2, <3>3
  <2>2. CASE /\ readErr' = err
             /\ got' = [got EXCEPT ![messageReader] = @ \o x]
             /\ complete' = (IF err = "eof" THEN complete \cup {messageReader} ELSE complete)
             /\ UNCHANGED outVars
    BY <1>3, <2>2 DEF Errors, BodyErrors, outVars
  <2> QED BY <1>2, <2>1, <2>2
<1> QED BY <1>4, <1>5, <1>6, <1>7, <1>8, ReturnsBase

LEMMA ReadBodyFailsBase ==
    ASSUME BaseInv, ReadBodyFails
    PROVE  BaseInv'
<1>1. /\ pc = "read" /\ Running
      /\ \E e \in {"timeout", "unexpectedEOF"} : Fail(e)
      /\ UNCHANGED <<netVars, pos, readRemaining, readFinal, readLength, messageReader,
                     validating, utf8State, outVars, caller, frame, appVars>>
  BY DEF ReadBodyFails, Running
<1>2. /\ pos' \in Nat /\ pos' >= pos /\ pos' <= arrived
      /\ readRemaining' \in Nat /\ readFinal' \in BOOLEAN /\ readLength' \in Nat
      /\ replies' \in Seq(ReplyType) /\ closeSent' \in BOOLEAN
  BY <1>1 DEF BaseInv, ReadTypes, outVars
<1> QED BY <1>1, <1>2, FailsBase DEF Errors

LEMMA ReadEndBase ==
    ASSUME BaseInv, ReadEnd
    PROVE  BaseInv'
<1>1. /\ pc = "read" /\ pc' = "idle" /\ messageReader' = 0
      /\ UNCHANGED <<netVars, pos, readErrCount, readRemaining, readFinal, readLength,
                     validating, utf8State, caller, frame>>
  BY DEF ReadEnd
<1>2. messageReader # 0 /\ readErr = "nil"
  BY <1>1 DEF BaseInv, Calm, Running
<1>3. /\ pos' \in Nat /\ pos' >= pos /\ pos' <= arrived /\ readRemaining' \in Nat
      /\ utf8State' \in States /\ frame \in Nat /\ replies \in Seq(ReplyType) /\ closeSent \in BOOLEAN
  BY <1>1, StreamIs DEF BaseInv, ReadTypes
<1>4. /\ replies' \in Seq(ReplyType) /\ closeSent' \in BOOLEAN /\ readErr' \in {"nil"} \cup Errors
      /\ got' = got /\ complete' \in {complete, complete \cup {messageReader}}
  <2>1. CASE Reject("nil", "utf8")
    <3>1. Reply("close", "utf8", frame)
      BY <2>1 DEF Reject
    <3>2. replies' \in Seq(ReplyType) /\ closeSent' \in BOOLEAN
      BY <1>3, <3>1, ReplyIs DEF Errors
    <3> QED BY <2>1, <3>2 DEF Reject, Errors
  <2>2. CASE complete' = complete \cup {messageReader} /\ UNCHANGED <<readErr, got, outVars>>
    BY <1>2, <1>3, <2>2 DEF outVars
  <2> QED BY <2>1, <2>2 DEF ReadEnd
<1>5. <<>> \in Seq(Bytes)
  OBVIOUS
<1> QED BY <1>1, <1>2, <1>3, <1>4, <1>5, ReturnsBase

LEMMA ReadOnBase ==
    ASSUME BaseInv, ReadOn
    PROVE  BaseInv'
<1>1. /\ pc = "read" /\ Running /\ pc' = "head"
      /\ UNCHANGED <<netVars, pos, connVars, outVars, caller, frame, result, appVars>>
  BY DEF ReadOn, Running
<1>2. /\ pos' \in Nat /\ pos' >= pos /\ pos' <= arrived
      /\ readRemaining' \in Nat /\ readFinal' \in BOOLEAN /\ readLength' \in Nat
  BY <1>1 DEF BaseInv, ReadTypes, connVars
<1> QED BY <1>1, <1>2, MovesBase DEF connVars, Parsing

LEMMA InitBase ==
    ASSUME Init
    PROVE  BaseInv
<1>1. peer \in Seq(Frame) /\ Len(peer) \in Nat /\ DOMAIN peer = 1..Len(peer)
  BY ScriptsAssumption, LenProperties DEF Init
<1>2. /\ peer \in Scripts /\ arrived = 0 /\ pos = 0 /\ readErr = "nil" /\ readRemaining = 0
      /\ readFinal = TRUE /\ readLength = 0 /\ messageReader = 0 /\ validating = FALSE
      /\ utf8State = "accept" /\ closeSent = FALSE /\ replies = <<>> /\ pc = "idle"
      /\ caller = "next" /\ frame = 0 /\ got = [i \in 1..Len(peer) |-> <<>>] /\ complete = {}
  BY <1>1 DEF Init
<1>3. Len(stream) \in Nat
  <2>1. Len(peer) \in 0..Len(peer) /\ stream = Units(peer, Len(peer))
    BY <1>1, <1>2 DEF stream, Stream, Units
  <2>2. Units(peer, Len(peer)) \in Seq(Unit)
    BY <1>1, <2>1, UnitsGrow
  <2> QED BY <2>1, <2>2, LenProperties
<1>4. got \in [1..Len(peer) -> Seq(Bytes)] /\ replies \in Seq(ReplyType) /\ utf8State \in States
  <2>1. <<>> \in Seq(Bytes) /\ <<>> \in Seq(ReplyType)
    BY EmptySeq
  <2>2. got \in [1..Len(peer) -> Seq(Bytes)]
    BY <1>2, <2>1
  <2>3. replies \in Seq(ReplyType)
    BY <1>2, <2>1
  <2> QED BY <1>2, <2>2, <2>3 DEF States
<1>5. ReadTypes
  <2>1. /\ peer \in Scripts /\ arrived \in Nat /\ arrived <= Len(stream) /\ pos \in Nat /\ pos <= arrived
        /\ readRemaining \in Nat /\ readLength \in Nat
        /\ messageReader \in 0..Len(peer) /\ frame \in 0..Len(peer)
    BY <1>1, <1>2, <1>3
  <2>2. readFinal \in BOOLEAN /\ validating \in BOOLEAN /\ closeSent \in BOOLEAN
    BY <1>2
  <2>3. /\ pc \in {"idle", "skip", "head", "key", "payload", "read", "panicked"}
        /\ caller \in {"next", "read"} /\ readErr \in {"nil"} \cup Errors
        /\ complete \subseteq 1..Len(peer)
    BY <1>2
  <2> QED BY <1>4, <2>1, <2>2, <2>3 DEF ReadTypes
<1>6. Calm
  BY <1>2 DEF Calm, Running
<1>7. InOrder
  BY <1>2 DEF InOrder, Parsing
<1> QED BY <1>5, <1>6, <1>7 DEF BaseInv

LEMMA BaseStays ==
    ASSUME BaseInv, [Next]_vars
    PROVE  BaseInv'
<1>1. CASE UNCHANGED vars
  <2>1. UNCHANGED <<peer, arrived, eof, pos, readErr, readErrCount, readRemaining, readFinal, readLength,
                    messageReader, validating, utf8State, closeSent, replies, pc, caller, frame, result,
                    got, complete, stream>>
    BY <1>1 DEF vars, netVars, connVars, outVars, appVars, stream
  <2> QED BY <2>1 DEF BaseInv, ReadTypes, Calm, InOrder, Running, Parsing
<1>2. CASE Next
  BY <1>2, NetBase, NextReaderBase, SkipBase, HeadBase, KeyBase, DataBase, ControlBase, InterruptedBase,
     ReadBase, ReadBodyBase, ReadBodyFailsBase, ReadEndBase, ReadOnBase DEF Next
<1> QED BY <1>1, <1>2

-----------------------------------------------------------------------------
(* AnswersPeer.                                                            *)
TellInv == Answered /\ AnswersPeer

(* What every step does that answers nothing ... *)
LEMMA SilenceTells ==
    ASSUME BaseInv, BaseInv', TellInv, UNCHANGED peer,
           frame' >= frame, (Parsing' /\ frame' = frame) => Parsing,
           readErr # "nil" => readErr' = readErr,
           UNCHANGED <<closeSent, replies>>
    PROVE  TellInv'
<1>1. frame \in Nat /\ frame' \in Nat
  BY StreamIs DEF BaseInv, ReadTypes
<1>2. replies \in Seq(ReplyType) /\ DOMAIN replies = 1..Len(replies) /\ Len(replies) \in Nat
  BY LenProperties DEF BaseInv, ReadTypes
<1>3. \A i \in 1..Len(replies) : replies[i] \in ReplyType
  BY <1>2, ElementOfSeq
<1>4. Answered'
  <2>1. ASSUME NEW i \in DOMAIN replies', replies'[i].op = "pong"
        PROVE  replies'[i].frame \in 1..frame' /\ (Parsing' => replies'[i].frame < frame')
    <3>1. replies[i].frame \in 1..frame /\ (Parsing => replies[i].frame < frame)
      BY <2>1 DEF TellInv, Answered
    <3> QED BY <1>1, <3>1
  <2>2. (\E i \in DOMAIN replies' : replies'[i].op = "close") => closeSent'
    BY DEF TellInv, Answered
  <2> QED BY <2>1, <2>2 DEF Answered
<1>5. AnswersPeer'
  <2>1. ASSUME NEW i \in DOMAIN replies', replies'[i].op = "close"
        PROVE  i = Len(replies') /\ (replies'[i].why # "app" => readErr' = replies'[i].why)
    <3>1. i = Len(replies) /\ (replies[i].why # "app" => readErr = replies[i].why)
      BY <2>1 DEF TellInv, AnswersPeer
    <3>2. replies[i].why # "nil"
      <4>1. replies[i] \in ReplyType
        BY <1>2, <1>3
      <4> QED BY <4>1 DEF ReplyType, Errors
    <3> QED BY <3>1, <3>2
  <2> QED BY <2>1 DEF TellInv, AnswersPeer
<1> QED BY <1>4, <1>5 DEF TellInv

(* ... and every one that sends a control frame.                           *)
LEMMA AnswerTells ==
    ASSUME BaseInv, BaseInv', TellInv, UNCHANGED peer,
           frame' >= frame, (Parsing' /\ frame' = frame) => Parsing,
           readErr # "nil" => readErr' = readErr,
           NEW op \in {"pong", "close"}, NEW why \in {"app", "ping"} \cup Errors,
           ~closeSent, closeSent' = (op = "close"),
           replies' = Append(replies, [op |-> op, why |-> why, frame |-> frame']),
           op = "pong" => peer[frame].op = "ping" /\ Parsing /\ ~Parsing' /\ frame' = frame,
           op = "close" => why = "app" \/ readErr' = why
    PROVE  TellInv'
<1> DEFINE n == Len(replies)
           new == [op |-> op, why |-> why, frame |-> frame']
<1>1. frame \in Nat /\ frame' \in Nat /\ (Parsing => frame # 0)
  BY StreamIs DEF BaseInv, ReadTypes, InOrder
<1>2. replies \in Seq(ReplyType) /\ DOMAIN replies = 1..n /\ n \in Nat
  BY LenProperties DEF BaseInv, ReadTypes
<1>3. new \in ReplyType
  BY <1>1 DEF ReplyType
<1>4. /\ replies' \in Seq(ReplyType) /\ Len(replies') = n + 1 /\ DOMAIN replies' = 1 .. n + 1
      /\ \A i \in 1..n : replies'[i] = replies[i]
      /\ replies'[n + 1] = new
  <2> HIDE DEF new
  <2>1. /\ Append(replies, new) \in Seq(ReplyType) /\ Len(Append(replies, new)) = n + 1
        /\ \A i \in 1..n : Append(replies, new)[i] = replies[i]
        /\ Append(replies, new)[n + 1] = new
    BY <1>2, <1>3, AppendProperties
  <2>2. replies' = Append(replies, new)
    BY DEF new
  <2>3. DOMAIN replies' = 1 .. n + 1
    BY <2>1, <2>2, LenProperties
  <2> QED BY <2>1, <2>2, <2>3
<1>5. new.op = op /\ new.why = why /\ new.frame = frame'
  OBVIOUS
<1> HIDE DEF n, new
<1>6. \A i \in 1..n : replies[i].op = "pong"
  <2>1. \A i \in 1..n : replies[i] \in ReplyType
    BY <1>2, ElementOfSeq DEF n
  <2>2. \A i \in 1..n : replies[i].op \in {"pong", "close"}
    BY <2>1 DEF ReplyType
  <2>3. \A i \in 1..n : replies[i].op # "close"
    BY <1>2 DEF TellInv, Answered
  <2> QED BY <2>2, <2>3
<1>7. \A i \in 1..n : replies[i].frame \in 1..frame /\ (Parsing => replies[i].frame < frame)
  BY <1>2, <1>6 DEF TellInv, Answered
<1>8. \A i \in 1 .. n + 1 : i \in 1..n \/ i = n + 1
  BY <1>2
<1>9. Answered'
  <2>1. ASSUME NEW i \in DOMAIN replies', replies'[i].op = "pong"
        PROVE  replies'[i].frame \in 1..frame' /\ (Parsing' => replies'[i].frame < frame')
    <3>1. CASE i \in 1..n
      BY <1>1, <1>4, <1>7, <3>1
    <3>2. CASE i = n + 1
      <4>1. op = "pong" /\ replies'[i].frame = frame'
        BY <1>4, <1>5, <2>1, <3>2
      <4> QED BY <1>1, <4>1
    <3> QED BY <1>4, <1>8, <3>1, <3>2
  <2>2. ASSUME NEW i \in DOMAIN replies', replies'[i].op = "close" PROVE closeSent'
    <3>1. i = n + 1
      BY <1>4, <1>6, <1>8, <2>2
    <3> QED BY <1>4, <1>5, <2>2, <3>1
  <2> QED BY <2>1, <2>2 DEF Answered
<1>10. AnswersPeer'
  <2>1. ASSUME NEW i \in DOMAIN replies', replies'[i].op = "close"
        PROVE  i = Len(replies') /\ (replies'[i].why # "app" => readErr' = replies'[i].why)
    <3>1. i = n + 1
      BY <1>4, <1>6, <1>8, <2>1
    <3>2. op = "close" /\ replies'[i].why = why
      BY <1>4, <1>5, <2>1, <3>1
    <3> QED BY <1>4, <3>1, <3>2
  <2>2. ASSUME NEW i \in DOMAIN replies', NEW j \in DOMAIN replies', i < j, replies'[j].op = "pong"
        PROVE  replies'[i].frame < replies'[j].frame
    <3>1. i \in 1..n /\ replies'[i] = replies[i]
      BY <1>2, <1>4, <2>2
    <3>2. CASE j \in 1..n
      <4>1. replies'[j] = replies[j]
        BY <1>4, <3>2
      <4> QED BY <1>2, <2>2, <3>1, <3>2, <4>1 DEF TellInv, AnswersPeer
    <3>3. CASE j = n + 1
      <4>1. op = "pong" /\ replies'[j].frame = frame'
        BY <1>4, <1>5, <2>2, <3>3
      <4> QED BY <1>1, <1>7, <3>1, <4>1
    <3> QED BY <1>4, <1>8, <3>2, <3>3
  <2>3. ASSUME NEW i \in DOMAIN replies', replies'[i].op = "pong"
        PROVE  peer'[replies'[i].frame].op = "ping"
    <3>1. CASE i \in 1..n
      BY <1>2, <1>4, <1>6, <3>1 DEF TellInv, AnswersPeer
    <3>2. CASE i = n + 1
      <4>1. op = "pong" /\ replies'[i].frame = frame'
        BY <1>4, <1>5, <2>3, <3>2
      <4> QED BY <4>1
    <3> QED BY <1>4, <1>8, <3>1, <3>2
  <2> QED BY <2>1, <2>2, <2>3 DEF AnswersPeer
<1> QED BY <1>9, <1>10 DEF TellInv

LEMMA ReplyTells ==
    ASSUME BaseInv, BaseInv', TellInv, UNCHANGED peer,
           frame' >= frame, (Parsing' /\ frame' = frame) => Parsing,
           readErr # "nil" => readErr' = readErr,
           NEW op \in {"pong", "close"}, NEW why \in {"app", "ping"} \cup Errors,
           Reply(op, why, frame'),
           op = "pong" => peer[frame].op = "ping" /\ Parsing /\ ~Parsing' /\ frame' = frame,
           op = "close" => why = "app" \/ readErr' = why
    PROVE  TellInv'
<1>1. CASE UNCHANGED outVars
  BY <1>1, SilenceTells DEF outVars
<1>2. CASE /\ ~closeSent /\ closeSent' = (op = "close")
           /\ replies' = Append(replies, [op |-> op, why |-> why, frame |-> frame'])
  BY <1>2, AnswerTells
<1> QED BY <1>1, <1>2 DEF Reply

LEMMA TellStays ==
    ASSUME ~EOFWithData, BaseInv, BaseInv', TellInv, [Next]_vars
    PROVE  TellInv'
<1>0. frame \in Nat /\ (Running => readErr = "nil")
  BY StreamIs DEF BaseInv, ReadTypes, Calm, Running
<1>1. CASE UNCHANGED vars
  <2>1. UNCHANGED <<peer, frame, readErr, closeSent, replies, pc>>
    BY <1>1 DEF vars, netVars, connVars, outVars
  <2> QED BY <1>0, <2>1, SilenceTells DEF Parsing
<1>2. CASE Arrive \/ StreamEnds \/ NextReader \/ SkipFrame \/ ReadKey \/ ReadTimeout \/ ReadEOF
           \/ Read \/ ReadBodyFails \/ ReadOn
  <2>1. /\ UNCHANGED <<peer, frame, closeSent, replies>>
        /\ Parsing' => Parsing
    BY <1>2 DEF Arrive, StreamEnds, NextReader, NextReaderFails, SkipFrame, ReadKey, ReadTimeout, ReadEOF,
        Interrupted, Read, ReadBodyFails, ReadOn, Fail, ReadFails, Parsing, netVars, outVars
  <2>2. readErr # "nil" => readErr' = readErr
    <3>1. CASE Running
      BY <1>0, <3>1
    <3>2. CASE Arrive \/ StreamEnds \/ NextReader \/ Read
      BY <3>2 DEF Arrive, StreamEnds, NextReader, NextReaderFails, Read, connVars
    <3>3. CASE SkipFrame \/ ReadKey \/ ReadBodyFails \/ ReadOn
      BY <1>0, <3>3 DEF SkipFrame, ReadKey, ReadBodyFails, ReadOn, Running
    <3>4. CASE ReadTimeout \/ ReadEOF
      <4>1. Running
        BY <3>4, InterruptsRun
      <4> QED BY <1>0, <4>1
    <3> QED BY <1>2, <3>2, <3>3, <3>4
  <2> QED BY <1>0, <2>1, <2>2, SilenceTells
<1>3. CASE AppCloses
  <2>1. UNCHANGED <<peer, frame, readErr, pc>> /\ ~closeSent /\ closeSent' = TRUE
    BY <1>3 DEF AppCloses, netVars, connVars
  <2>2. replies' = Append(replies, [op |-> "close", why |-> "app", frame |-> frame])
    BY <1>3 DEF AppCloses
  <2>3. replies' = Append(replies, [op |-> "close", why |-> "app", frame |-> frame'])
    BY <2>1, <2>2
  <2>4. (Parsing' => Parsing) /\ frame' >= frame
    BY <1>0, <2>1 DEF Parsing
  <2> QED BY <2>1, <2>3, <2>4, AnswerTells
<1>4. CASE ReadHead
  <2>1. frame' > frame /\ frame' \in Nat /\ UNCHANGED peer /\ Running
    BY <1>0, <1>4, HeadPlace DEF ReadHead, Running, netVars
  <2>2. CASE Fail("protocol") /\ Reply("close", "protocol", frame')
    <3>1. "protocol" \in Errors /\ readErr' = "protocol"
      BY <2>2, FailIs DEF Errors
    <3> QED BY <1>0, <2>1, <2>2, <3>1, ReplyTells
  <2>3. CASE UNCHANGED <<readErr, readErrCount, result, outVars>>
    BY <1>0, <2>1, <2>3, SilenceTells DEF outVars
  <2> QED BY <1>4, <2>2, <2>3 DEF ReadHead
<1>5. CASE DataFrame
  <2>1. UNCHANGED <<peer, frame>> /\ Parsing /\ readErr = "nil"
    BY <1>0, <1>5 DEF DataFrame, Parsing, Running, netVars
  <2>2. CASE Fail("limit") /\ Reply("close", "limit", frame)
    <3>1. "limit" \in Errors /\ readErr' = "limit"
      BY <2>2, FailIs DEF Errors
    <3> QED BY <1>0, <2>1, <2>2, <3>1, ReplyTells
  <2>3. CASE UNCHANGED outVars
    BY <1>0, <2>1, <2>3, SilenceTells DEF outVars
  <2> QED BY <1>5, <2>2, <2>3 DEF DataFrame
<1>6. CASE Ping \/ Pong \/ Close \/ HandlerFails
  <2>1. UNCHANGED <<peer, frame>> /\ Parsing /\ readErr = "nil"
    BY <1>0, <1>6 DEF Ping, Pong, Close, HandlerFails, ReadControl, Parsing, Running, netVars
  <2>2. CASE Ping
    <3>1. ~Parsing' /\ peer[frame].op = "ping" /\ Reply("pong", "ping", frame')
      BY <2>1, <2>2 DEF Ping, FrameDone, Parsing
    <3> QED BY <1>0, <2>1, <3>1, ReplyTells
  <2>3. CASE Pong \/ HandlerFails
    BY <1>0, <2>1, <2>3, SilenceTells DEF Pong, HandlerFails, outVars
  <2>4. CASE Close
    <3>1. PICK e \in {"protocol", "closed"} : Reply("close", e, frame') /\ Fail(e)
      BY <2>1, <2>4 DEF Close
    <3>2. e \in Errors /\ readErr' = e
      BY <3>1, FailIs DEF Errors
    <3> QED BY <1>0, <2>1, <3>1, <3>2, ReplyTells
  <2> QED BY <1>6, <2>2, <2>3, <2>4
<1>7. CASE ReadBody \/ ReadEnd
  <2>1. UNCHANGED <<peer, frame>> /\ ~Parsing' /\ readErr = "nil"
    BY <1>0, <1>7 DEF ReadBody, ReadEnd, Parsing, Running, netVars
  <2>2. \/ UNCHANGED outVars
        \/ Reply("close", "utf8", frame') /\ readErr' = "utf8"
    <3>1. CASE ReadEnd
      BY <2>1, <3>1 DEF ReadEnd, Reject
    <3>2. CASE ReadBody
      <4>1. PICK n \in 1..Available, x \in Seq(Bytes), err \in BodyErrors : Took(n, x, err)
        BY <3>2, BodyStep
      <4>2. err = "nil"
        BY <4>1 DEF Took
      <4> QED BY <2>1, <4>1, <4>2 DEF Took, Reject
    <3> QED BY <1>7, <3>1, <3>2
  <2>3. CASE UNCHANGED outVars
    BY <1>0, <2>1, <2>3, SilenceTells DEF outVars
  <2>4. CASE Reply("close", "utf8", frame') /\ readErr' = "utf8"
    BY <1>0, <2>1, <2>4, ReplyTells DEF Errors
  <2> QED BY <2>2, <2>3, <2>4
<1> QED BY <1>1, <1>2, <1>3, <1>4, <1>5, <1>6, <1>7 DEF Next

LEMMA InitTells ==
    ASSUME Init
    PROVE  TellInv
BY DEF Init, TellInv, Answered, AnswersPeer

-----------------------------------------------------------------------------
(* GuardsApplication.                                                      *)
GuardInv == Guarded /\ GuardsApplication

(* What is known of the message that is open.                              *)
LEMMA OpenGuards ==
    ASSUME BaseInv, GuardInv, Open
    PROVE  /\ messageReader \in 1..Len(peer) /\ messageReader \notin complete
           /\ got[messageReader] \in Seq(Bytes) /\ Len(got[messageReader]) \in Nat
           /\ validating <=> peer[messageReader].op = "text"
           /\ validating => utf8State = Utf8Run("accept", got[messageReader])
           /\ Len(got[messageReader]) + (IF Parsing THEN 0 ELSE readRemaining) <= readLength
           /\ ReadLimit > 0 => readLength <= ReadLimit
<1>1. messageReader \in 1..Len(peer)
  BY StreamIs DEF BaseInv, ReadTypes, Open
<1>2. got[messageReader] \in Seq(Bytes)
  BY <1>1 DEF BaseInv, ReadTypes
<1>3. Len(got[messageReader]) \in Nat
  BY <1>2, LenProperties
<1> QED BY <1>1, <1>2, <1>3 DEF GuardInv, Guarded

(* A step that gives the application nothing: either no message is open    *)
(* after it, or the same one, and what is left of its frame was counted.   *)
LEMMA NothingGuards ==
    ASSUME BaseInv, GuardInv, UNCHANGED <<peer, got, complete>>,
           Open' => /\ Open /\ UNCHANGED <<messageReader, validating, utf8State>>
                    /\ Len(got[messageReader]) + (IF Parsing' THEN 0 ELSE readRemaining') <= readLength'
                    /\ ReadLimit > 0 => readLength' <= ReadLimit
    PROVE  GuardInv'
<1>1. GuardsApplication'
  BY DEF GuardInv, GuardsApplication
<1>2. Guarded'
  <2> SUFFICES ASSUME Open'
               PROVE  /\ messageReader' \notin complete'
                      /\ validating' <=> peer'[messageReader'].op = "text"
                      /\ validating' => utf8State' = Utf8Run("accept", got'[messageReader'])
                      /\ Len(got'[messageReader']) + (IF Parsing' THEN 0 ELSE readRemaining') <= readLength'
                      /\ ReadLimit > 0 => readLength' <= ReadLimit
    BY DEF Guarded
  <2>1. UNCHANGED <<messageReader, validating, utf8State>> /\ Open
    OBVIOUS
  <2>2. /\ messageReader \notin complete
        /\ validating <=> peer[messageReader].op = "text"
        /\ validating => utf8State = Utf8Run("accept", got[messageReader])
    BY <2>1, OpenGuards
  <2>3. Len(got'[messageReader']) + (IF Parsing' THEN 0 ELSE readRemaining') <= readLength'
    <3>1. got'[messageReader'] = got[messageReader]
      BY <2>1
    <3> QED BY <3>1
  <2> QED BY <2>1, <2>2, <2>3
<1> QED BY <1>1, <1>2 DEF GuardInv

(* The moves of the parser.                                                *)
LEMMA MovesGuard ==
    ASSUME BaseInv, GuardInv,
           UNCHANGED <<peer, got, complete, messageReader, readErr, validating, utf8State, readLength>>,
           \/ Parsing'
           \/ readRemaining' = 0
           \/ ~Parsing /\ readRemaining' = readRemaining
    PROVE  GuardInv'
<1> SUFFICES ASSUME Open'
             PROVE  /\ Open
                    /\ Len(got[messageReader]) + (IF Parsing' THEN 0 ELSE readRemaining') <= readLength'
                    /\ ReadLimit > 0 => readLength' <= ReadLimit
  BY NothingGuards
<1>1. Open
  BY DEF Open
<1>2. /\ Len(got[messageReader]) \in Nat /\ readRemaining \in Nat /\ readLength \in Nat
      /\ Len(got[messageReader]) + (IF Parsing THEN 0 ELSE readRemaining) <= readLength
      /\ ReadLimit > 0 => readLength <= ReadLimit
  BY <1>1, OpenGuards DEF BaseInv, ReadTypes
<1> DEFINE had == Len(got[messageReader])
<1>3. had \in Nat /\ had + (IF Parsing THEN 0 ELSE readRemaining) <= readLength
  BY <1>2
<1> HIDE DEF had
<1>4. CASE ~Parsing
  <2>1. had + readRemaining <= readLength
    BY <1>3, <1>4
  <2> QED BY <1>1, <1>2, <1>3, <2>1 DEF had
<1>5. CASE Parsing
  <2>1. had <= readLength
    BY <1>3, <1>5
  <2> QED BY <1>1, <1>2, <1>3, <1>5, <2>1 DEF had
<1> QED BY <1>4, <1>5

(* A call that fails leaves no message open.                               *)
LEMMA FailsGuard ==
    ASSUME BaseInv, GuardInv, Running, NEW e \in Errors, Fail(e),
           UNCHANGED <<peer, got, complete, messageReader>>
    PROVE  GuardInv'
<1>1. ~Open'
  BY FailCalms DEF Open
<1> QED BY <1>1, NothingGuards

LEMMA NewMessageGuards ==
    ASSUME BaseInv, GuardInv, DataFrame, readErr' = "nil",
           messageReader' = frame, validating' = (peer[frame].op = "text"),
           utf8State' = (IF validating' THEN "accept" ELSE utf8State), pc' = "idle",
           ~OverLimit(readLength + readRemaining)
    PROVE  GuardInv'
<1>1. /\ UNCHANGED <<peer, got, complete, readRemaining>> /\ readLength' = readLength + readRemaining
      /\ Parsing
      /\ ~Parsing'
  BY DEF DataFrame, netVars, appVars, Parsing
<1>2. /\ frame \in 1..Len(peer) /\ readRemaining \in Nat /\ readLength \in Nat
      /\ got[frame] = <<>> /\ frame \notin complete
  <2>1. frame \in 1..Len(peer) /\ readRemaining \in Nat /\ readLength \in Nat
    BY <1>1, StreamIs DEF BaseInv, ReadTypes, InOrder
  <2>2. ~(frame < frame)
    BY <2>1
  <2> QED BY <1>1, <2>1, <2>2 DEF BaseInv, InOrder
<1>3. /\ messageReader' = frame /\ got'[messageReader'] = <<>>
      /\ peer'[messageReader'].op = peer[frame].op /\ complete' = complete
  BY <1>1, <1>2
<1>4. Len(got'[messageReader']) = 0 /\ Utf8Run("accept", got'[messageReader']) = "accept"
  BY <1>3, Utf8Empty DEF States
<1>5. readLength' >= readRemaining' /\ 0 + readRemaining' = readRemaining'
      /\ (ReadLimit > 0 => readLength' <= ReadLimit)
  BY <1>1, <1>2, LimitAssumption DEF OverLimit
<1>6. Guarded'
  BY <1>1, <1>2, <1>3, <1>4, <1>5 DEF Guarded
<1>7. GuardsApplication'
  BY <1>1 DEF GuardInv, GuardsApplication
<1> QED BY <1>6, <1>7 DEF GuardInv

(* What Read hands on has been counted and checked.                        *)
LEMMA BodyGuards ==
    ASSUME ~EOFWithData, BaseInv, BaseInv', GuardInv, ReadBody
    PROVE  GuardInv'
<1>1. PICK n \in 1..Available, x \in Seq(Bytes), err \in BodyErrors : Took(n, x, err)
  BY BodyStep
<1>2. /\ Len(x) = n /\ n \in Nat /\ n <= readRemaining /\ readRemaining' = readRemaining - n
      /\ utf8State' = (IF validating THEN Utf8Run(utf8State, x) ELSE utf8State)
      /\ \/ Reject("nil", "utf8")
         \/ /\ readErr' = "nil" /\ got' = [got EXCEPT ![messageReader] = @ \o x] /\ complete' = complete
  <2>1. err = "nil"
    BY <1>1 DEF Took
  <2>2. n \in Nat
    BY AvailableIs DEF BaseInv
  <2> QED BY <1>1, <2>1, <2>2 DEF Took
<1>3. /\ pc = "read" /\ pc' = "idle" /\ Running /\ ~Parsing /\ ~Parsing'
      /\ UNCHANGED <<peer, readLength, messageReader, validating>>
  BY DEF ReadBody, Parsing, Running, netVars
<1>4. CASE Reject("nil", "utf8")
  <2>1. ~Open' /\ got' = got /\ complete' = complete
    BY <1>4 DEF Reject, Open
  <2> QED BY <1>3, <2>1, NothingGuards
<1>5. CASE readErr' = "nil" /\ got' = [got EXCEPT ![messageReader] = @ \o x] /\ complete' = complete
  <2>1. Open
    BY <1>3 DEF BaseInv, Calm, Open
  <2> DEFINE m == messageReader
             had == got[m]
  <2>2. /\ m \in 1..Len(peer) /\ m \notin complete /\ had \in Seq(Bytes) /\ Len(had) \in Nat
        /\ validating <=> peer[m].op = "text"
        /\ validating => utf8State = Utf8Run("accept", had)
        /\ Len(had) + readRemaining <= readLength
        /\ ReadLimit > 0 => readLength <= ReadLimit
    BY <1>3, <2>1, OpenGuards
  <2>3. readRemaining \in Nat /\ readLength \in Nat /\ ReadLimit \in Nat
        /\ got \in [1..Len(peer) -> Seq(Bytes)]
    BY LimitAssumption DEF BaseInv, ReadTypes
  <2>4. got'[m] = had \o x /\ \A i \in 1..Len(peer) : i # m => got'[i] = got[i]
    BY <1>5, <2>2, <2>3
  <2>5. Len(had \o x) = Len(had) + n
    <3> HIDE DEF had
    <3> QED BY <1>2, <2>2, ConcatProperties
  <2>6. validating => utf8State' = Utf8Run("accept", had \o x)
    <3> SUFFICES ASSUME validating PROVE utf8State' = Utf8Run("accept", had \o x)
      OBVIOUS
    <3>1. "accept" \in States
      BY DEF States
    <3> HIDE DEF had
    <3>2. Utf8Run("accept", had \o x) = Utf8Run(Utf8Run("accept", had), x)
      BY <2>2, <3>1, Utf8Concat
    <3>3. utf8State' = Utf8Run(utf8State, x) /\ utf8State = Utf8Run("accept", had)
      BY <1>2, <2>2
    <3> QED BY <3>2, <3>3, Zenon
  <2> HIDE DEF had, m
  <2>7. messageReader' = m /\ got'[messageReader'] = had \o x
    BY <1>3, <2>4 DEF m
  <2>8. Guarded'
    <3>1. messageReader' \notin complete'
      BY <1>5, <2>2, <2>7
    <3>2. validating' <=> peer'[messageReader'].op = "text"
      BY <1>3, <2>2, <2>7
    <3>3. validating' => utf8State' = Utf8Run("accept", got'[messageReader'])
      BY <1>3, <2>6, <2>7
    <3>4. Len(got'[messageReader']) + readRemaining' <= readLength'
      BY <1>2, <1>3, <2>2, <2>3, <2>5, <2>7
    <3>5. ReadLimit > 0 => readLength' <= ReadLimit
      BY <1>3, <2>2
    <3> QED BY <1>3, <3>1, <3>2, <3>3, <3>4, <3>5 DEF Guarded
  <2>9. GuardsApplication'
    <3>1. DOMAIN peer' = 1..Len(peer)
      BY <1>3, StreamIs DEF BaseInv
    <3>2. ASSUME NEW i \in 1..Len(peer), ReadLimit > 0 PROVE Len(got'[i]) <= ReadLimit
      <4>1. CASE i = m
        BY <1>2, <2>2, <2>3, <2>4, <2>5, <3>2, <4>1
      <4>2. CASE i # m
        BY <2>4, <3>1, <3>2, <4>2, StreamIs DEF GuardInv, GuardsApplication, BaseInv
      <4> QED BY <4>1, <4>2
    <3>3. ASSUME NEW i \in complete', peer'[i].op = "text" PROVE Utf8Run("accept", got'[i]) = "accept"
      <4>1. i \in complete /\ i # m /\ i \in 1..Len(peer)
        BY <1>5, <2>2, <3>3 DEF BaseInv, ReadTypes
      <4>2. got'[i] = got[i]
        BY <2>4, <4>1
      <4> QED BY <1>3, <3>3, <4>1, <4>2 DEF GuardInv, GuardsApplication
    <3> QED BY <3>1, <3>2, <3>3 DEF GuardsApplication
  <2> QED BY <2>8, <2>9 DEF GuardInv
<1> QED BY <1>2, <1>4, <1>5

(* A message is complete only if its last byte has been accepted.          *)
LEMMA EndGuards ==
    ASSUME BaseInv, GuardInv, ReadEnd
    PROVE  GuardInv'
<1>1. /\ pc = "read" /\ messageReader' = 0 /\ UNCHANGED peer /\ ~Open' /\ Open
  BY DEF ReadEnd, Open, BaseInv, Calm, Running, netVars
<1>2. CASE Reject("nil", "utf8")
  <2>1. got' = got /\ complete' = complete
    BY <1>2 DEF Reject
  <2> QED BY <1>1, <2>1, NothingGuards
<1>3. CASE ~Failed /\ complete' = complete \cup {messageReader} /\ UNCHANGED <<readErr, got, outVars>>
  <2>1. Guarded'
    BY <1>1 DEF Guarded
  <2>2. peer[messageReader].op = "text" => Utf8Run("accept", got[messageReader]) = "accept"
    BY <1>1, <1>3, OpenGuards DEF Failed
  <2>3. GuardsApplication'
    BY <1>1, <1>3, <2>2 DEF GuardInv, GuardsApplication
  <2> QED BY <2>1, <2>3 DEF GuardInv
<1> QED BY <1>2, <1>3 DEF ReadEnd

LEMMA GuardStays ==
    ASSUME ~EOFWithData, BaseInv, BaseInv', GuardInv, [Next]_vars
    PROVE  GuardInv'
<1>1. CASE UNCHANGED vars
  <2>1. UNCHANGED <<peer, got, complete, messageReader, readErr, validating, utf8State, readLength,
                    readRemaining, pc>>
    BY <1>1 DEF vars, netVars, connVars, appVars
  <2> QED BY <2>1, MovesGuard DEF Parsing
<1>2. CASE Arrive \/ StreamEnds \/ AppCloses
  <2>1. UNCHANGED <<peer, got, complete, messageReader, readErr, validating, utf8State, readLength,
                    readRemaining, pc>>
    BY <1>2 DEF Arrive, StreamEnds, AppCloses, netVars, connVars, appVars
  <2> QED BY <2>1, MovesGuard DEF Parsing
<1>3. CASE NextReader
  <2>1. ~Open' /\ UNCHANGED <<peer, got, complete>>
    BY <1>3 DEF NextReader, Open, netVars, appVars
  <2> QED BY <2>1, NothingGuards
<1>4. CASE SkipFrame \/ Read \/ ReadOn
  <2>1. UNCHANGED <<peer, got, complete, messageReader, readErr, validating, utf8State, readLength,
                    readRemaining>> /\ ~Parsing
    BY <1>4 DEF SkipFrame, Read, ReadOn, Parsing, netVars, connVars, appVars
  <2> QED BY <2>1, MovesGuard
<1>5. CASE ReadHead
  <2>1. UNCHANGED <<peer, got, complete, messageReader, validating, utf8State, readLength>> /\ Running
    BY <1>5 DEF ReadHead, Running, netVars, appVars
  <2>2. CASE Fail("protocol")
    BY <2>1, <2>2, FailsGuard DEF Errors
  <2>3. CASE pc' = "key" /\ UNCHANGED readErr
    BY <2>1, <2>3, MovesGuard DEF Parsing
  <2> QED BY <1>5, <2>2, <2>3 DEF ReadHead
<1>6. CASE ReadKey
  <2>1. UNCHANGED <<peer, got, complete, messageReader, validating, utf8State, readLength>> /\ Running
    BY <1>6 DEF ReadKey, Running, netVars, appVars
  <2>2. CASE Fail("limit")
    BY <2>1, <2>2, FailsGuard DEF Errors
  <2>3. CASE pc' = "payload" /\ UNCHANGED readErr
    BY <2>1, <2>3, MovesGuard DEF Parsing
  <2> QED BY <1>6, <2>2, <2>3 DEF ReadKey
<1>7. CASE DataFrame
  <2>1. UNCHANGED <<peer, got, complete>> /\ readLength' = readLength + readRemaining /\ Running
        /\ Parsing
        /\ UNCHANGED readRemaining
    BY <1>7 DEF DataFrame, Running, Parsing, netVars, appVars
  <2>2. CASE \E e \in {"limit", "internal"} : Fail(e) /\ UNCHANGED messageReader
    BY <2>1, <2>2, FailsGuard DEF Errors
  <2>3. CASE /\ ~OverLimit(readLength + readRemaining)
             /\ UNCHANGED <<readErr, messageReader, validating, utf8State>>
    <3> SUFFICES ASSUME Open'
                 PROVE  /\ Open
                        /\ Len(got[messageReader]) + (IF Parsing' THEN 0 ELSE readRemaining') <= readLength'
                        /\ ReadLimit > 0 => readLength' <= ReadLimit
      BY <2>1, <2>3, NothingGuards
    <3>1. Open
      BY <2>3 DEF Open
    <3>2. /\ Len(got[messageReader]) \in Nat /\ readRemaining \in Nat /\ readLength \in Nat
          /\ Len(got[messageReader]) <= readLength /\ ReadLimit \in Nat
      BY <2>1, <3>1, OpenGuards, LimitAssumption DEF BaseInv, ReadTypes
    <3>3. ReadLimit > 0 => readLength' <= ReadLimit
      BY <2>1, <2>3, <3>2 DEF OverLimit
    <3> DEFINE had == Len(got[messageReader])
    <3>4. had + 0 <= readLength' /\ had + readRemaining' <= readLength'
      <4>1. had \in Nat /\ had <= readLength
        BY <3>2
      <4> HIDE DEF had
      <4> QED BY <2>1, <3>2, <4>1
    <3> QED BY <3>1, <3>3, <3>4
  <2>4. CASE /\ ~OverLimit(readLength + readRemaining) /\ messageReader' = frame
             /\ validating' = (peer[frame].op = "text")
             /\ utf8State' = (IF validating' THEN "accept" ELSE utf8State)
             /\ pc' = "idle" /\ UNCHANGED readErr
    <3>1. readErr' = "nil"
      BY <2>1, <2>4 DEF BaseInv, Calm
    <3> QED BY <1>7, <2>4, <3>1, NewMessageGuards
  <2> QED BY <1>7, <2>2, <2>3, <2>4 DEF DataFrame
<1>8. CASE Ping \/ Pong \/ Close \/ HandlerFails
  <2>1. UNCHANGED <<peer, got, complete, messageReader, validating, utf8State, readLength>> /\ Running
        /\ readRemaining' = 0
    BY <1>8 DEF Ping, Pong, Close, HandlerFails, ReadControl, Running, netVars, appVars
  <2>2. CASE Ping \/ Pong
    <3>1. UNCHANGED readErr
      BY <2>2 DEF Ping, Pong
    <3> QED BY <2>1, <3>1, MovesGuard
  <2>3. CASE Close \/ HandlerFails
    <3>1. PICK e \in {"protocol", "closed", "handler"} : Fail(e)
      BY <2>3 DEF Close, HandlerFails
    <3> QED BY <2>1, <3>1, FailsGuard DEF Errors
  <2> QED BY <1>8, <2>2, <2>3
<1>9. CASE ReadTimeout \/ ReadEOF \/ ReadBodyFails
  <2>1. UNCHANGED <<peer, got, complete, messageReader>>
    BY <1>9 DEF ReadTimeout, ReadEOF, ReadBodyFails, Interrupted, netVars, appVars
  <2>2. \E e \in {"timeout", "eof", "unexpectedEOF"} : Fail(e)
    BY <1>9 DEF ReadTimeout, ReadEOF, ReadBodyFails, Interrupted
  <2>3. Running
    BY <1>9, InterruptsRun DEF ReadBodyFails, Running
  <2> QED BY <2>1, <2>2, <2>3, FailsGuard DEF Errors
<1> QED BY <1>1, <1>2, <1>3, <1>4, <1>5, <1>6, <1>7, <1>8, <1>9, BodyGuards, EndGuards DEF Next

LEMMA InitGuards ==
    ASSUME Init
    PROVE  GuardInv
<1>1. DOMAIN peer = 1..Len(peer)
  BY ScriptsAssumption, LenProperties DEF Init
<1>2. /\ messageReader = 0 /\ complete = {} /\ \A i \in DOMAIN peer : got[i] = <<>>
  BY DEF Init
<1> QED BY <1>2, LimitAssumption DEF GuardInv, Guarded, GuardsApplication, Open

-----------------------------------------------------------------------------
(* FramesInStep.                                                           *)
(* Different frames start at different places.                             *)
LEMMA OffTells ==
    ASSUME NEW s \in Seq(Frame), NEW i \in 0..Len(s), NEW j \in 0..Len(s), Off(s, i) = Off(s, j)
    PROVE  i = j
<1>1. Len(s) \in Nat /\ Off(s, i) \in Nat /\ Off(s, j) \in Nat
  BY LenProperties, UnitsGrow
<1>2. ~(i < j) /\ ~(j < i)
  BY <1>1, OffGrows
<1> QED BY <1>1, <1>2

LEMMA OffNext ==
    ASSUME ReadTypes, frame # 0
    PROVE  /\ Off(peer, frame) = Off(peer, frame - 1) + 3 + Len(peer[frame].body)
           /\ Off(peer, frame - 1) \in Nat /\ Len(peer[frame].body) \in Nat
<1>1. peer \in Seq(Frame) /\ frame \in 1..Len(peer) /\ frame - 1 \in 0..Len(peer)
      /\ frame - 1 \in 0 .. Len(peer) - 1
      /\ (frame - 1) + 1 = frame
  BY StreamIs DEF ReadTypes
<1>2. Len(peer[frame].body) \in Nat
  BY <1>1, FrameFields
<1>3. Off(peer, (frame - 1) + 1) = Off(peer, frame - 1) + Size(peer[(frame - 1) + 1])
      /\ Off(peer, frame - 1) \in Nat
  BY <1>1, UnitsGrow
<1>4. Off(peer, frame) = Off(peer, frame - 1) + Size(peer[frame])
  BY <1>1, <1>3
<1> QED BY <1>2, <1>3, <1>4 DEF Size

(* While a call runs, and before one that may still be made, it is there.  *)
LEMMA PlacedWhen ==
    ASSUME BaseInv, InStep,
           Running \/ (pc = "idle" /\ readErr = "nil" /\ result # "timeout")
                   \/ (pc = "idle" /\ readErr = "nil" /\ messageReader # 0)
    PROVE  Placed
<1>1. readErr = "nil" /\ ~Lost
  BY DEF BaseInv, InStep, Calm, Lost, Running
<1> QED BY <1>1 DEF InStep

LEMMA FailsStep ==
    ASSUME BaseInv, Running, NEW e \in Errors, Fail(e), UNCHANGED messageReader
    PROVE  InStep'
<1>1. /\ pc' \in {"idle", "panicked"} /\ (pc' = "panicked" => readErr' # "nil")
      /\ readErr' = "nil" => result' = "timeout" /\ messageReader = 0
  BY FailCalms
<1>2. readErr' = "nil" => Lost' /\ messageReader' = 0
  BY <1>1 DEF Lost
<1>3. Lost' => messageReader' = 0
  BY <1>2 DEF Lost
<1> QED BY <1>2, <1>3 DEF InStep

LEMMA PlacedSteps ==
    ASSUME Placed', result' # "timeout" \/ pc' # "idle"
    PROVE  InStep'
BY DEF InStep, Placed, Lost

LEMMA HeadSteps ==
    ASSUME BaseInv, InStep, ReadHead
    PROVE  InStep'
<1> DEFINE j == unit(1).frame
<1>1. /\ j \in 1..Len(peer) /\ pos = Off(peer, j - 1) /\ pos' = pos + 2
      /\ frame' = j /\ readRemaining' = Len(peer[j].body)
  BY HeadPlace
<1>2. pc = "head" /\ Running /\ UNCHANGED <<peer, messageReader>>
  BY DEF ReadHead, Running, netVars
<1> HIDE DEF j
<1>3. CASE Fail("protocol")
  BY <1>2, <1>3, FailsStep DEF Errors
<1>4. CASE pc' = "key"
  <2>1. Off(peer', frame' - 1) = pos
    BY <1>1, <1>2
  <2>2. peer'[frame'].body = peer[j].body
    BY <1>1, <1>2
  <2>3. Placed'
    BY <1>1, <1>4, <2>1, <2>2 DEF Placed, Parsing
  <2> QED BY <1>4, <2>3, PlacedSteps
<1> QED BY <1>3, <1>4 DEF ReadHead

LEMMA DataSteps ==
    ASSUME BaseInv, InStep, DataFrame
    PROVE  InStep'
<1>1. pc = "payload" /\ Running /\ Parsing /\ UNCHANGED <<peer, frame, pos, readRemaining>>
  BY DEF DataFrame, Running, Parsing, netVars
<1>2. pos = Off(peer, frame - 1) + 3 /\ readRemaining = Len(peer[frame].body) /\ frame # 0
  BY <1>1, PlacedWhen DEF Placed, BaseInv, InOrder
<1>3. pos + readRemaining = Off(peer, frame) /\ pos \in Nat /\ readRemaining \in Nat
  BY <1>2, OffNext DEF BaseInv, ReadTypes
<1>4. CASE \E e \in {"limit", "internal"} : Fail(e) /\ UNCHANGED messageReader
  BY <1>1, <1>4, FailsStep DEF Errors
<1>5. Off(peer', frame') = Off(peer, frame) /\ pos' + readRemaining' = pos + readRemaining
  BY <1>1
<1>6. CASE FrameDone(readRemaining)
  <2>1. pc' \in {"read", "skip", "head"} /\ (pc' = "head" => ~(readRemaining > 0))
    BY <1>6 DEF FrameDone, BaseInv, ReadTypes
  <2>2. pc' = "head" => pos = Off(peer, frame)
    BY <1>3, <2>1
  <2>3. Placed'
    BY <1>1, <1>3, <1>5, <2>1, <2>2 DEF Placed, Parsing
  <2> QED BY <2>1, <2>3, PlacedSteps
<1>7. CASE pc' = "idle" /\ result' = "reader"
  <2>1. Placed'
    BY <1>3, <1>5, <1>7 DEF Placed, Parsing
  <2> QED BY <1>7, <2>1, PlacedSteps
<1> QED BY <1>4, <1>6, <1>7 DEF DataFrame

LEMMA ControlSteps ==
    ASSUME BaseInv, InStep, Ping \/ Pong \/ Close \/ HandlerFails
    PROVE  InStep'
<1>1. /\ pc = "payload" /\ Running /\ Parsing /\ UNCHANGED <<peer, frame, messageReader>>
      /\ pos' = pos + readRemaining /\ readRemaining' = 0
  BY DEF Ping, Pong, Close, HandlerFails, ReadControl, Running, Parsing, netVars
<1>2. pos = Off(peer, frame - 1) + 3 /\ readRemaining = Len(peer[frame].body) /\ frame # 0
  BY <1>1, PlacedWhen DEF Placed, BaseInv, InOrder
<1>3. pos + readRemaining = Off(peer, frame) /\ pos \in Nat /\ readRemaining \in Nat
  BY <1>2, OffNext DEF BaseInv, ReadTypes
<1>4. CASE Close \/ HandlerFails
  <2>1. PICK e \in {"protocol", "closed", "handler"} : Fail(e)
    BY <1>4 DEF Close, HandlerFails
  <2> QED BY <1>1, <2>1, FailsStep DEF Errors
<1>5. CASE Ping \/ Pong
  <2>1. pc' \in {"read", "head"}
    BY <1>5 DEF Ping, Pong, FrameDone, BaseInv, ReadTypes
  <2>2. pos' = Off(peer', frame') /\ pos' + readRemaining' = Off(peer', frame')
    <3>1. pos' = Off(peer, frame) /\ pos' + readRemaining' = Off(peer, frame)
      BY <1>1, <1>3
    <3> QED BY <1>1, <3>1
  <2>3. Placed'
    BY <2>1, <2>2 DEF Placed, Parsing
  <2> QED BY <2>1, <2>3, PlacedSteps
<1> QED BY <1>4, <1>5

LEMMA BodySteps ==
    ASSUME BaseInv, InStep, ReadBody
    PROVE  InStep'
<1>1. PICK n \in 1..Available, x \in Seq(Bytes), err \in BodyErrors : Took(n, x, err)
  BY BodyStep
<1>2. pc = "read" /\ pc' = "idle" /\ Running /\ UNCHANGED <<peer, frame, messageReader>>
  BY DEF ReadBody, Running, netVars
<1>3. pos + readRemaining = Off(peer, frame) /\ pos \in Nat /\ readRemaining \in Nat /\ n \in Nat
  BY <1>2, PlacedWhen, AvailableIs DEF Placed, BaseInv, ReadTypes
<1>4. pos' = pos + n /\ readRemaining' = readRemaining - n
  BY <1>1 DEF Took
<1>5. pos' + readRemaining' = Off(peer', frame')
  <2>1. pos' + readRemaining' = Off(peer, frame)
    BY <1>3, <1>4
  <2> QED BY <1>2, <2>1
<1>6. Placed'
  BY <1>2, <1>5 DEF Placed, Parsing
<1>7. readErr' = "nil" => result' = "data"
  BY <1>1 DEF Took, Reject
<1> QED BY <1>6, <1>7 DEF InStep, Placed, Lost

(* The parser loses its place only where a call ends with a timeout, after *)
(* which there is no other one.                                            *)
LEMMA StepStays ==
    ASSUME ~RetryTimeout, BaseInv, InStep, [Next]_vars
    PROVE  InStep'
<1>1. CASE UNCHANGED vars \/ Arrive \/ StreamEnds \/ AppCloses
  <2>1. UNCHANGED <<peer, pos, frame, readErr, readRemaining, messageReader, pc, result>>
    BY <1>1 DEF vars, Arrive, StreamEnds, AppCloses, netVars, connVars
  <2> QED BY <2>1 DEF InStep, Placed, Lost, Parsing
<1>2. CASE NextReader
  <2>1. pc = "idle" /\ result # "timeout" /\ UNCHANGED <<peer, frame, pos, readRemaining>>
        /\ messageReader' = 0
    BY <1>2 DEF NextReader, netVars
  <2>2. CASE readErr # "nil"
    <3>1. readErr' = readErr
      BY <1>2, <2>2 DEF NextReader, NextReaderFails
    <3> QED BY <2>1, <2>2, <3>1 DEF InStep
  <2>3. CASE readErr = "nil"
    <3>1. pc' = IF readRemaining > 0 THEN "skip" ELSE "head"
      BY <1>2, <2>3 DEF NextReader
    <3>2. pos + readRemaining = Off(peer, frame) /\ pos \in Nat /\ readRemaining \in Nat
      BY <2>1, <2>3, PlacedWhen DEF Placed, BaseInv, ReadTypes
    <3>3. pos + readRemaining = Off(peer, frame) /\ (pc' = "head" => pos = Off(peer, frame))
      BY <3>1, <3>2
    <3>4. Off(peer', frame') = Off(peer, frame) /\ pos' + readRemaining' = pos + readRemaining
          /\ pos' = pos
      BY <2>1
    <3>5. Placed'
      BY <3>1, <3>3, <3>4 DEF Placed, Parsing
    <3> QED BY <3>1, <3>5, PlacedSteps
  <2> QED BY <2>2, <2>3
<1>3. CASE SkipFrame
  <2>1. pc = "skip" /\ Running /\ pc' = "head" /\ pos' = pos + readRemaining /\ UNCHANGED <<peer, frame>>
    BY <1>3 DEF SkipFrame, Running, netVars
  <2>2. pos' = Off(peer, frame)
    BY <2>1, PlacedWhen DEF Placed
  <2>3. Placed'
    BY <2>1, <2>2 DEF Placed, Parsing
  <2> QED BY <2>1, <2>3, PlacedSteps
<1>4. CASE ReadKey
  <2>1. pc = "key" /\ Running /\ Parsing /\ pos' = pos + 1
        /\ UNCHANGED <<peer, frame, readRemaining, messageReader>>
    BY <1>4 DEF ReadKey, Running, Parsing, netVars
  <2>2. CASE Fail("limit")
    BY <2>1, <2>2, FailsStep DEF Errors
  <2>3. CASE pc' = "payload"
    <3>1. pos = Off(peer, frame - 1) + 2 /\ readRemaining = Len(peer[frame].body) /\ frame # 0
      BY <2>1, PlacedWhen DEF Placed, BaseInv, InOrder
    <3>2. pos' = Off(peer, frame - 1) + 3
      BY <2>1, <3>1, OffNext DEF BaseInv
    <3>3. Off(peer', frame' - 1) = Off(peer, frame - 1) /\ peer'[frame'].body = peer[frame].body
      BY <2>1
    <3>4. Placed'
      BY <2>1, <2>3, <3>1, <3>2, <3>3 DEF Placed, Parsing
    <3> QED BY <2>3, <3>4, PlacedSteps
  <2> QED BY <1>4, <2>2, <2>3 DEF ReadKey
<1>5. CASE ReadTimeout \/ ReadEOF \/ ReadBodyFails
  <2>1. UNCHANGED messageReader
    BY <1>5 DEF ReadTimeout, ReadEOF, ReadBodyFails, Interrupted
  <2>2. \E e \in {"timeout", "eof", "unexpectedEOF"} : Fail(e)
    BY <1>5 DEF ReadTimeout, ReadEOF, ReadBodyFails, Interrupted
  <2>3. Running
    BY <1>5, InterruptsRun DEF ReadBodyFails, Running
  <2> QED BY <2>1, <2>2, <2>3, FailsStep DEF Errors
<1>6. CASE Read
  <2>1. pc = "idle" /\ messageReader # 0
        /\ UNCHANGED <<peer, frame, pos, readRemaining, readErr, messageReader>>
        /\ (readErr = "nil" => pc' = "read")
    BY <1>6 DEF Read, netVars, connVars
  <2>2. CASE readErr # "nil"
    BY <2>1, <2>2 DEF InStep, Lost
  <2>3. CASE readErr = "nil"
    <3>1. pos + readRemaining = Off(peer, frame)
      BY <2>1, <2>3, PlacedWhen DEF Placed
    <3>2. Placed'
      BY <2>1, <2>3, <3>1 DEF Placed, Parsing
    <3> QED BY <2>1, <2>3, <3>2, PlacedSteps
  <2> QED BY <2>2, <2>3
<1>7. CASE ReadEnd
  <2>1. pc = "read" /\ Running /\ pc' = "idle" /\ UNCHANGED <<peer, frame, pos, readRemaining>>
        /\ messageReader' = 0
    BY <1>7 DEF ReadEnd, Running, netVars
  <2>2. CASE Reject("nil", "utf8")
    BY <2>1, <2>2 DEF Reject, InStep
  <2>3. CASE result' = "eof"
    <3>1. pos + readRemaining = Off(peer, frame)
      BY <2>1, PlacedWhen DEF Placed
    <3>2. Placed'
      BY <2>1, <3>1 DEF Placed, Parsing
    <3> QED BY <2>3, <3>2, PlacedSteps
  <2> QED BY <1>7, <2>2, <2>3 DEF ReadEnd
<1>8. CASE ReadOn
  <2>1. pc = "read" /\ Running /\ pc' = "head" /\ readRemaining = 0 /\ UNCHANGED <<peer, frame, pos>>
    BY <1>8 DEF ReadOn, Running, netVars
  <2>2. pos = Off(peer, frame)
    <3>1. pos + readRemaining = Off(peer, frame) /\ pos \in Nat
      BY <2>1, PlacedWhen DEF Placed, BaseInv, ReadTypes
    <3> QED BY <2>1, <3>1
  <2>3. Placed'
    BY <2>1, <2>2 DEF Placed, Parsing
  <2> QED BY <2>1, <2>3, PlacedSteps
<1> QED BY <1>1, <1>2, <1>3, <1>4, <1>5, <1>6, <1>7, <1>8, HeadSteps, DataSteps, ControlSteps, BodySteps
        DEF Next

LEMMA StepHolds ==
    ASSUME BaseInv, InStep
    PROVE  FramesInStep
<1> SUFFICES ASSUME pc = "head", pos < Len(stream) PROVE unit(1).part = "h1"
  BY DEF FramesInStep
<1>1. pos = Off(peer, frame)
  BY PlacedWhen DEF Placed, Running
<1>2. /\ peer \in Seq(Frame) /\ Len(peer) \in Nat /\ frame \in 0..Len(peer)
      /\ stream = Units(peer, Len(peer)) /\ Len(stream) = Off(peer, Len(peer))
  BY StreamIs DEF BaseInv, ReadTypes
<1>3. frame # Len(peer)
  <2> SUFFICES ASSUME frame = Len(peer) PROVE FALSE
    OBVIOUS
  <2>1. pos = Len(stream) /\ pos \in Nat
    BY <1>1, <1>2 DEF BaseInv, ReadTypes
  <2> QED BY <2>1
<1> DEFINE i == frame + 1
<1>4. i \in 1..Len(peer) /\ i - 1 = frame /\ Len(peer) \in i..Len(peer) /\ i \in Nat
  BY <1>2, <1>3
<1> HIDE DEF i
<1>5. peer[i] \in Frame
  BY <1>2, <1>4, FrameFields
<1>6. 1 \in 1..Size(peer[i])
  BY <1>2, <1>4, FrameFields DEF Size
<1>7. Units(peer, Len(peer))[Off(peer, i - 1) + 1] = FrameUnits(peer[i], i)[1]
  BY <1>2, <1>4, <1>6, UnitsStay
<1>8. FrameUnits(peer[i], i)[1].part = "h1"
  <2> DEFINE f == peer[i]
  <2>1. f \in Frame /\ 1 \in 1..Size(f) /\ i \in Nat
    BY <1>4, <1>5, <1>6
  <2> HIDE DEF f
  <2>2. \A k \in 1..Size(f) : FrameUnits(f, i)[k].part = "h1" <=> k = 1
    BY <2>1, UnitsOfFrame
  <2> QED BY <2>1, <2>2 DEF f
<1> QED BY <1>1, <1>2, <1>4, <1>7, <1>8 DEF unit

LEMMA InitSteps ==
    ASSUME Init
    PROVE  InStep
<1>1. peer \in Seq(Frame) /\ Off(peer, 0) = 0
  BY ScriptsAssumption, UnitsGrow, EmptySeq DEF Init, Off
<1>2. pc = "idle" /\ pos + readRemaining = Off(peer, frame) /\ result = "none"
  BY <1>1 DEF Init
<1> QED BY <1>2 DEF InStep, Placed, Lost, Parsing

-----------------------------------------------------------------------------
(* DeliversMessages.                                                       *)
LEMMA ConcatIsPrefix ==
    ASSUME NEW S, NEW s \in Seq(S), NEW t \in Seq(S)
    PROVE  IsPrefix(s, s \o t)
<1>1. /\ s \o t \in Seq(S) /\ Len(s \o t) = Len(s) + Len(t) /\ Len(s) \in Nat /\ Len(t) \in Nat
      /\ \A k \in 1 .. Len(s) + Len(t) : (s \o t)[k] = IF k <= Len(s) THEN s[k] ELSE t[k - Len(s)]
  BY ConcatProperties, LenProperties
<1>2. CASE Len(s) = 0
  <2>1. SubSeq(s, 1, Len(s)) = <<>> /\ SubSeq(s \o t, 1, Len(s)) = <<>>
    BY <1>2, SubSeqEmpty
  <2> QED BY <1>1, <1>2, <2>1 DEF IsPrefix
<1>3. CASE Len(s) # 0
  <2>1. 1 \in 1..Len(s) /\ Len(s) \in 1..Len(s)
    BY <1>1, <1>3
  <2>2. SubSeq(s \o t, 1, Len(s)) = SubSeq(s, 1, Len(s))
    BY <2>1, SubSeqOfConcat1
  <2>3. Len(s) <= Len(s \o t)
    BY <1>1
  <2> QED BY <2>2, <2>3 DEF IsPrefix
<1> QED BY <1>2, <1>3

(* The message that starts with frame m, frame by frame.                   *)
PartStep(m, n) ==
    [p \in Seq(Bytes) \X (1..n) |-> IF p[2] \in Conts(m) THEN p[1] \o peer[p[2]].body ELSE p[1]]

LEMMA PartRuns ==
    ASSUME ReadTypes, NEW m, NEW n \in 0..Len(peer)
    PROVE  \E run : Runs(run, n, Seq(Bytes), <<>>, PartStep(m, n)) /\ run[n] = Part(m, n)
<1> DEFINE B  == Seq(Bytes)
           d  == PartStep(m, n)
           T(v, k) == IF k \in Conts(m) THEN v \o peer[k].body ELSE v
           q  == [j \in 1..n |-> j]
           Eq(h) == h = [S \in SUBSET (1..n) |-> IF S = {} THEN <<>> ELSE T(h[S \ {Max(S)}], q[Max(S)])]
           it == CHOOSE h : Eq(h)
<1>0. n \in Nat /\ peer \in Seq(Frame) /\ \A k \in 1..n : k \in 1..Len(peer)
  BY StreamIs
<1>1. Part(m, n) = it[1..n]
  <2>1. DOMAIN q = 1..n
    OBVIOUS
  <2> QED BY <2>1 DEF Part, FoldLeft, MapThenFoldSet
<1>2. \A v \in B, k \in 1..n : T(v, k) \in B
  <2> SUFFICES ASSUME NEW v \in B, NEW k \in 1..n PROVE T(v, k) \in B
    OBVIOUS
  <2>1. peer[k].body \in B
    BY <1>0, FrameFields
  <2>2. v \o peer[k].body \in B
    BY <2>1, ConcatProperties
  <2> QED BY <2>2
<1>3. /\ d \in [B \X (1..n) -> B]
      /\ \A v \in B, k \in 1..n : d[<<v, k>>] = T(v, k)
  <2>1. d = [p \in B \X (1..n) |-> T(p[1], p[2])]
    BY DEF PartStep
  <2> HIDE DEF T, d, B
  <2> QED BY <1>2, <2>1
<1>4. \A k \in 1..n : q[k] = k
  OBVIOUS
<1>5. <<>> \in B
  BY EmptySeq
<1> HIDE DEF d, T, q, B
<1>6. PICK h \in [SUBSET (1..n) -> B] : Table(h, n, <<>>, d)
  BY <1>0, <1>3, <1>5, TableExists
<1>7. Eq(h)
  <2> SUFFICES ASSUME NEW S \in SUBSET (1..n)
               PROVE  h[S] = IF S = {} THEN <<>> ELSE T(h[S \ {Max(S)}], q[Max(S)])
    OBVIOUS
  <2>1. CASE S = {}
    BY <1>6, <2>1 DEF Table
  <2>2. CASE S # {}
    <3>1. Max(S) \in 1..n
      BY <1>0, <2>2, MaxOfSome
    <3>2. h[S \ {Max(S)}] \in B
      BY <1>6
    <3>3. h[S] = d[<<h[S \ {Max(S)}], Max(S)>>]
      BY <1>6, <2>2 DEF Table
    <3>4. d[<<h[S \ {Max(S)}], Max(S)>>] = T(h[S \ {Max(S)}], Max(S))
      BY <1>3, <3>1, <3>2, Zenon
    <3>5. q[Max(S)] = Max(S)
      BY <1>4, <3>1
    <3> QED BY <2>2, <3>3, <3>4, <3>5, Zenon
  <2> QED BY <2>1, <2>2
<1>8. Eq(it)
  <2> HIDE DEF Eq
  <2> QED BY <1>7, Zenon
<1>9. it[{}] = <<>>
  <2>1. {} \in SUBSET (1..n)
    OBVIOUS
  <2> HIDE DEF it
  <2> QED BY <1>8, <2>1
<1>10. ASSUME NEW S \in SUBSET (1..n), S # {}, it[S \ {Max(S)}] \in B
       PROVE  it[S] = d[<<it[S \ {Max(S)}], Max(S)>>]
  <2> HIDE DEF it
  <2>1. Max(S) \in 1..n
    BY <1>0, <1>10, MaxOfSome
  <2>2. it[S] = T(it[S \ {Max(S)}], q[Max(S)])
    BY <1>8, <1>10
  <2> QED BY <1>3, <1>4, <1>10, <2>1, <2>2
<1> HIDE DEF it
<1>11. \E run : Runs(run, n, B, <<>>, d) /\ run[n] = it[1..n]
  <2>1. Iterates(it, n, B, <<>>, d)
    BY <1>0, <1>3, <1>5, <1>9, <1>10 DEF Iterates
  <2> QED BY <1>0, <2>1, TableRuns
<1> QED BY <1>1, <1>11 DEF d, B

LEMMA PartGrows ==
    ASSUME ReadTypes, NEW m
    PROVE  /\ Part(m, 0) = <<>>
           /\ \A i \in 0..Len(peer) : Part(m, i) \in Seq(Bytes)
           /\ \A i \in 0..Len(peer) - 1 :
                 Part(m, i + 1)
                   = IF i + 1 \in Conts(m) THEN Part(m, i) \o peer[i + 1].body ELSE Part(m, i)
<1>0. Len(peer) \in Nat
  BY StreamIs
<1>1. Part(m, 0) = <<>>
  <2>1. 0 \in 0..Len(peer)
    BY <1>0
  <2>2. PICK run : Runs(run, 0, Seq(Bytes), <<>>, PartStep(m, 0)) /\ run[0] = Part(m, 0)
    BY <2>1, PartRuns
  <2> QED BY <2>2 DEF Runs
<1>2. ASSUME NEW i \in 0..Len(peer) PROVE Part(m, i) \in Seq(Bytes)
  <2>1. PICK run : Runs(run, i, Seq(Bytes), <<>>, PartStep(m, i)) /\ run[i] = Part(m, i)
    BY PartRuns
  <2>2. i \in 0..i
    BY <1>0
  <2> QED BY <2>1, <2>2 DEF Runs
<1>3. ASSUME NEW i \in 0..Len(peer) - 1
      PROVE  Part(m, i + 1) = IF i + 1 \in Conts(m) THEN Part(m, i) \o peer[i + 1].body ELSE Part(m, i)
  <2> DEFINE n == i + 1
             d == PartStep(m, i)
             e == PartStep(m, n)
             B == Seq(Bytes)
  <2>1. i \in Nat /\ i \in 0..Len(peer) /\ n \in 0..Len(peer) /\ n = i + 1 /\ n \in 1..n
    BY <1>0
  <2> HIDE DEF n
  <2>2. PICK a : Runs(a, i, B, <<>>, d) /\ a[i] = Part(m, i)
    BY <2>1, PartRuns
  <2>3. PICK b : Runs(b, n, B, <<>>, e) /\ b[n] = Part(m, n)
    BY <2>1, PartRuns
  <2> HIDE DEF B
  <2>4. \A v \in B, k \in 1..i : d[<<v, k>>] = e[<<v, k>>]
    <3> SUFFICES ASSUME NEW v \in B, NEW k \in 1..i PROVE d[<<v, k>>] = e[<<v, k>>]
      OBVIOUS
    <3>1. k \in 1..n
      BY <2>1
    <3> QED BY <3>1 DEF PartStep, B
  <2>5. \A v \in B : e[<<v, n>>] = IF n \in Conts(m) THEN v \o peer[n].body ELSE v
    BY <2>1 DEF PartStep, B
  <2> HIDE DEF d, e
  <2>6. Extends(a, b, i, n, B, <<>>, d, e)
    BY <2>1, <2>2, <2>3, <2>4 DEF Extends
  <2>7. a[i] \in B /\ b[n] = e[<<a[i], n>>]
    BY <2>6, RunsExtend
  <2>8. Part(m, n) = IF n \in Conts(m) THEN Part(m, i) \o peer[n].body ELSE Part(m, i)
    BY <2>2, <2>3, <2>5, <2>7
  <2> QED BY <2>8 DEF n
<1> QED BY <1>1, <1>2, <1>3

(* Nothing of a message comes before it ...                                *)
LEMMA PartBefore ==
    ASSUME ReadTypes, NEW m \in 1..Len(peer)
    PROVE  Part(m, m - 1) = <<>>
<1> DEFINE T == {n \in Nat : n < m => Part(m, n) = <<>>}
<1>0. m \in Nat /\ Len(peer) \in Nat
  BY StreamIs
<1>1. 0 \in T
  BY PartGrows
<1>2. ASSUME NEW n \in Nat, n \in T PROVE n + 1 \in T
  <2> SUFFICES ASSUME n + 1 < m PROVE Part(m, n + 1) = <<>>
    OBVIOUS
  <2>1. n < m /\ n \in 0..Len(peer) - 1 /\ ~(n + 1 >= m)
    BY <1>0
  <2>2. n + 1 \notin Conts(m)
    BY <2>1 DEF Conts
  <2>3. Part(m, n + 1) = Part(m, n)
    BY <2>1, <2>2, PartGrows
  <2> QED BY <1>2, <2>1, <2>3
<1>3. \A n \in Nat : n \in T
  <2> HIDE DEF T
  <2> QED BY <1>1, <1>2, InductNat
<1>4. m - 1 \in Nat /\ m - 1 < m
  BY <1>0
<1> QED BY <1>3, <1>4

(* ... nor after its final frame.                                          *)
LEMMA PartAfter ==
    ASSUME ReadTypes, NEW m \in 1..Len(peer), NEW i \in Conts(m), peer[i].fin,
           NEW j \in i..Len(peer)
    PROVE  Part(m, j) = Part(m, i)
<1> DEFINE T == {n \in Nat : i <= n /\ n <= Len(peer) => Part(m, n) = Part(m, i)}
<1>0. m \in Nat /\ Len(peer) \in Nat /\ i \in 1..Len(peer) /\ i >= m /\ peer[i].op \in DataOps
  BY StreamIs DEF Conts
<1>1. 0 \in T
  BY <1>0
<1>2. ASSUME NEW n \in Nat, n \in T PROVE n + 1 \in T
  <2> SUFFICES ASSUME i <= n + 1, n + 1 <= Len(peer) PROVE Part(m, n + 1) = Part(m, i)
    OBVIOUS
  <2>1. CASE i = n + 1
    BY <2>1
  <2>2. CASE i # n + 1
    <3>1. i <= n /\ n \in 0..Len(peer) - 1 /\ i \in m .. (n + 1) - 1 /\ n <= Len(peer)
      BY <1>0, <2>2
    <3>2. n + 1 \notin Conts(m)
      BY <1>0, <3>1 DEF Conts
    <3>3. Part(m, n + 1) = Part(m, n)
      BY <3>1, <3>2, PartGrows
    <3> QED BY <1>2, <3>1, <3>3
  <2> QED BY <2>1, <2>2
<1>3. \A n \in Nat : n \in T
  <2> HIDE DEF T
  <2> QED BY <1>1, <1>2, InductNat
<1> QED BY <1>0, <1>3

(* A part is the start of the whole.                                       *)
LEMMA PartIsPrefix ==
    ASSUME ReadTypes, NEW m, NEW i \in 0..Len(peer)
    PROVE  \E t \in Seq(Bytes) : Payload(m) = Part(m, i) \o t
<1> DEFINE T == {n \in Nat : i <= n /\ n <= Len(peer) => \E t \in Seq(Bytes) : Part(m, n) = Part(m, i) \o t}
<1>0. Len(peer) \in Nat /\ i \in Nat /\ peer \in Seq(Frame) /\ DOMAIN peer = 1..Len(peer)
  BY StreamIs
<1>1. Part(m, i) \in Seq(Bytes)
  BY PartGrows
<1>2. Part(m, i) = Part(m, i) \o <<>> /\ <<>> \in Seq(Bytes)
  BY <1>1, ConcatEmptySeq, EmptySeq
<1>3. 0 \in T
  <2> SUFFICES ASSUME i <= 0 PROVE \E t \in Seq(Bytes) : Part(m, 0) = Part(m, i) \o t
    OBVIOUS
  <2>1. i = 0
    BY <1>0
  <2> QED BY <1>2, <2>1
<1>4. ASSUME NEW n \in Nat, n \in T PROVE n + 1 \in T
  <2> SUFFICES ASSUME i <= n + 1, n + 1 <= Len(peer)
               PROVE  \E t \in Seq(Bytes) : Part(m, n + 1) = Part(m, i) \o t
    OBVIOUS
  <2>1. CASE i = n + 1
    BY <1>2, <2>1
  <2>2. CASE i # n + 1
    <3>1. i <= n /\ n <= Len(peer) /\ n \in 0..Len(peer) - 1 /\ n + 1 \in 1..Len(peer)
      BY <1>0, <2>2
    <3>2. PICK t \in Seq(Bytes) : Part(m, n) = Part(m, i) \o t
      BY <1>4, <3>1
    <3>3. CASE n + 1 \in Conts(m)
      <4>1. peer[n + 1].body \in Seq(Bytes)
        BY <1>0, <3>1, FrameFields
      <4>2. Part(m, n + 1) = (Part(m, i) \o t) \o peer[n + 1].body
        <5>1. Part(m, n + 1) = Part(m, n) \o peer[n + 1].body
          BY <3>1, <3>3, PartGrows
        <5> QED BY <3>2, <5>1, Zenon
      <4>3. (Part(m, i) \o t) \o peer[n + 1].body = Part(m, i) \o (t \o peer[n + 1].body)
        <5> DEFINE a == Part(m, i)
                   b == peer[n + 1].body
        <5>1. a \in Seq(Bytes) /\ b \in Seq(Bytes)
          BY <1>1, <4>1
        <5> HIDE DEF a, b
        <5>2. (a \o t) \o b = a \o (t \o b)
          BY <5>1, BytesRegroup
        <5> QED BY <5>2 DEF a, b
      <4>4. t \o peer[n + 1].body \in Seq(Bytes)
        BY <4>1, ConcatProperties
      <4> QED BY <4>2, <4>3, <4>4
    <3>4. CASE n + 1 \notin Conts(m)
      <4>1. Part(m, n + 1) = Part(m, n)
        BY <3>1, <3>4, PartGrows
      <4> QED BY <3>2, <4>1
    <3> QED BY <3>3, <3>4
  <2> QED BY <2>1, <2>2
<1>5. \A n \in Nat : n \in T
  <2> HIDE DEF T
  <2> QED BY <1>3, <1>4, InductNat
<1>6. Payload(m) = Part(m, Len(peer))
  BY <1>0 DEF Payload, Part
<1>7. Len(peer) \in T /\ i <= Len(peer)
  <2> HIDE DEF T
  <2> QED BY <1>0, <1>5
<1> QED BY <1>0, <1>6, <1>7

DelivInv == Delivering /\ DeliversMessages

(* What the script means does not change.                                  *)
LEMMA SameScript ==
    ASSUME UNCHANGED peer
    PROVE  /\ Starts' = Starts
           /\ \A m : Conts(m)' = Conts(m) /\ Payload(m)' = Payload(m) /\ (Ended(m)' <=> Ended(m))
           /\ \A m, i : Part(m, i)' = Part(m, i)
           /\ \A i : Data(i)' <=> Data(i)
<1>1. Starts' = Starts
  BY DEF Starts
<1>2. ASSUME NEW m PROVE Conts(m)' = Conts(m)
  BY DEF Conts
<1>3. ASSUME NEW m PROVE Payload(m)' = Payload(m)
  BY DEF Payload, Conts, FoldLeft, MapThenFoldSet
<1>4. ASSUME NEW m PROVE Ended(m)' <=> Ended(m)
  BY DEF Ended, Conts
<1>5. ASSUME NEW m, NEW i PROVE Part(m, i)' = Part(m, i)
  BY DEF Part, Conts, FoldLeft, MapThenFoldSet
<1>6. ASSUME NEW i PROVE Data(i)' <=> Data(i)
  BY DEF Data
<1> QED BY <1>1, <1>2, <1>3, <1>4, <1>5, <1>6, Zenon

LEMMA GivenStays ==
    ASSUME DelivInv, UNCHANGED <<peer, got, complete>>
    PROVE  DeliversMessages'
<1>1. ASSUME NEW m \in DOMAIN peer', got'[m] # <<>>
      PROVE  m \in Starts' /\ IsPrefix(got'[m], Payload(m)')
  BY <1>1, SameScript DEF DelivInv, DeliversMessages
<1>2. ASSUME NEW m \in complete'
      PROVE  Ended(m)' /\ got'[m] = Payload(m)'
  BY <1>2, SameScript DEF DelivInv, DeliversMessages
<1> QED BY <1>1, <1>2 DEF DeliversMessages

(* A step that moves neither the application nor the parser.               *)
LEMMA NothingDelivers ==
    ASSUME DelivInv, UNCHANGED <<peer, got, complete>>,
           (Parsing' /\ Data(frame)') => readFinal' = peer'[frame'].fin,
           (pc' = "head" /\ caller' = "read") => ~readFinal' /\ readRemaining' = 0,
           Open' => /\ Open /\ UNCHANGED <<messageReader, frame, readFinal, readRemaining>>
                    /\ Parsing' <=> Parsing
    PROVE  DelivInv'
<1>1. DeliversMessages'
  BY GivenStays
<1>2. ASSUME Open' PROVE OpenDelivers'
  <2>1. OpenDelivers
    BY <1>2 DEF DelivInv, Delivering
  <2>2. UNCHANGED <<messageReader, frame, readFinal, readRemaining>> /\ (Parsing' <=> Parsing)
    BY <1>2
  <2>3. messageReader' \in Starts'
        /\ \A i \in messageReader' + 1 .. frame' : peer'[i].op \notin {"text", "binary"}
    BY <2>1, <2>2, SameScript DEF OpenDelivers
  <2>4. readFinal' => \E i \in Conts(messageReader)' : i <= frame' /\ peer'[i].fin
    BY <2>1, <2>2, SameScript DEF OpenDelivers
  <2>5. ~readFinal' => \A i \in messageReader'..frame' : Data(i)' => ~peer'[i].fin
    BY <2>1, <2>2, SameScript DEF OpenDelivers
  <2>6. Parsing' => /\ got'[messageReader'] = Part(messageReader, frame - 1)'
                    /\ \A i \in messageReader' .. frame' - 1 : Data(i)' => ~peer'[i].fin
    BY <2>1, <2>2, SameScript DEF OpenDelivers
  <2>7. ~Parsing' => /\ readRemaining' <= Len(peer'[frame'].body)
                     /\ got'[messageReader'] \o Left(peer'[frame'], readRemaining')
                          = Part(messageReader, frame)'
    BY <2>1, <2>2, SameScript DEF OpenDelivers
  <2> QED BY <2>3, <2>4, <2>5, <2>6, <2>7 DEF OpenDelivers
<1> QED BY <1>1, <1>2 DEF DelivInv, Delivering

(* A call that fails.                                                      *)
LEMMA FailsDeliver ==
    ASSUME BaseInv, DelivInv, Running, NEW e \in Errors, Fail(e),
           UNCHANGED <<peer, got, complete, messageReader>>
    PROVE  DelivInv'
<1>1. ~Open' /\ pc' \in {"idle", "panicked"}
  BY FailCalms DEF Open
<1> QED BY <1>1, NothingDelivers DEF Parsing

(* The frame that the parser takes next is the one after the last.         *)
LEMMA NextFrame ==
    ASSUME BaseInv, InStep, ReadHead
    PROVE  frame' = frame + 1 /\ frame' \in 1..Len(peer) /\ frame \in 0..Len(peer) - 1
<1> DEFINE j == unit(1).frame
<1>1. j \in 1..Len(peer) /\ pos = Off(peer, j - 1) /\ frame' = j
  BY HeadPlace
<1> HIDE DEF j
<1>2. pos = Off(peer, frame)
  BY PlacedWhen DEF Placed, ReadHead, Running
<1>3. j - 1 \in 0..Len(peer) /\ frame \in 0..Len(peer) /\ peer \in Seq(Frame) /\ Len(peer) \in Nat
  BY <1>1, StreamIs DEF BaseInv, ReadTypes
<1>4. j - 1 = frame
  BY <1>1, <1>2, <1>3, OffTells
<1> QED BY <1>1, <1>3, <1>4

LEMMA LeftIs ==
    ASSUME NEW f \in Frame
    PROVE  /\ f.body \in Seq(Bytes) /\ Len(f.body) \in Nat
           /\ Left(f, 0) = <<>> /\ Left(f, Len(f.body)) = f.body
           /\ \A n \in 0..Len(f.body) : Left(f, n) \in Seq(Bytes)
<1>1. f.body \in Seq(Bytes)
  BY DEF Frame
<1> DEFINE b == f.body
<1>2. b \in Seq(Bytes) /\ Len(b) \in Nat
  BY <1>1, LenProperties
<1> HIDE DEF b
<1>3. SubSeq(b, Len(b) - 0 + 1, Len(b)) = <<>>
  BY <1>2, SubSeqEmpty
<1>4. SubSeq(b, Len(b) - Len(b) + 1, Len(b)) = b
  <2>1. Len(b) - Len(b) + 1 = 1
    BY <1>2
  <2> QED BY <1>2, <2>1, SubSeqFull
<1>5. ASSUME NEW n \in 0..Len(b) PROVE SubSeq(b, Len(b) - n + 1, Len(b)) \in Seq(Bytes)
  <2>1. Len(b) - n + 1 \in Int /\ Len(b) \in Int /\ \A i \in Len(b) - n + 1 .. Len(b) : i \in 1..Len(b)
    BY <1>2
  <2>2. \A i \in Len(b) - n + 1 .. Len(b) : b[i] \in Bytes
    BY <1>2, <2>1, ElementOfSeq
  <2> QED BY <2>1, <2>2, SubSeqProperties
<1> QED BY <1>2, <1>3, <1>4, <1>5 DEF Left, b

(* What is known of an open message.                                       *)
LEMMA OpenIs ==
    ASSUME BaseInv, DelivInv, Open
    PROVE  /\ messageReader \in 1..Len(peer) /\ frame \in 1..Len(peer) /\ messageReader <= frame
           /\ Parsing => messageReader < frame
           /\ got[messageReader] \in Seq(Bytes) /\ peer[frame] \in Frame
           /\ peer[frame].body \in Seq(Bytes) /\ OpenDelivers
           /\ Len(peer) \in Nat /\ DOMAIN peer = 1..Len(peer)
<1>1. messageReader \in 1..Len(peer) /\ frame \in 1..Len(peer) /\ messageReader <= frame
      /\ (Parsing => messageReader < frame)
  BY StreamIs DEF BaseInv, ReadTypes, InOrder, Open
<1>2. got[messageReader] \in Seq(Bytes)
  BY <1>1 DEF BaseInv, ReadTypes
<1>3. peer \in Seq(Frame) /\ DOMAIN peer = 1..Len(peer) /\ Len(peer) \in Nat
  BY StreamIs DEF BaseInv
<1>4. peer[frame] \in Frame /\ peer[frame].body \in Seq(Bytes)
  BY <1>1, <1>3, FrameFields
<1> QED BY <1>1, <1>2, <1>3, <1>4 DEF DelivInv, Delivering

(* The header of a frame of the open message, or of a control frame in it. *)
LEMMA HeadDelivers ==
    ASSUME BaseInv, InStep, DelivInv, ReadHead
    PROVE  DelivInv'
<1>1. /\ pc = "head" /\ Running /\ ~Parsing /\ UNCHANGED <<peer, got, complete, messageReader, caller>>
      /\ frame' = frame + 1 /\ frame' \in 1..Len(peer) /\ frame \in 0..Len(peer) - 1
      /\ readFinal' = IF Data(frame') THEN peer[frame'].fin ELSE readFinal
  <2>1. frame' = frame + 1 /\ frame' \in 1..Len(peer) /\ frame \in 0..Len(peer) - 1
    BY NextFrame
  <2> QED BY <2>1 DEF ReadHead, Running, Parsing, Data, netVars, appVars
<1>2. CASE Fail("protocol")
  BY <1>1, <1>2, FailsDeliver DEF Errors
<1>3. CASE pc' = "key" /\ UNCHANGED readErr /\ ~HeaderError(peer[frame'])
  <2> DEFINE m == messageReader
  <2>1. Parsing' /\ pc' # "head"
    BY <1>3 DEF Parsing
  <2>2. Data(frame)' => readFinal' = peer'[frame'].fin
    BY <1>1 DEF Data
  <2>3. ASSUME Open' PROVE OpenDelivers'
    <3>1. Open /\ caller = "read"
      BY <1>1, <1>3, <2>3 DEF Open, BaseInv, Calm
    <3>2. ~readFinal /\ readRemaining = 0
      BY <1>1, <3>1 DEF DelivInv, Delivering
    <3>3. /\ m \in 1..Len(peer) /\ m <= frame /\ OpenDelivers /\ got[m] \in Seq(Bytes)
          /\ peer[frame] \in Frame
          /\ DOMAIN peer = 1..Len(peer) /\ frame \in Nat
      BY <1>1, <3>1, OpenIs
    <3>4. \A i \in m..frame : Data(i) => ~peer[i].fin
      BY <3>2, <3>3 DEF OpenDelivers
    <3>5. peer[frame'].op \notin {"text", "binary"}
      BY <1>3, <3>2 DEF HeaderError
    <3>6. \A i \in m + 1 .. frame' : peer[i].op \notin {"text", "binary"}
      <4>1. \A i \in m + 1 .. frame' : i \in m + 1 .. frame \/ i = frame'
        BY <1>1, <3>3
      <4> QED BY <3>3, <3>5, <4>1 DEF OpenDelivers
    <3>7. frame' - 1 = frame /\ m \in Nat
      BY <1>1, <3>3
    <3>8. readFinal' => frame' \in Conts(m) /\ peer[frame'].fin
      <4> SUFFICES ASSUME readFinal' PROVE frame' \in Conts(m) /\ peer[frame'].fin
        OBVIOUS
      <4>1. Data(frame') /\ peer[frame'].fin
        BY <1>1, <3>2
      <4>2. frame' \in DOMAIN peer /\ frame' >= m
        BY <1>1, <3>3
      <4>3. \A j \in m .. frame' - 1 : peer[j].op \in DataOps => ~peer[j].fin
        BY <3>4, <3>7 DEF Data
      <4> QED BY <3>6, <4>1, <4>2, <4>3 DEF Conts, Data
    <3>9. ~readFinal' => \A i \in m..frame' : Data(i) => ~peer[i].fin
      <4> SUFFICES ASSUME ~readFinal', NEW i \in m..frame', Data(i) PROVE ~peer[i].fin
        OBVIOUS
      <4>1. i \in m..frame \/ i = frame'
        BY <1>1, <3>3
      <4> QED BY <1>1, <3>4, <4>1
    <3>10. got[m] = Part(m, frame)
      <4>1. got[m] \o Left(peer[frame], 0) = Part(m, frame)
        BY <1>1, <3>2, <3>3 DEF OpenDelivers
      <4>2. Left(peer[frame], 0) = <<>>
        BY <3>3, LeftIs
      <4>3. got[m] \o <<>> = got[m]
        BY <3>3, ConcatEmptySeq
      <4> QED BY <4>1, <4>2, <4>3
    <3> HIDE DEF m
    <3>11. messageReader' = m /\ peer' = peer /\ got' = got
      BY <1>1 DEF m
    <3>12. messageReader' \in Starts'
      BY <3>3, <3>11, SameScript DEF OpenDelivers, m
    <3>13. readFinal' => \E i \in Conts(messageReader)' : i <= frame' /\ peer'[i].fin
      <4>1. frame' <= frame'
        BY <1>1
      <4>2. Conts(messageReader)' = Conts(m)
        BY <3>11, SameScript
      <4> QED BY <3>8, <3>11, <4>1, <4>2
    <3>14. /\ \A i \in messageReader' + 1 .. frame' : peer'[i].op \notin {"text", "binary"}
           /\ ~readFinal' => \A i \in messageReader'..frame' : Data(i)' => ~peer'[i].fin
           /\ \A i \in messageReader' .. frame' - 1 : Data(i)' => ~peer'[i].fin
      BY <3>4, <3>6, <3>7, <3>9, <3>11, SameScript
    <3>15. got'[messageReader'] = Part(messageReader, frame - 1)'
      <4>1. Part(messageReader, frame - 1)' = Part(m, frame)
        BY <3>7, <3>11, SameScript
      <4> QED BY <3>10, <3>11, <4>1
    <3> QED BY <2>1, <3>12, <3>13, <3>14, <3>15 DEF OpenDelivers
  <2>4. DeliversMessages'
    BY <1>1, GivenStays
  <2> QED BY <2>1, <2>2, <2>3, <2>4 DEF DelivInv, Delivering
<1> QED BY <1>1, <1>2, <1>3 DEF ReadHead

(* A frame of the open message brings its payload, a control frame none.   *)
LEMMA FrameAdds ==
    ASSUME BaseInv, DelivInv, Open, Parsing, peer[frame].op \notin {"text", "binary"}
    PROVE  Part(messageReader, frame) = IF Data(frame) THEN got[messageReader] \o peer[frame].body
                                                       ELSE got[messageReader]
<1> DEFINE m == messageReader
<1>1. /\ m \in 1..Len(peer) /\ frame \in 1..Len(peer) /\ m < frame /\ OpenDelivers
      /\ DOMAIN peer = 1..Len(peer)
      /\ Len(peer) \in Nat
  BY OpenIs
<1>2. /\ got[m] = Part(m, frame - 1) /\ \A i \in m .. frame - 1 : Data(i) => ~peer[i].fin
      /\ \A i \in m + 1 .. frame : peer[i].op \notin {"text", "binary"}
  BY <1>1 DEF OpenDelivers
<1>3. frame \in Conts(m) <=> Data(frame)
  <2>1. Data(frame) => frame \in Conts(m)
    BY <1>1, <1>2 DEF Conts, Data
  <2>2. frame \in Conts(m) => Data(frame)
    BY DEF Conts, Data
  <2> QED BY <2>1, <2>2
<1>4. frame - 1 \in 0..Len(peer) - 1 /\ (frame - 1) + 1 = frame
  BY <1>1
<1>5. Part(m, (frame - 1) + 1)
        = IF (frame - 1) + 1 \in Conts(m) THEN Part(m, frame - 1) \o peer[(frame - 1) + 1].body
                                                                 ELSE Part(m, frame - 1)
  BY <1>4, PartGrows DEF BaseInv
<1> QED BY <1>2, <1>3, <1>4, <1>5

(* What is left of the frame completes its part, and all else stays.       *)
LEMMA PayloadDelivers ==
    ASSUME BaseInv, DelivInv, Open, Parsing, ~Parsing', Open',
           UNCHANGED <<peer, got, messageReader, frame, readFinal>>,
           readRemaining' \in Nat, readRemaining' <= Len(peer[frame].body),
           got[messageReader] \o Left(peer[frame], readRemaining') = Part(messageReader, frame)
    PROVE  OpenDelivers'
<1>1. OpenDelivers
  BY OpenIs
<1>2. messageReader' \in Starts'
      /\ \A i \in messageReader' + 1 .. frame' : peer'[i].op \notin {"text", "binary"}
  BY <1>1, SameScript DEF OpenDelivers
<1>3. readFinal' => \E i \in Conts(messageReader)' : i <= frame' /\ peer'[i].fin
  BY <1>1, SameScript DEF OpenDelivers
<1>4. ~readFinal' => \A i \in messageReader'..frame' : Data(i)' => ~peer'[i].fin
  BY <1>1, SameScript DEF OpenDelivers
<1>5. got'[messageReader'] \o Left(peer'[frame'], readRemaining') = Part(messageReader, frame)'
  BY SameScript
<1> QED BY <1>2, <1>3, <1>4, <1>5 DEF OpenDelivers

LEMMA DataDelivers ==
    ASSUME BaseInv, InStep, DelivInv, DataFrame
    PROVE  DelivInv'
<1>1. /\ pc = "payload" /\ Running /\ Parsing /\ Data(frame) /\ frame \in 1..Len(peer) /\ readErr = "nil"
      /\ UNCHANGED <<peer, got, complete, caller, frame, readFinal, readRemaining>>
      /\ readRemaining = Len(peer[frame].body) /\ readFinal = peer[frame].fin
      /\ peer[frame] \in Frame /\ readRemaining \in Nat /\ Len(peer) \in Nat /\ DOMAIN peer = 1..Len(peer)
  <2>1. /\ pc = "payload" /\ Running /\ Parsing /\ Data(frame)
        /\ UNCHANGED <<peer, got, complete, caller, frame, readFinal, readRemaining>>
    BY DEF DataFrame, Running, Parsing, Data, netVars, appVars
  <2>2. frame \in 1..Len(peer) /\ peer \in Seq(Frame) /\ Len(peer) \in Nat /\ DOMAIN peer = 1..Len(peer)
    BY <2>1, StreamIs DEF BaseInv, ReadTypes, InOrder
  <2>3. peer[frame] \in Frame
    BY <2>2, FrameFields
  <2>4. readRemaining = Len(peer[frame].body)
    BY <2>1, PlacedWhen DEF Placed
  <2> QED BY <2>1, <2>2, <2>3, <2>4 DEF DelivInv, Delivering, BaseInv, Calm, ReadTypes
<1>2. CASE \E e \in {"limit", "internal"} : Fail(e) /\ UNCHANGED messageReader
  BY <1>1, <1>2, FailsDeliver DEF Errors
<1>3. Left(peer[frame], readRemaining') = peer[frame].body /\ peer[frame].body \in Seq(Bytes)
  BY <1>1, LeftIs
<1>4. DeliversMessages'
  BY <1>1, GivenStays
<1>5. CASE peer[frame].op = "cont" /\ FrameDone(readRemaining) /\ UNCHANGED <<readErr, messageReader>>
  <2>1. ~Parsing' /\ (caller = "read" => pc' = "read")
    BY <1>1, <1>5 DEF FrameDone, Parsing
  <2>2. ASSUME Open' PROVE OpenDelivers'
    <3>1. Open
      BY <1>5, <2>2 DEF Open
    <3>2. Part(messageReader, frame) = got[messageReader] \o peer[frame].body
      BY <1>1, <1>5, <3>1, FrameAdds
    <3>3. readRemaining' \in Nat /\ readRemaining' <= Len(peer[frame].body)
      BY <1>1
    <3> QED BY <1>1, <1>3, <1>5, <2>1, <2>2, <3>1, <3>2, <3>3, PayloadDelivers
  <2> QED BY <1>1, <1>4, <2>1, <2>2 DEF DelivInv, Delivering
<1>6. CASE peer[frame].op # "cont" /\ messageReader' = frame /\ pc' = "idle" /\ UNCHANGED readErr
  <2>1. ~Parsing' /\ pc' # "head"
    BY <1>6 DEF Parsing
  <2>2. frame \in Starts /\ frame \in Conts(frame)
    BY <1>1, <1>6 DEF Starts, Conts, Data, DataOps
  <2>3. got[frame] = <<>>
    <3>1. ~(frame < frame)
      BY <1>1
    <3> QED BY <1>1, <3>1 DEF BaseInv, InOrder
  <2>4. Part(frame, frame) = peer[frame].body
    <3>1. frame - 1 \in 0..Len(peer) - 1 /\ (frame - 1) + 1 = frame
      BY <1>1
    <3>2. Part(frame, (frame - 1) + 1) = Part(frame, frame - 1) \o peer[(frame - 1) + 1].body
      BY <2>2, <3>1, PartGrows DEF BaseInv
    <3>3. Part(frame, frame - 1) = <<>>
      BY <1>1, PartBefore DEF BaseInv
    <3>4. <<>> \o peer[frame].body = peer[frame].body
      BY <1>3, ConcatEmptySeq
    <3> QED BY <3>1, <3>2, <3>3, <3>4
  <2>5. got[frame] \o peer[frame].body = Part(frame, frame)
    <3>1. <<>> \o peer[frame].body = peer[frame].body
      BY <1>3, ConcatEmptySeq
    <3> QED BY <2>3, <2>4, <3>1
  <2>6. messageReader' \in Starts'
        /\ \A i \in messageReader' + 1 .. frame' : peer'[i].op \notin {"text", "binary"}
    <3>1. messageReader' = frame /\ frame' = frame /\ \A i \in frame + 1 .. frame : FALSE
      BY <1>1, <1>6
    <3> QED BY <1>1, <2>2, <3>1, SameScript
  <2>7. readFinal' => \E i \in Conts(messageReader)' : i <= frame' /\ peer'[i].fin
    <3>1. Conts(messageReader)' = Conts(frame) /\ frame <= frame'
      BY <1>1, <1>6, SameScript
    <3> QED BY <1>1, <2>2, <3>1
  <2>8. ~readFinal' => \A i \in messageReader'..frame' : Data(i)' => ~peer'[i].fin
    <3>1. messageReader' = frame /\ frame' = frame /\ \A i \in frame .. frame : i = frame
      BY <1>1, <1>6
    <3> QED BY <1>1, <3>1
  <2>9. /\ readRemaining' <= Len(peer'[frame'].body)
        /\ got'[messageReader'] \o Left(peer'[frame'], readRemaining') = Part(messageReader, frame)'
    <3>1. Part(messageReader, frame)' = Part(frame, frame)
      BY <1>1, <1>6, SameScript
    <3>2. got'[messageReader'] = got[frame] /\ peer'[frame'] = peer[frame]
      BY <1>1, <1>6
    <3>3. readRemaining' <= Len(peer'[frame'].body)
      BY <1>1, <3>2
    <3> QED BY <1>3, <2>5, <3>1, <3>2, <3>3
  <2>10. OpenDelivers'
    BY <2>1, <2>6, <2>7, <2>8, <2>9 DEF OpenDelivers
  <2> QED BY <1>4, <2>1, <2>10 DEF DelivInv, Delivering
<1> QED BY <1>2, <1>5, <1>6 DEF DataFrame

LEMMA ControlDelivers ==
    ASSUME BaseInv, DelivInv, Ping \/ Pong \/ Close \/ HandlerFails
    PROVE  DelivInv'
<1>1. /\ pc = "payload" /\ Running /\ Parsing /\ ~Data(frame) /\ peer[frame].op \notin {"text", "binary"}
      /\ UNCHANGED <<peer, got, complete, caller, frame, readFinal, messageReader>> /\ readRemaining' = 0
  BY DEF Ping, Pong, Close, HandlerFails, ReadControl, Running, Parsing, Data, DataOps, ControlOps,
     netVars, appVars
<1>2. CASE Close \/ HandlerFails
  <2>1. PICK e \in {"protocol", "closed", "handler"} : Fail(e)
    BY <1>2 DEF Close, HandlerFails
  <2> QED BY <1>1, <2>1, FailsDeliver DEF Errors
<1>3. CASE FrameDone(0) /\ UNCHANGED readErr
  <2>1. ~Parsing' /\ (caller = "read" => pc' = "read")
    BY <1>1, <1>3 DEF FrameDone, Parsing
  <2>2. ASSUME Open' PROVE OpenDelivers'
    <3>1. Open
      BY <1>1, <1>3, <2>2 DEF Open
    <3>2. peer[frame] \in Frame /\ got[messageReader] \in Seq(Bytes)
      BY <3>1, OpenIs
    <3>3. Part(messageReader, frame) = got[messageReader]
      BY <1>1, <3>1, FrameAdds
    <3>4. Left(peer[frame], readRemaining') = <<>> /\ readRemaining' \in Nat
          /\ readRemaining' <= Len(peer[frame].body)
      BY <1>1, <3>2, LeftIs
    <3>5. got[messageReader] \o <<>> = got[messageReader]
      BY <3>2, ConcatEmptySeq
    <3> QED BY <1>1, <2>1, <2>2, <3>1, <3>3, <3>4, <3>5, PayloadDelivers
  <2>3. DeliversMessages'
    BY <1>1, GivenStays
  <2> QED BY <1>1, <2>1, <2>2, <2>3 DEF DelivInv, Delivering
<1> QED BY <1>2, <1>3 DEF Ping, Pong

(* What Read finds on the stream is the payload of its frame.              *)
LEMMA ByteIs ==
    ASSUME BaseInv, Placed, pc = "read", frame # 0, readRemaining <= Len(peer[frame].body),
           NEW k \in 1..readRemaining
    PROVE  unit(k).byte = peer[frame].body[Len(peer[frame].body) - readRemaining + k]
<1> DEFINE b == peer[frame].body
           L == Len(b)
           K == 3 + L - readRemaining + k
<1>1. /\ peer \in Seq(Frame) /\ frame \in 1..Len(peer) /\ frame \in Nat /\ Len(peer) \in frame..Len(peer)
      /\ stream = Units(peer, Len(peer)) /\ pos \in Nat /\ readRemaining \in Nat
  BY StreamIs DEF BaseInv, ReadTypes
<1>2. peer[frame] \in Frame /\ L \in Nat
  BY <1>1, FrameFields
<1>3. pos + readRemaining = Off(peer, frame - 1) + 3 + L /\ Off(peer, frame - 1) \in Nat
  BY OffNext DEF Placed, BaseInv
<1>4. readRemaining <= L /\ Size(peer[frame]) = 3 + L
  BY DEF Size
<1> HIDE DEF L
<1>5. K \in 1..Size(peer[frame]) /\ K > 3 /\ K - 3 = L - readRemaining + k
      /\ pos + k = Off(peer, frame - 1) + K
  <2> DEFINE o == Off(peer, frame - 1)
  <2>1. pos \in Nat /\ readRemaining \in Nat /\ L \in Nat /\ o \in Nat /\ pos + readRemaining = o + 3 + L
    BY <1>1, <1>2, <1>3
  <2> HIDE DEF o
  <2>2. k \in Nat /\ 1 <= k /\ k <= readRemaining /\ readRemaining <= L
    BY <1>1, <1>4
  <2>3. K \in 1 .. 3 + L /\ K > 3 /\ K - 3 = L - readRemaining + k
    BY <2>1, <2>2
  <2>4. pos + k = o + K
    BY <2>1, <2>2
  <2> QED BY <1>4, <2>3, <2>4 DEF o
<1> HIDE DEF K
<1>6. Units(peer, Len(peer))[Off(peer, frame - 1) + K] = FrameUnits(peer[frame], frame)[K]
  BY <1>1, <1>5, UnitsStay
<1>7. FrameUnits(peer[frame], frame)[K].byte = peer[frame].body[K - 3]
  BY <1>1, <1>2, <1>5, UnitsOfFrame
<1> QED BY <1>1, <1>5, <1>6, <1>7 DEF unit, L

(* A frame's payload may be read in pieces.                                *)
LEMMA LeftSplits ==
    ASSUME NEW f \in Frame, NEW r \in 0..Len(f.body), NEW n \in 0..r, NEW x \in Seq(Bytes),
           Len(x) = n, \A k \in 1..n : x[k] = f.body[Len(f.body) - r + k]
    PROVE  Left(f, r) = x \o Left(f, r - n)
<1> DEFINE b == f.body
           L == Len(b)
<1>1. b \in Seq(Bytes) /\ L \in Nat
  BY LeftIs
<1>2. r \in 0..L /\ \A k \in 1..n : x[k] = b[L - r + k]
  OBVIOUS
<1>3. Left(f, r) = SubSeq(b, L - r + 1, L) /\ Left(f, r - n) = SubSeq(b, L - (r - n) + 1, L)
  BY DEF Left
<1>4. L = Len(b)
  OBVIOUS
<1> HIDE DEF b, L
<1> DEFINE p == SubSeq(b, L - r + 1, L - r + n)
<1>5. /\ L - r + 1 \in 1 .. L + 1 /\ L - r + n \in (L - r + 1) - 1 .. L /\ L \in L - r + n .. L
      /\ L - (r - n) + 1 = (L - r + n) + 1 /\ n \in Nat /\ r \in Nat /\ L - r + 1 \in Int
      /\ L - r + n \in Int
  BY <1>1, <1>2
<1>6. p \o SubSeq(b, (L - r + n) + 1, L) = SubSeq(b, L - r + 1, L)
  BY <1>1, <1>4, <1>5, ConcatAdjacentSubSeq
<1>7. /\ p \in Seq(Bytes) /\ Len(p) = n
      /\ \A k \in 1..n : p[k] = b[(L - r + 1) + k - 1]
  <2>1. \A i \in L - r + 1 .. L - r + n : i \in 1..L
    BY <1>1, <1>2, <1>5
  <2>2. \A i \in L - r + 1 .. L - r + n : b[i] \in Bytes
    BY <1>1, <1>4, <2>1, ElementOfSeq
  <2> DEFINE lo == L - r + 1
             hi == L - r + n
  <2>3. /\ p \in Seq(Bytes)
        /\ Len(p) = IF lo <= hi THEN hi - lo + 1 ELSE 0
        /\ \A i \in 1 .. hi - lo + 1 : p[i] = b[lo + i - 1]
    <3>1. p = SubSeq(b, lo, hi) /\ lo \in Int /\ hi \in Int /\ \A i \in lo..hi : b[i] \in Bytes
      BY <1>5, <2>2
    <3> HIDE DEF p, lo, hi
    <3> QED BY <3>1, SubSeqProperties
  <2>4. (L - r + n) - (L - r + 1) + 1 = n
    BY <1>1, <1>5
  <2> HIDE DEF p
  <2>5. Len(p) = n
    BY <1>1, <1>5, <2>3, <2>4
  <2> QED BY <2>3, <2>4, <2>5
<1> HIDE DEF p
<1>8. \A k \in 1..n : (L - r + 1) + k - 1 = L - r + k
  BY <1>1, <1>5
<1>9. \A k \in 1..n : p[k] = x[k]
  BY <1>2, <1>7, <1>8
<1>10. p = x
  BY <1>7, <1>9, SeqEqual
<1> QED BY <1>3, <1>5, <1>6, <1>10

LEMMA BodyDelivers ==
    ASSUME ~EOFWithData, BaseInv, BaseInv', InStep, GuardInv, DelivInv, ReadBody
    PROVE  DelivInv'
<1>1. PICK n \in 1..Available, x \in Seq(Bytes), err \in BodyErrors : Took(n, x, err)
  BY BodyStep
<1>2. /\ Len(x) = n /\ n \in Nat /\ n <= readRemaining /\ readRemaining' = readRemaining - n
      /\ \A k \in 1..n : x[k] = unit(k).byte
      /\ \/ Reject("nil", "utf8")
         \/ readErr' = "nil" /\ got' = [got EXCEPT ![messageReader] = @ \o x] /\ complete' = complete
  <2>1. err = "nil"
    BY <1>1 DEF Took
  <2>2. n \in Nat
    BY AvailableIs DEF BaseInv
  <2> QED BY <1>1, <2>1, <2>2 DEF Took
<1>3. /\ pc = "read" /\ pc' = "idle" /\ Running /\ ~Parsing /\ ~Parsing' /\ Open
      /\ UNCHANGED <<peer, frame, messageReader, readFinal>>
  BY DEF ReadBody, Parsing, Running, Open, BaseInv, Calm, netVars
<1>4. CASE Reject("nil", "utf8")
  <2>1. ~Open' /\ got' = got /\ complete' = complete
    BY <1>4 DEF Reject, Open
  <2> QED BY <1>3, <2>1, NothingDelivers
<1>5. CASE readErr' = "nil" /\ got' = [got EXCEPT ![messageReader] = @ \o x] /\ complete' = complete
  <2> DEFINE m    == messageReader
             had  == got[m]
             f    == peer[frame]
             rest == Left(f, readRemaining')
  <2>1. /\ m \in 1..Len(peer) /\ frame \in 1..Len(peer) /\ had \in Seq(Bytes) /\ f \in Frame
        /\ OpenDelivers
        /\ m \notin complete /\ got \in [1..Len(peer) -> Seq(Bytes)] /\ readRemaining \in Nat
        /\ DOMAIN peer = 1..Len(peer) /\ Len(peer) \in Nat
    BY <1>3, OpenIs, OpenGuards DEF BaseInv, ReadTypes
  <2>2. readRemaining <= Len(f.body) /\ had \o Left(f, readRemaining) = Part(m, frame) /\ m \in Starts
    BY <1>3, <2>1 DEF OpenDelivers
  <2>3. Len(f.body) \in Nat /\ readRemaining \in 0..Len(f.body) /\ n \in 0..readRemaining
        /\ readRemaining' \in 0..Len(f.body)
    <3>1. Len(f.body) \in Nat
      BY <2>1, LeftIs
    <3> DEFINE l == Len(f.body)
    <3>2. l \in Nat /\ readRemaining <= l
      BY <2>2, <3>1
    <3> HIDE DEF l, f
    <3>3. readRemaining \in 0..l /\ n \in 0..readRemaining /\ readRemaining' \in 0..l
      BY <1>2, <2>1, <3>2
    <3> QED BY <3>1, <3>3 DEF l
  <2>4. \A k \in 1..n : x[k] = f.body[Len(f.body) - readRemaining + k]
    <3> SUFFICES ASSUME NEW k \in 1..n PROVE x[k] = f.body[Len(f.body) - readRemaining + k]
      OBVIOUS
    <3>1. k \in 1..readRemaining /\ frame # 0
      BY <1>2, <2>1
    <3>2. Placed
      BY <1>3, PlacedWhen
    <3>3. unit(k).byte = f.body[Len(f.body) - readRemaining + k]
      BY <1>3, <2>2, <3>1, <3>2, ByteIs
    <3> QED BY <1>2, <3>3
  <2>5. Left(f, readRemaining) = x \o rest
    <3>1. Left(f, readRemaining) = x \o Left(f, readRemaining - n)
      <4>1. f \in Frame /\ Len(x) = n
        BY <1>2, <2>1
      <4> HIDE DEF f
      <4> QED BY <2>3, <2>4, <4>1, LeftSplits
    <3> QED BY <1>2, <3>1
  <2>6. rest \in Seq(Bytes)
    BY <2>1, <2>3, LeftIs
  <2>7. got'[m] = had \o x /\ \A i \in 1..Len(peer) : i # m => got'[i] = got[i]
    BY <1>5, <2>1
  <2> HIDE DEF m, had, f, rest
  <2>8. had \o x \in Seq(Bytes)
    <3>1. had \in Seq(Bytes) /\ x \in Seq(Bytes)
      BY <2>1
    <3> QED BY <3>1, ConcatProperties
  <2>9. (had \o x) \o rest = Part(m, frame)
    <3>1. had \in Seq(Bytes) /\ x \in Seq(Bytes) /\ rest \in Seq(Bytes)
      BY <2>1, <2>6
    <3>2. (had \o x) \o rest = had \o (x \o rest)
      BY <3>1, BytesRegroup
    <3> QED BY <2>2, <2>5, <3>2
  <2>10. IsPrefix(had \o x, Payload(m))
    <3>1. frame \in 0..Len(peer)
      BY <2>1
    <3>2. PICK t \in Seq(Bytes) : Payload(m) = Part(m, frame) \o t
      BY <3>1, PartIsPrefix DEF BaseInv
    <3>3. Payload(m) = (had \o x) \o (rest \o t)
      <4> DEFINE h == had \o x
      <4>1. h \in Seq(Bytes) /\ Payload(m) = (h \o rest) \o t
        BY <2>8, <2>9, <3>2
      <4> HIDE DEF h
      <4>2. (h \o rest) \o t = h \o (rest \o t)
        <5>1. h \in Seq(Bytes) /\ rest \in Seq(Bytes) /\ t \in Seq(Bytes)
          BY <2>6, <3>2, <4>1
        <5> QED BY <5>1, BytesRegroup
      <4> QED BY <4>1, <4>2 DEF h
    <3>4. rest \o t \in Seq(Bytes)
      BY <2>6, ConcatProperties
    <3> QED BY <2>8, <3>3, <3>4, ConcatIsPrefix
  <2>11. messageReader = m /\ messageReader' = m /\ peer[frame] = f /\ peer' = peer /\ frame' = frame
    BY <1>3 DEF m, f
  <2>12. ASSUME Open' PROVE OpenDelivers'
    <3>1. messageReader' \in Starts'
          /\ \A i \in messageReader' + 1 .. frame' : peer'[i].op \notin {"text", "binary"}
      BY <1>3, <2>1, SameScript DEF OpenDelivers
    <3>2. readFinal' => \E i \in Conts(messageReader)' : i <= frame' /\ peer'[i].fin
      BY <1>3, <2>1, SameScript DEF OpenDelivers
    <3>3. ~readFinal' => \A i \in messageReader'..frame' : Data(i)' => ~peer'[i].fin
      BY <1>3, <2>1, SameScript DEF OpenDelivers
    <3>4. readRemaining' <= Len(peer'[frame'].body)
      BY <2>3, <2>11
    <3>5. got'[messageReader'] \o Left(peer'[frame'], readRemaining') = Part(messageReader, frame)'
      <4>1. got'[messageReader'] = had \o x /\ Left(peer'[frame'], readRemaining') = rest
        BY <2>7, <2>11 DEF rest
      <4>2. Part(messageReader, frame)' = Part(m, frame)
        BY <2>11, SameScript
      <4> QED BY <2>9, <4>1, <4>2
    <3> QED BY <1>3, <3>1, <3>2, <3>3, <3>4, <3>5 DEF OpenDelivers
  <2>13. DeliversMessages'
    <3>1. ASSUME NEW i \in DOMAIN peer', got'[i] # <<>>
          PROVE  i \in Starts' /\ IsPrefix(got'[i], Payload(i)')
      <4>1. i \in 1..Len(peer) /\ i \in DOMAIN peer /\ Starts' = Starts /\ Payload(i)' = Payload(i)
        BY <2>1, <2>11, SameScript
      <4>2. CASE i = m
        BY <2>2, <2>7, <2>10, <4>1, <4>2
      <4>3. CASE i # m
        <5>1. got'[i] = got[i]
          BY <2>7, <4>1, <4>3
        <5> QED BY <3>1, <4>1, <5>1 DEF DelivInv, DeliversMessages
      <4> QED BY <4>2, <4>3
    <3>2. ASSUME NEW i \in complete'
          PROVE  Ended(i)' /\ got'[i] = Payload(i)'
      <4>1. i \in complete /\ i # m /\ i \in 1..Len(peer)
        BY <1>5, <2>1, <3>2 DEF BaseInv, ReadTypes
      <4>2. got'[i] = got[i]
        BY <2>7, <4>1
      <4> QED BY <2>11, <4>1, <4>2, SameScript DEF DelivInv, DeliversMessages
    <3> QED BY <3>1, <3>2 DEF DeliversMessages
  <2> QED BY <1>3, <2>12, <2>13 DEF DelivInv, Delivering
<1> QED BY <1>2, <1>4, <1>5

LEMMA EndDelivers ==
    ASSUME BaseInv, InStep, DelivInv, ReadEnd
    PROVE  DelivInv'
<1>1. /\ pc = "read" /\ pc' = "idle" /\ Running /\ ~Parsing /\ ~Parsing' /\ Open /\ ~Open'
      /\ UNCHANGED <<peer, frame>> /\ readRemaining = 0 /\ readFinal
  BY DEF ReadEnd, MessageEnds, Parsing, Running, Open, BaseInv, Calm, netVars
<1>2. CASE Reject("nil", "utf8")
  <2>1. got' = got /\ complete' = complete
    BY <1>2 DEF Reject
  <2> QED BY <1>1, <2>1, NothingDelivers
<1>3. CASE complete' = complete \cup {messageReader} /\ UNCHANGED <<readErr, got, outVars>>
  <2> DEFINE m == messageReader
  <2>1. /\ m \in 1..Len(peer) /\ frame \in 1..Len(peer) /\ got[m] \in Seq(Bytes) /\ peer[frame] \in Frame
        /\ OpenDelivers /\ DOMAIN peer = 1..Len(peer) /\ Len(peer) \in Nat
    BY <1>1, OpenIs
  <2>2. PICK i \in Conts(m) : i <= frame /\ peer[i].fin
    BY <1>1, <2>1 DEF OpenDelivers
  <2>3. got[m] = Part(m, frame)
    <3>1. got[m] \o Left(peer[frame], 0) = Part(m, frame)
      BY <1>1, <2>1 DEF OpenDelivers
    <3>2. Left(peer[frame], 0) = <<>> /\ got[m] \o <<>> = got[m]
      BY <2>1, LeftIs, ConcatEmptySeq
    <3> QED BY <3>1, <3>2
  <2>4. i \in 1..Len(peer) /\ frame \in i..Len(peer) /\ Len(peer) \in i..Len(peer)
    BY <2>1, <2>2 DEF Conts
  <2>5. Part(m, frame) = Part(m, i) /\ Part(m, Len(peer)) = Part(m, i)
    BY <2>1, <2>2, <2>4, PartAfter DEF BaseInv
  <2>6. Payload(m) = Part(m, Len(peer))
    BY <2>1 DEF Payload, Part
  <2>7. Ended(m) /\ got[m] = Payload(m)
    BY <2>2, <2>3, <2>5, <2>6 DEF Ended
  <2> HIDE DEF m
  <2>8. DeliversMessages'
    <3>1. ASSUME NEW j \in DOMAIN peer', got'[j] # <<>>
          PROVE  j \in Starts' /\ IsPrefix(got'[j], Payload(j)')
      BY <1>1, <1>3, <3>1, SameScript DEF DelivInv, DeliversMessages
    <3>2. ASSUME NEW j \in complete'
          PROVE  Ended(j)' /\ got'[j] = Payload(j)'
      <4>1. CASE j \in complete
        BY <1>1, <1>3, <4>1, SameScript DEF DelivInv, DeliversMessages
      <4>2. CASE j = m
        BY <1>1, <1>3, <2>7, <4>2, SameScript
      <4> QED BY <1>3, <3>2, <4>1, <4>2 DEF m
    <3> QED BY <3>1, <3>2 DEF DeliversMessages
  <2> QED BY <1>1, <2>8 DEF DelivInv, Delivering
<1> QED BY <1>2, <1>3 DEF ReadEnd

LEMMA DelivStays ==
    ASSUME ~EOFWithData, BaseInv, BaseInv', InStep, GuardInv, DelivInv, [Next]_vars
    PROVE  DelivInv'
<1>1. CASE UNCHANGED vars \/ Arrive \/ StreamEnds \/ AppCloses
  <2>1. UNCHANGED <<peer, got, complete, messageReader, frame, readFinal, readRemaining, readErr, pc, caller>>
    BY <1>1 DEF vars, Arrive, StreamEnds, AppCloses, netVars, connVars, appVars
  <2> QED BY <2>1, NothingDelivers DEF Parsing, Open, Data, DelivInv, Delivering
<1>2. CASE NextReader
  <2>1. ~Open' /\ ~Parsing' /\ caller' = "next" /\ UNCHANGED <<peer, got, complete>>
    BY <1>2 DEF NextReader, NextReaderFails, Open, Parsing, netVars, appVars
  <2> QED BY <2>1, NothingDelivers
<1>3. CASE SkipFrame
  <2>1. pc = "skip" /\ Running /\ caller = "next" /\ messageReader = 0
    BY <1>3 DEF SkipFrame, Running, BaseInv, Calm
  <2>2. ~Open' /\ ~Parsing' /\ caller' = "next" /\ UNCHANGED <<peer, got, complete>>
    BY <1>3, <2>1 DEF SkipFrame, Open, Parsing, netVars, connVars, appVars
  <2> QED BY <2>2, NothingDelivers
<1>4. CASE ReadKey
  <2>1. /\ Running /\ Parsing
        /\ UNCHANGED <<peer, got, complete, messageReader, frame, readFinal, readRemaining>>
    BY <1>4 DEF ReadKey, Running, Parsing, netVars, appVars
  <2>2. CASE Fail("limit")
    BY <2>1, <2>2, FailsDeliver DEF Errors
  <2>3. CASE pc' = "payload" /\ UNCHANGED readErr
    BY <2>1, <2>3, NothingDelivers DEF Parsing, Open, Data, DelivInv, Delivering
  <2> QED BY <1>4, <2>2, <2>3 DEF ReadKey
<1>5. CASE ReadTimeout \/ ReadEOF \/ ReadBodyFails
  <2>1. UNCHANGED <<peer, got, complete, messageReader>>
    BY <1>5 DEF ReadTimeout, ReadEOF, ReadBodyFails, Interrupted, netVars, appVars
  <2>2. \E e \in {"timeout", "eof", "unexpectedEOF"} : Fail(e)
    BY <1>5 DEF ReadTimeout, ReadEOF, ReadBodyFails, Interrupted
  <2>3. Running
    BY <1>5, InterruptsRun DEF ReadBodyFails, Running
  <2> QED BY <2>1, <2>2, <2>3, FailsDeliver DEF Errors
<1>6. CASE Read
  <2>1. /\ UNCHANGED <<peer, got, complete, messageReader, frame, readFinal, readRemaining, readErr>>
        /\ ~Parsing /\ ~Parsing' /\ pc' # "head"
    BY <1>6 DEF Read, Parsing, netVars, connVars, appVars
  <2> QED BY <2>1, NothingDelivers DEF Open
<1>7. CASE ReadOn
  <2>1. /\ UNCHANGED <<peer, got, complete, messageReader, frame, readFinal, readRemaining, readErr>>
        /\ ~Parsing /\ ~Parsing' /\ ~readFinal /\ readRemaining = 0
    BY <1>7 DEF ReadOn, MessageEnds, Parsing, netVars, connVars, appVars
  <2> QED BY <2>1, NothingDelivers DEF Open
<1> QED BY <1>1, <1>2, <1>3, <1>4, <1>5, <1>6, <1>7, HeadDelivers, DataDelivers,
        ControlDelivers, BodyDelivers, EndDelivers DEF Next

LEMMA InitDelivers ==
    ASSUME Init
    PROVE  DelivInv
<1>1. DOMAIN peer = 1..Len(peer) /\ peer \in Seq(Frame)
  BY ScriptsAssumption, LenProperties DEF Init
<1>2. Delivering
  BY DEF Init, Delivering, Parsing, Open
<1>3. DeliversMessages
  BY <1>1 DEF Init, DeliversMessages
<1> QED BY <1>2, <1>3 DEF DelivInv

-----------------------------------------------------------------------------
(* The types of the reader's state, in every behaviour.                    *)
THEOREM ReaderInvariant == Spec => []BaseInv
<1>1. Init => BaseInv
  BY InitBase
<1>2. BaseInv /\ [Next]_vars => BaseInv'
  BY BaseStays
<1> QED BY <1>1, <1>2, PTL DEF Spec

(* The peer hears of the error that the application gets, in a close frame *)
(* that is the last frame of all; pongs answer pings, in order, none twice *)
(* (WriteControl from the handlers of conn.go 1336-1373 and 1489-1497).    *)
THEOREM PeerIsAnswered ==
    ASSUME ~EOFWithData
    PROVE  Spec => []AnswersPeer
<1>1. Init => TellInv
  BY InitTells
<1>2. BaseInv /\ BaseInv' /\ TellInv /\ [Next]_vars => TellInv'
  BY TellStays
<1>3. TellInv => AnswersPeer
  BY DEF TellInv
<1> QED BY <1>1, <1>2, <1>3, ReaderInvariant, PTL DEF Spec

LEMMA GuardInvariant ==
    ASSUME ~EOFWithData
    PROVE  Spec => []GuardInv
<1>1. Init => GuardInv
  BY InitGuards
<1>2. BaseInv /\ BaseInv' /\ GuardInv /\ [Next]_vars => GuardInv'
  BY GuardStays
<1> QED BY <1>1, <1>2, ReaderInvariant, PTL DEF Spec

(* No message delivers more than the limit, and no text message that is    *)
(* not UTF-8 ends with io.EOF, timeouts and retries included (conn.go      *)
(* 1301-1316, 1459-1477).                                                  *)
THEOREM ApplicationIsGuarded ==
    ASSUME ~EOFWithData
    PROVE  Spec => []GuardsApplication
<1>1. GuardInv => GuardsApplication
  BY DEF GuardInv
<1> QED BY <1>1, GuardInvariant, PTL

LEMMA StepInvariant ==
    ASSUME ~RetryTimeout
    PROVE  Spec => []InStep
<1>1. Init => InStep
  BY InitSteps
<1>2. BaseInv /\ InStep /\ [Next]_vars => InStep'
  BY StepStays
<1> QED BY <1>1, <1>2, ReaderInvariant, PTL DEF Spec

(* The parser reads a header only where the peer wrote one, as long as no  *)
(* call follows one that timed out (conn.go 1182-1291).                    *)
THEOREM FramesStayInStep ==
    ASSUME ~RetryTimeout
    PROVE  Spec => []FramesInStep
<1>1. BaseInv /\ InStep => FramesInStep
  BY StepHolds
<1> QED BY <1>1, ReaderInvariant, StepInvariant, PTL

(* Every message is delivered from its first byte on, and io.EOF means all *)
(* of it, for every script (conn.go 1385-1441, 1501-1546).                 *)
THEOREM MessagesAreDelivered ==
    ASSUME ~EOFWithData, ~RetryTimeout
    PROVE  Spec => []DeliversMessages
<1>1. Init => DelivInv
  BY InitDelivers
<1>2. BaseInv /\ BaseInv' /\ InStep /\ GuardInv /\ DelivInv /\ [Next]_vars => DelivInv'
  BY DelivStays
<1>3. DelivInv => DeliversMessages
  BY DEF DelivInv
<1> QED BY <1>1, <1>2, <1>3, ReaderInvariant, StepInvariant, GuardInvariant, PTL DEF Spec
=============================================================================
