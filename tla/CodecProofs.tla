------------------------------ MODULE CodecProofs ------------------------------
(***************************************************************************)
(* Algorithms of Codec, for data of any length: masking of a payload, for  *)
(* both word sizes and pieces at any address; truncWriter; the cutting of  *)
(* a message into frames, for any buffer, cap and sequence of calls; the   *)
(* UTF-8 automaton, for every sequence of bytes; and the parsers of the    *)
(* lists in headers.                                                       *)
(***************************************************************************)
EXTENDS Codec, TextProofs

(* Bytes are masked from the first to the off-th, and the position in the  *)
(* key is right for the next: words leave it alone, and are a multiple of  *)
(* the key.                                                                *)
PieceType == [len : Nat, addr : Nat]

Masked == \A i \in 1..piece.len :
    mask[i] = IF i <= off THEN <<(before + i - 1) % 4>> ELSE <<>>

MaskInv ==
    /\ word \in {4, 8} /\ maskPos \in 0..3 /\ before = maskPos
    /\ loop \in {"call", "start", "words", "tail", "done"}
    /\ piece \in PieceType /\ piece.addr < word
    /\ pos \in Nat /\ off \in Nat
    /\ loop # "call" => /\ off <= piece.len
                        /\ pos % 4 = (before + off) % 4
                        /\ DOMAIN mask = 1..piece.len
                        /\ Masked
    /\ loop = "start" => off = 0
    /\ loop = "words" => (piece.addr + off) % word = 0
    /\ loop = "done" => off = piece.len

(* A loop over single bytes.                                               *)
LEMMA SinglyMasks ==
    ASSUME MaskInv, loop # "call", NEW n \in Nat, off + n <= piece.len, MaskSingly(n),
           UNCHANGED <<word, maskPos, before, piece>>
    PROVE  /\ off' = off + n /\ pos' = pos + n
           /\ off' \in Nat /\ pos' \in Nat /\ off' <= piece.len
           /\ pos' % 4 = (before + off') % 4
           /\ DOMAIN mask' = 1..piece.len
           /\ Masked'
<1>1. off' = off + n /\ pos' = pos + n /\ off \in Nat /\ pos \in Nat /\ before \in Nat
  BY DEF MaskSingly, MaskInv
<1>2. pos % 4 = (before + off) % 4
  BY DEF MaskInv
<1>3. pos' % 4 = (before + off') % 4
  BY <1>1, <1>2
<1>4. ASSUME NEW i \in 1..piece.len
      PROVE  mask'[i] = IF i <= off' THEN <<(before + i - 1) % 4>> ELSE <<>>
  <2>0. piece.len \in Nat
    BY DEF MaskInv, PieceType
  <2>1. mask[i] = IF i <= off THEN <<(before + i - 1) % 4>> ELSE <<>>
    BY <1>4 DEF MaskInv, Masked
  <2>2. mask'[i] = IF i \in off + 1 .. off + n THEN Append(mask[i], (pos + i - 1 - off) % 4) ELSE mask[i]
    BY <1>4 DEF MaskSingly
  <2>3. CASE i \in off + 1 .. off + n
    <3>1. mask[i] = <<>> /\ i <= off'
      BY <1>1, <2>0, <2>1, <2>3
    <3>2. (pos + i - 1 - off) % 4 = (before + i - 1) % 4
      <4> DEFINE k == pos \div 4 - (before + off) \div 4
      <4>1. pos = before + off + 4 * k /\ k \in Int
        BY <1>1, <1>2
      <4> HIDE DEF k
      <4>2. pos + i - 1 - off = before + i - 1 + 4 * k
        BY <1>1, <2>0, <4>1
      <4> QED BY <1>1, <2>0, <4>1, <4>2
    <3> QED BY <2>2, <2>3, <3>1, <3>2
  <2>4. CASE i \notin off + 1 .. off + n
    BY <1>1, <2>0, <2>1, <2>2, <2>4
  <2> QED BY <2>3, <2>4
<1>5. DOMAIN mask' = 1..piece.len
  BY DEF MaskSingly
<1> QED BY <1>1, <1>3, <1>4, <1>5 DEF Masked

LEMMA PieceKeeps ==
    ASSUME MaskInv, NEW len \in Nat, NEW addr \in 0 .. word - 1, Piece(len, addr)
    PROVE  MaskInv'
<1>1. /\ UNCHANGED <<word, maskPos, before>> /\ piece' = [len |-> len, addr |-> addr]
      /\ pos' = maskPos /\ off' = 0 /\ mask' = [i \in 1..len |-> <<>>] /\ loop' = "start"
  BY DEF Piece
<1>2. piece' \in PieceType /\ piece'.addr < word /\ piece'.len = len
  BY <1>1 DEF MaskInv, PieceType
<1>3. Masked' /\ DOMAIN mask' = 1..piece'.len
  BY <1>1, <1>2 DEF Masked
<1> QED BY <1>1, <1>2, <1>3 DEF MaskInv

LEMMA SmallKeeps ==
    ASSUME MaskInv, Small
    PROVE  MaskInv'
<1>1. /\ loop = "start" /\ loop' = "done" /\ MaskSingly(piece.len)
      /\ UNCHANGED <<word, maskPos, before, piece>> /\ off = 0 /\ piece.len \in Nat
  BY DEF Small, MaskInv, PieceType
<1>2. /\ off' = piece.len /\ pos' \in Nat /\ off' <= piece.len
      /\ pos' % 4 = (before + off') % 4 /\ DOMAIN mask' = 1..piece.len /\ Masked'
  BY <1>1, SinglyMasks
<1> QED BY <1>1, <1>2 DEF MaskInv

LEMMA ToBoundaryKeeps ==
    ASSUME MaskInv, ToBoundary
    PROVE  MaskInv'
<1> DEFINE n == IF piece.addr = 0 THEN 0 ELSE word - piece.addr
<1>1. /\ loop = "start" /\ loop' = "words" /\ MaskSingly(n)
      /\ UNCHANGED <<word, maskPos, before, piece>> /\ off = 0
      /\ piece.len \in Nat /\ piece.addr \in Nat /\ piece.addr < word /\ word \in {4, 8}
      /\ piece.len >= 2 * word
  BY DEF ToBoundary, MaskInv, PieceType
<1>2. n \in Nat /\ off + n <= piece.len /\ (piece.addr + n) % word = 0
  BY <1>1
<1>3. /\ off' = n /\ pos' \in Nat /\ off' <= piece.len
      /\ pos' % 4 = (before + off') % 4 /\ DOMAIN mask' = 1..piece.len /\ Masked'
  <2> HIDE DEF n
  <2> QED BY <1>1, <1>2, SinglyMasks
<1> HIDE DEF n
<1> QED BY <1>1, <1>2, <1>3 DEF MaskInv

(* A word is masked with the key turned to the position the word starts at.*)
LEMMA WordsKeep ==
    ASSUME MaskInv, Words
    PROVE  MaskInv'
<1> DEFINE n == ((piece.len - off) \div word) * word
<1>1. /\ loop = "words" /\ loop' = "tail" /\ off' = off + n
      /\ UNCHANGED <<word, maskPos, before, piece, pos>>
      /\ mask' = [i \in 1..piece.len |-> IF i \in off + 1 .. off + n
                          THEN Append(mask[i], WordKey((i - 1 - off) % word)) ELSE mask[i]]
  BY DEF Words
<1>2. /\ off \in Nat /\ pos \in Nat /\ before \in Nat /\ word \in {4, 8} /\ piece.len \in Nat
      /\ off <= piece.len /\ pos % 4 = (before + off) % 4
  BY <1>1 DEF MaskInv, PieceType
<1>3. n \in Nat /\ n % 4 = 0 /\ off + n <= piece.len
  <2>1. CASE word = 4
    BY <1>2, <2>1
  <2>2. CASE word = 8
    BY <1>2, <2>2
  <2> QED BY <1>2, <2>1, <2>2
<1> HIDE DEF n
<1>4. pos % 4 = (before + (off + n)) % 4
  BY <1>2, <1>3
<1>5. ASSUME NEW i \in 1..piece.len
      PROVE  mask'[i] = IF i <= off + n THEN <<(before + i - 1) % 4>> ELSE <<>>
  <2>1. mask[i] = IF i <= off THEN <<(before + i - 1) % 4>> ELSE <<>>
    BY <1>1, <1>5 DEF MaskInv, Masked
  <2>2. CASE i \in off + 1 .. off + n
    <3>1. mask[i] = <<>> /\ i <= off + n
      BY <1>2, <1>3, <2>1, <2>2
    <3> DEFINE j == i - 1 - off
    <3>2. j \in Nat /\ (pos + (j % word)) % 4 = (pos + j) % 4
      <4>1. CASE word = 4
        BY <1>2, <1>3, <2>2, <4>1
      <4>2. CASE word = 8
        BY <1>2, <1>3, <2>2, <4>2
      <4> QED BY <1>2, <4>1, <4>2
    <3>3. (pos + j) % 4 = (before + i - 1) % 4
      BY <1>2, <1>3, <2>2
    <3>4. WordKey(j % word) = (before + i - 1) % 4
      <4>1. WordKey(j % word) = (pos + (j % word)) % 4
        BY DEF WordKey
      <4> HIDE DEF j
      <4> QED BY <3>2, <3>3, <4>1
    <3>5. mask'[i] = Append(mask[i], WordKey(j % word))
      BY <1>1, <1>5, <2>2
    <3> QED BY <3>1, <3>4, <3>5
  <2>3. CASE i \notin off + 1 .. off + n
    BY <1>1, <1>2, <1>3, <1>5, <2>1, <2>3
  <2> QED BY <2>2, <2>3
<1>6. DOMAIN mask' = 1..piece.len
  BY <1>1
<1>7. Masked'
  BY <1>1, <1>5 DEF Masked
<1> QED BY <1>1, <1>2, <1>3, <1>4, <1>6, <1>7 DEF MaskInv

LEMMA MaskTailKeeps ==
    ASSUME MaskInv, MaskTail
    PROVE  MaskInv'
<1> DEFINE n == piece.len - off
<1>1. /\ loop = "tail" /\ loop' = "done" /\ MaskSingly(n)
      /\ UNCHANGED <<word, maskPos, before, piece>>
      /\ piece.len \in Nat /\ off \in Nat /\ off <= piece.len
  BY DEF MaskTail, MaskInv, PieceType
<1>2. n \in Nat /\ off + n <= piece.len /\ off + n = piece.len
  BY <1>1
<1>3. /\ off' = piece.len /\ pos' \in Nat /\ off' <= piece.len
      /\ pos' % 4 = (before + off') % 4 /\ DOMAIN mask' = 1..piece.len /\ Masked'
  <2> HIDE DEF n
  <2> QED BY <1>1, <1>2, SinglyMasks
<1> HIDE DEF n
<1> QED BY <1>1, <1>3 DEF MaskInv

LEMMA MaskReturnKeeps ==
    ASSUME MaskInv, MaskReturn
    PROVE  MaskInv'
<1>1. /\ UNCHANGED word /\ maskPos' = pos % 4 /\ before' = (before + piece.len) % 4
      /\ piece' = [len |-> 0, addr |-> 0] /\ pos' = 0 /\ off' = 0 /\ loop' = "call"
  BY DEF MaskReturn
<1>2. pos % 4 = (before + piece.len) % 4 /\ pos \in Nat
  BY DEF MaskReturn, MaskInv
<1> QED BY <1>1, <1>2 DEF MaskInv, PieceType

(* Every byte is masked once with its byte of the key, for pieces of any   *)
(* length at any address (mask.go:41, conn.go:1516).                       *)
THEOREM MaskingIsExact == CodecSpec => []MasksOnce
<1>1. CodecInit => MaskInv
  <2> SUFFICES ASSUME CodecInit PROVE MaskInv
    OBVIOUS
  <2>1. word \in {4, 8} /\ maskPos = 0 /\ before = 0 /\ loop = "call"
        /\ piece = [len |-> 0, addr |-> 0] /\ pos = 0 /\ off = 0
    BY WordAssumption DEF CodecInit, MaskInit
  <2> QED BY <2>1 DEF MaskInv, PieceType
<1>2. MaskInv /\ [CodecNext]_codecVars => MaskInv'
  <2> SUFFICES ASSUME MaskInv, [CodecNext]_codecVars PROVE MaskInv'
    OBVIOUS
  <2>1. CASE UNCHANGED kvars
    BY <2>1 DEF kvars, MaskInv, Masked
  <2>2. ASSUME NEW len \in 0..MaxPiece, NEW addr \in 0 .. word - 1, Piece(len, addr) PROVE MaskInv'
    <3>1. len \in Nat
      BY WordAssumption
    <3> QED BY <2>2, <3>1, PieceKeeps
  <2>3. CASE MaskStep
    BY <2>2, <2>3, SmallKeeps, ToBoundaryKeeps, WordsKeep, MaskTailKeeps, MaskReturnKeeps DEF MaskStep
  <2> QED BY <2>1, <2>3 DEF CodecNext, codecVars
<1>3. MaskInv => MasksOnce
  <2> SUFFICES ASSUME MaskInv PROVE MasksOnce
    OBVIOUS
  <2>1. ASSUME loop = "done", NEW i \in 1..piece.len PROVE mask[i] = <<(before + i - 1) % 4>>
    <3>1. i <= off /\ mask[i] = IF i <= off THEN <<(before + i - 1) % 4>> ELSE <<>>
      BY <2>1 DEF MaskInv, Masked, PieceType
    <3> QED BY <3>1
  <2>2. loop = "words" => (piece.addr + off) % word = 0
    BY DEF MaskInv
  <2> QED BY <2>1, <2>2 DEF MasksOnce
<1> QED BY <1>1, <1>2, <1>3, PTL DEF CodecSpec
-----------------------------------------------------------------------------
(* The bytes behind the a-th up to the b-th that the compressor wrote.      *)
Span(a, b) == [i \in 1 .. b - a |-> a + i]

(* Of what was written, the first k bytes went out and the rest is held.   *)
TruncInv ==
    /\ written \in Nat
    /\ \E k \in 0..written :
          /\ sent = Span(0, k) /\ held = Span(k, written)
          /\ written - k = Lesser(written, Tail4)

LEMMA SpanIsSeq ==
    ASSUME NEW a \in Nat, NEW b \in Nat, a <= b
    PROVE  Span(a, b) \in Seq(Nat) /\ Len(Span(a, b)) = b - a
BY DEF Span

LEMMA SpanOfNothing ==
    ASSUME NEW a \in Nat
    PROVE  Span(a, a) = <<>>
<1>1. Span(a, a) \in Seq(Nat) /\ Len(Span(a, a)) = 0
  BY SpanIsSeq
<1> QED BY <1>1, EmptySeq

LEMMA SpanJoin ==
    ASSUME NEW a \in Nat, NEW b \in Nat, NEW c \in Nat, a <= b, b <= c
    PROVE  Span(a, b) \o Span(b, c) = Span(a, c)
<1> DEFINE both == Span(a, b) \o Span(b, c)
<1>1. /\ Span(a, b) \in Seq(Nat) /\ Len(Span(a, b)) = b - a
      /\ Span(b, c) \in Seq(Nat) /\ Len(Span(b, c)) = c - b
  BY SpanIsSeq
<1>2. a <= c
  OBVIOUS
<1>3. Span(a, c) \in Seq(Nat) /\ Len(Span(a, c)) = c - a
  BY <1>2, SpanIsSeq
<1>4. both \in Seq(Nat) /\ Len(both) = c - a
  BY <1>1
<1>5. ASSUME NEW i \in 1 .. c - a
      PROVE  both[i] = Span(a, c)[i]
  <2>1. both[i] = IF i <= b - a THEN Span(a, b)[i] ELSE Span(b, c)[i - (b - a)]
    <3>1. \A k \in 1 .. Len(Span(a, b)) + Len(Span(b, c)) :
             both[k] = IF k <= Len(Span(a, b)) THEN Span(a, b)[k] ELSE Span(b, c)[k - Len(Span(a, b))]
      BY <1>1, ConcatProperties, Zenon
    <3>2. Len(Span(a, b)) + Len(Span(b, c)) = c - a
      BY <1>1
    <3> HIDE DEF both
    <3> QED BY <1>1, <3>1, <3>2
  <2>2. CASE i <= b - a
    BY <2>1, <2>2 DEF Span
  <2>3. CASE ~ (i <= b - a)
    <3>1. i - (b - a) \in 1 .. c - b /\ b + (i - (b - a)) = a + i
      BY <2>3
    <3>2. Span(b, c)[i - (b - a)] = a + i /\ Span(a, c)[i] = a + i
      BY <3>1 DEF Span
    <3> QED BY <2>1, <2>3, <3>2
  <2> QED BY <2>2, <2>3
<1> HIDE DEF both
<1>6. both = Span(a, c)
  BY <1>3, <1>4, <1>5, SeqEqual
<1> QED BY <1>6 DEF both

LEMMA SpanCut ==
    ASSUME NEW a \in Nat, NEW b \in Nat, NEW c \in Nat, a <= b, b <= c
    PROVE  First(Span(a, c), b - a) = Span(a, b) /\ Behind(Span(a, c), b - a) = Span(b, c)
<1> DEFINE bytes == Span(a, c)
<1>1. a <= c
  OBVIOUS
<1>2. bytes \in Seq(Nat) /\ Len(bytes) = c - a /\ \A i \in 1 .. c - a : bytes[i] = a + i
  BY <1>1, SpanIsSeq DEF Span
<1> HIDE DEF bytes
<1>3. First(bytes, b - a) = Span(a, b)
  <2>1. SubSeq(bytes, 1, b - a) = [i \in 1 .. b - a |-> bytes[i]]
    BY <1>2
  <2>2. \A i \in 1 .. b - a : bytes[i] = a + i
    BY <1>2
  <2> QED BY <2>1, <2>2 DEF First, Span
<1>4. Behind(bytes, b - a) = Span(b, c)
  <2>1. SubSeq(bytes, b - a + 1, c - a) = [i \in 1 .. c - b |-> bytes[b - a + i]]
    BY <1>2
  <2>2. \A i \in 1 .. c - b : bytes[b - a + i] = b + i
    BY <1>2
  <2> QED BY <1>2, <2>1, <2>2 DEF Behind, Span
<1> QED BY <1>3, <1>4 DEF bytes

LEMMA TruncWriteKeeps ==
    ASSUME TruncInv, NEW len \in Nat, TruncWrite(len)
    PROVE  TruncInv'
<1> DEFINE new  == [i \in 1..len |-> written + i]
           fill == Lesser(Tail4 - Len(held), len)
<1>1. PICK k \in 0..written : /\ sent = Span(0, k) /\ held = Span(k, written)
                              /\ written - k = Lesser(written, Tail4)
  BY DEF TruncInv
<1>2. PICK next \in Nat : next = written + len
  BY DEF TruncInv
<1>3. written \in Nat /\ written' = next /\ k \in Nat /\ k <= written /\ written <= next
  BY <1>2 DEF TruncInv, TruncWrite
<1>4. new = Span(written, next)
  BY <1>2, <1>3 DEF Span
<1>5. Len(held) = written - k
  BY <1>1, <1>3, SpanIsSeq
<1>6. fill \in 0..len /\ (fill < len => fill = 4 - (written - k)) /\ (fill = len => len <= 4 - (written - k))
  BY <1>1, <1>3, <1>5 DEF Lesser, Tail4
<1>7. \/ fill = len /\ held' = held \o new /\ UNCHANGED sent
      \/ fill < len /\ Forward(held \o First(new, fill), Behind(new, fill))
  BY DEF TruncWrite
<1> HIDE DEF new, fill
<1>8. CASE fill = len /\ held' = held \o new /\ UNCHANGED sent
  <2>1. held' = Span(k, next)
    BY <1>1, <1>3, <1>4, <1>8, SpanJoin
  <2>2. next - k = Lesser(next, Tail4) /\ k \in 0..next
    BY <1>1, <1>2, <1>3, <1>6, <1>8 DEF Lesser, Tail4
  <2> QED BY <1>1, <1>3, <1>8, <2>1, <2>2 DEF TruncInv
<1>9. CASE fill < len /\ Forward(held \o First(new, fill), Behind(new, fill))
  <2> DEFINE full == held \o First(new, fill)
             rest == Behind(new, fill)
             m    == Lesser(Len(rest), Tail4)
  <2>1. PICK mid \in Nat : mid = written + fill
    BY <1>3, <1>6
  <2>2. mid = k + 4 /\ written <= mid /\ mid <= next /\ k <= mid /\ fill = mid - written
    BY <1>2, <1>3, <1>6, <1>9, <2>1
  <2>3. First(new, fill) = Span(written, mid) /\ rest = Span(mid, next)
    BY <1>3, <1>4, <2>2, SpanCut
  <2>4. full = Span(k, mid)
    <3>1. Span(k, written) \o Span(written, mid) = Span(k, mid)
      BY <1>3, <2>2, SpanJoin
    <3> QED BY <1>1, <2>3, <3>1
  <2>5. Len(rest) = next - mid
    BY <2>2, <2>3, SpanIsSeq
  <2>6. m \in 0..4 /\ m = Lesser(next - mid, 4) /\ m <= next - mid
    <3>1. next - mid \in Nat
      BY <2>2
    <3>2. m = IF next - mid < 4 THEN next - mid ELSE 4
      BY <2>5 DEF Lesser, Tail4
    <3> HIDE DEF rest, m
    <3> QED BY <3>1, <3>2 DEF Lesser
  <2>7. /\ sent' = (sent \o First(full, m)) \o First(rest, Len(rest) - m)
        /\ held' = Behind(full, m) \o Behind(rest, Len(rest) - m)
    BY <1>9 DEF Forward
  <2> HIDE DEF full, rest, m
  <2>8. PICK p \in Nat : p = k + m
    BY <1>3, <2>6
  <2>9. PICK q \in Nat : q = next - m
    BY <2>2, <2>6
  <2>10. /\ k <= p /\ p <= mid /\ p - k = m
         /\ mid <= q /\ q <= next /\ q - mid = (next - mid) - m
    BY <1>3, <2>2, <2>6, <2>8, <2>9
  <2>11. First(full, m) = Span(k, p) /\ Behind(full, m) = Span(p, mid)
    <3>1. First(full, p - k) = Span(k, p) /\ Behind(full, p - k) = Span(p, mid)
      BY <1>3, <2>4, <2>10, SpanCut
    <3> QED BY <2>10, <3>1
  <2>12. First(rest, Len(rest) - m) = Span(mid, q) /\ Behind(rest, Len(rest) - m) = Span(q, next)
    <3>1. First(rest, q - mid) = Span(mid, q) /\ Behind(rest, q - mid) = Span(q, next)
      BY <2>3, <2>10, SpanCut
    <3> QED BY <2>5, <2>10, <3>1
  <2>13. sent \o First(full, m) = Span(0, p)
    <3>1. 0 \in Nat /\ 0 <= k
      BY <1>3, <2>10
    <3>2. Span(0, k) \o Span(k, p) = Span(0, p)
      BY <1>3, <2>10, <3>1, SpanJoin
    <3> QED BY <1>1, <2>11, <3>2
  <2>14. PICK e \in Nat : e = next - 4 /\ e <= next /\ next - e = Lesser(next, Tail4)
    <3>1. next - 4 \in Nat /\ next - 4 <= next /\ next - (next - 4) = Lesser(next, Tail4)
      BY <1>3, <2>2 DEF Lesser, Tail4
    <3> QED BY <3>1
  <2>15. sent' = Span(0, e) /\ held' = Span(e, next)
    <3>1. CASE m = 4
      <4>1. p = mid /\ q = e
        BY <2>2, <2>8, <2>9, <2>14, <3>1
      <4>2. sent' = Span(0, e)
        <5>1. 0 \in Nat /\ 0 <= mid
          BY <2>10
        <5>2. Span(0, mid) \o Span(mid, q) = Span(0, q)
          BY <2>10, <5>1, SpanJoin
        <5> QED BY <2>7, <2>12, <2>13, <4>1, <5>2
      <4>3. Span(p, mid) = <<>>
        BY <4>1, SpanOfNothing
      <4>4. Span(e, next) \in Seq(Nat)
        BY <2>14, SpanIsSeq
      <4>5. <<>> \o Span(e, next) = Span(e, next)
        BY <4>4, ConcatEmptySeq
      <4>6. held' = <<>> \o Span(e, next)
        BY <2>7, <2>11, <2>12, <4>1, <4>3
      <4> QED BY <4>2, <4>5, <4>6
    <3>2. CASE m # 4
      <4>1. p = e /\ q = mid
        BY <2>2, <2>6, <2>8, <2>9, <2>14, <3>2 DEF Lesser
      <4>2. Span(mid, q) = <<>>
        BY <4>1, SpanOfNothing
      <4>3. Span(0, e) \in Seq(Nat)
        BY <2>14, SpanIsSeq
      <4>4. sent' = Span(0, e)
        <5>1. Span(0, e) \o <<>> = Span(0, e)
          BY <4>3, ConcatEmptySeq
        <5>2. sent' = Span(0, e) \o <<>>
          BY <2>7, <2>12, <2>13, <4>1, <4>2
        <5> QED BY <5>1, <5>2
      <4>5. held' = Span(e, next)
        <5>1. Span(p, mid) \o Span(mid, next) = Span(p, next)
          BY <2>2, <2>10, SpanJoin
        <5> QED BY <2>7, <2>11, <2>12, <4>1, <5>1
      <4> QED BY <4>4, <4>5
    <3> QED BY <3>1, <3>2
  <2> QED BY <1>3, <2>14, <2>15 DEF TruncInv
<1> QED BY <1>7, <1>8, <1>9

(* What went out is what was written but for its last four bytes, however  *)
(* it was cut (compression.go:224).                                        *)
THEOREM TailIsHeld == CodecSpec => []TailHeldBack
<1>1. CodecInit => TruncInv
  <2> SUFFICES ASSUME CodecInit PROVE TruncInv
    OBVIOUS
  <2>1. sent = <<>> /\ held = <<>> /\ written = 0
    BY DEF CodecInit, TruncInit
  <2>2. Span(0, 0) = <<>>
    BY SpanOfNothing
  <2>3. written \in Nat /\ 0 \in 0..written /\ written - 0 = Lesser(written, Tail4)
    BY <2>1 DEF Lesser, Tail4
  <2>4. sent = Span(0, 0) /\ held = Span(0, written)
    BY <2>1, <2>2
  <2> QED BY <2>3, <2>4 DEF TruncInv
<1>2. TruncInv /\ [CodecNext]_codecVars => TruncInv'
  <2> SUFFICES ASSUME TruncInv, [CodecNext]_codecVars PROVE TruncInv'
    OBVIOUS
  <2>1. CASE UNCHANGED tvars
    BY <2>1 DEF tvars, TruncInv
  <2>2. CASE TruncStep
    BY <2>2, TruncWriteKeeps, BytesAssumption DEF TruncStep, TruncInv
  <2> QED BY <2>1, <2>2 DEF CodecNext, codecVars
<1>3. TruncInv => TailHeldBack
  <2> SUFFICES ASSUME TruncInv PROVE TailHeldBack
    OBVIOUS
  <2>1. PICK k \in 0..written : /\ sent = Span(0, k) /\ held = Span(k, written)
                                /\ written - k = Lesser(written, Tail4)
    BY DEF TruncInv
  <2>2. written \in Nat /\ k \in Nat /\ k <= written
    BY DEF TruncInv
  <2>3. sent \o held = Span(0, written)
    <3>1. 0 \in Nat /\ 0 <= k
      BY <2>2
    <3>2. Span(0, k) \o Span(k, written) = Span(0, written)
      BY <2>2, <3>1, SpanJoin
    <3> QED BY <2>1, <3>2
  <2>4. Span(0, written) = [i \in 1..written |-> i]
    BY <2>2 DEF Span
  <2>5. Len(held) = written - k
    BY <2>1, <2>2, SpanIsSeq
  <2> QED BY <2>1, <2>3, <2>4, <2>5 DEF TailHeldBack
<1> QED BY <1>1, <1>2, <1>3, PTL DEF CodecSpec
-----------------------------------------------------------------------------
(* The frames of a message, and what they say together.                    *)
OutFrames == [op : Types \cup {"none", "cont"}, fin : BOOLEAN, rsv1 : BOOLEAN, body : Seq(Bytes)]

JoinStep(q, n) == [p \in Seq(Bytes) \X (1..n) |-> p[1] \o q[p[2]].body]

LEMMA JoinRuns ==
    ASSUME NEW q \in Seq(OutFrames), NEW n \in Nat, DOMAIN q = 1..n
    PROVE  \E run : Runs(run, n, Seq(Bytes), <<>>, JoinStep(q, n)) /\ run[n] = Joined(q)
<1> DEFINE Eq(h) == h = [S \in SUBSET (1..n) |-> IF S = {} THEN <<>> ELSE h[S \ {Max(S)}] \o q[Max(S)].body]
           it == CHOOSE h : Eq(h)
           d  == JoinStep(q, n)
<1>1. Joined(q) = it[1..n]
  BY DEF Joined, FoldLeft, MapThenFoldSet
<1>2. /\ d \in [Seq(Bytes) \X (1..n) -> Seq(Bytes)]
      /\ \A v \in Seq(Bytes), k \in 1..n : d[<<v, k>>] = v \o q[k].body
  <2>1. \A k \in 1..n : q[k].body \in Seq(Bytes)
    <3> SUFFICES ASSUME NEW k \in 1..n PROVE q[k].body \in Seq(Bytes)
      OBVIOUS
    <3>1. q[k] \in OutFrames
      BY ElementOfSeq
    <3> QED BY <3>1 DEF OutFrames
  <2>2. \A v, w \in Seq(Bytes) : v \o w \in Seq(Bytes)
    BY ConcatProperties
  <2> QED BY <2>1, <2>2 DEF JoinStep
<1> HIDE DEF d
<1>3. PICK h \in [SUBSET (1..n) -> Seq(Bytes)] : Table(h, n, <<>>, d)
  <2>1. <<>> \in Seq(Bytes)
    BY EmptySeq
  <2> QED BY <1>2, <2>1, TableExists
<1>4. Eq(h)
  <2> SUFFICES ASSUME NEW S \in SUBSET (1..n)
               PROVE  h[S] = IF S = {} THEN <<>> ELSE h[S \ {Max(S)}] \o q[Max(S)].body
    OBVIOUS
  <2>1. CASE S = {}
    BY <1>3, <2>1 DEF Table
  <2>2. CASE S # {}
    <3>1. Max(S) \in 1..n
      BY <2>2, MaxOfSome
    <3>2. h[S \ {Max(S)}] \in Seq(Bytes)
      BY <1>3
    <3>3. h[S] = d[<<h[S \ {Max(S)}], Max(S)>>]
      BY <1>3, <2>2 DEF Table
    <3> QED BY <1>2, <2>2, <3>1, <3>2, <3>3
  <2> QED BY <2>1, <2>2
<1>5. Eq(it)
  <2> HIDE DEF Eq
  <2> QED BY <1>4, Zenon
<1>6. it[{}] = <<>>
  <2>1. {} \in SUBSET (1..n)
    OBVIOUS
  <2> HIDE DEF it
  <2> QED BY <1>5, <2>1
<1>7. ASSUME NEW S \in SUBSET (1..n), S # {}, it[S \ {Max(S)}] \in Seq(Bytes)
      PROVE  it[S] = d[<<it[S \ {Max(S)}], Max(S)>>]
  <2> HIDE DEF it
  <2>1. Max(S) \in 1..n
    BY <1>7, MaxOfSome
  <2>2. it[S] = it[S \ {Max(S)}] \o q[Max(S)].body
    BY <1>5, <1>7
  <2> QED BY <1>2, <1>7, <2>1, <2>2
<1> HIDE DEF it
<1>8. \E run : Runs(run, n, Seq(Bytes), <<>>, d) /\ run[n] = it[1..n]
  <2>1. Iterates(it, n, Seq(Bytes), <<>>, d)
    BY <1>2, <1>6, <1>7, EmptySeq DEF Iterates
  <2> QED BY <2>1, TableRuns
<1> QED BY <1>1, <1>8 DEF d

LEMMA JoinedType ==
    ASSUME NEW q \in Seq(OutFrames)
    PROVE  Joined(q) \in Seq(Bytes)
<1>1. Len(q) \in Nat /\ DOMAIN q = 1 .. Len(q) /\ Len(q) \in 0 .. Len(q)
  OBVIOUS
<1>2. PICK run : Runs(run, Len(q), Seq(Bytes), <<>>, JoinStep(q, Len(q))) /\ run[Len(q)] = Joined(q)
  BY <1>1, JoinRuns
<1> QED BY <1>1, <1>2 DEF Runs

LEMMA JoinedEmpty == Joined(<<>>) = <<>>
<1>1. DOMAIN <<>> = 1..0 /\ <<>> \in Seq(OutFrames) /\ 0 \in Nat
  OBVIOUS
<1>2. PICK run : Runs(run, 0, Seq(Bytes), <<>>, JoinStep(<<>>, 0)) /\ run[0] = Joined(<<>>)
  BY <1>1, JoinRuns
<1> QED BY <1>2 DEF Runs

LEMMA JoinedAppend ==
    ASSUME NEW q \in Seq(OutFrames), NEW f \in OutFrames
    PROVE  Joined(Append(q, f)) = Joined(q) \o f.body
<1> DEFINE n == Len(q)
           p == Append(q, f)
           m == n + 1
<1>1. n \in Nat /\ m \in Nat /\ m = n + 1 /\ DOMAIN q = 1..n /\ DOMAIN p = 1..m /\ p \in Seq(OutFrames)
  BY AppendProperties
<1>2. p[m] = f /\ \A k \in 1..n : p[k] = q[k]
  OBVIOUS
<1> HIDE DEF n, m, p
<1> DEFINE d == JoinStep(q, n)
           e == JoinStep(p, m)
<1>3. PICK a : Runs(a, n, Seq(Bytes), <<>>, d) /\ a[n] = Joined(q)
  BY <1>1, JoinRuns
<1>4. PICK b : Runs(b, m, Seq(Bytes), <<>>, e) /\ b[m] = Joined(p)
  BY <1>1, JoinRuns
<1>5. \A v \in Seq(Bytes), k \in 1..n : d[<<v, k>>] = e[<<v, k>>]
  <2> SUFFICES ASSUME NEW v \in Seq(Bytes), NEW k \in 1..n PROVE d[<<v, k>>] = e[<<v, k>>]
    OBVIOUS
  <2>1. k \in 1..m
    BY <1>1
  <2> QED BY <1>2, <2>1 DEF JoinStep
<1>6. \A v \in Seq(Bytes) : e[<<v, m>>] = v \o f.body
  <2> SUFFICES ASSUME NEW v \in Seq(Bytes) PROVE e[<<v, m>>] = v \o f.body
    OBVIOUS
  <2>1. m \in 1..m
    BY <1>1
  <2>2. e[<<v, m>>] = v \o p[m].body
    BY <2>1 DEF JoinStep
  <2> QED BY <1>2, <2>2
<1> HIDE DEF d, e
<1>7. Extends(a, b, n, m, Seq(Bytes), <<>>, d, e)
  BY <1>1, <1>3, <1>4, <1>5 DEF Extends
<1>8. a[n] \in Seq(Bytes) /\ b[m] = e[<<a[n], m>>]
  BY <1>7, RunsExtend
<1> QED BY <1>3, <1>4, <1>6, <1>8 DEF p

LEMMA PrefixOfConcat ==
    ASSUME NEW S, NEW p \in Seq(S), NEW q \in Seq(S)
    PROVE  IsPrefix(p, p \o q)
<1>1. Len(p \o q) = Len(p) + Len(q) /\ Len(p) \in Nat /\ Len(q) \in Nat
  BY ConcatProperties
<1>2. p \o <<>> = p
  BY ConcatEmptySeq
<1>3. SubSeq(p \o q, 1, Len(p)) = p
  BY SubSeqOfConcat1
<1>4. SubSeq(p, 1, Len(p)) = p
  OBVIOUS
<1> QED BY <1>1, <1>3, <1>4 DEF IsPrefix

LEMMA SplitSeq ==
    ASSUME NEW S, NEW q \in Seq(S), NEW n \in Nat, n <= Len(q)
    PROVE  /\ SubSeq(q, 1, n) \in Seq(S) /\ Len(SubSeq(q, 1, n)) = n
           /\ SubSeq(q, n + 1, Len(q)) \in Seq(S)
           /\ SubSeq(q, 1, n) \o SubSeq(q, n + 1, Len(q)) = q
<1> DEFINE head == SubSeq(q, 1, n)
           rest == SubSeq(q, n + 1, Len(q))
<1>1. Len(q) \in Nat /\ \A i \in 1 .. Len(q) : q[i] \in S
  BY ElementOfSeq, LenProperties
<1>2. /\ head \in Seq(S) /\ Len(head) = n
      /\ \A i \in 1 .. n : head[i] = q[i]
  <2>1. \A i \in 1 .. n : q[i] \in S
    BY <1>1
  <2> QED BY <2>1, SubSeqProperties
<1>3. /\ rest \in Seq(S) /\ Len(rest) = Len(q) - n
      /\ \A i \in 1 .. Len(q) - n : rest[i] = q[n + i]
  <2>1. \A i \in n + 1 .. Len(q) : q[i] \in S
    BY <1>1
  <2>2. n + 1 \in Int /\ Len(q) \in Int
    BY <1>1
  <2>3. /\ rest \in Seq(S) /\ Len(rest) = IF n + 1 <= Len(q) THEN Len(q) - (n + 1) + 1 ELSE 0
        /\ \A i \in 1 .. Len(q) - (n + 1) + 1 : rest[i] = q[n + 1 + i - 1]
    BY <2>1, <2>2, SubSeqProperties
  <2> QED BY <1>1, <2>3
<1> HIDE DEF head, rest
<1>4. /\ head \o rest \in Seq(S) /\ Len(head \o rest) = n + (Len(q) - n)
      /\ \A i \in 1 .. n + (Len(q) - n) : (head \o rest)[i] = IF i <= n THEN head[i] ELSE rest[i - n]
  <2>1. head \in Seq(S) /\ rest \in Seq(S) /\ Len(head) = n /\ Len(rest) = Len(q) - n
    BY <1>2, <1>3
  <2>2. /\ head \o rest \in Seq(S) /\ Len(head \o rest) = Len(head) + Len(rest)
        /\ \A i \in 1 .. Len(head) + Len(rest) :
              (head \o rest)[i] = IF i <= Len(head) THEN head[i] ELSE rest[i - Len(head)]
    BY <2>1, ConcatProperties, Zenon
  <2> QED BY <2>1, <2>2
<1>5. \A i \in 1 .. Len(q) : (head \o rest)[i] = q[i]
  BY <1>1, <1>2, <1>3, <1>4
<1>6. Len(head \o rest) = Len(q)
  BY <1>1, <1>4
<1>7. head \o rest = q
  BY <1>4, <1>5, <1>6, SeqEqual
<1> QED BY <1>2, <1>3, <1>7 DEF head, rest

LEMMA BytesConcat ==
    ASSUME NEW p \in Seq(Bytes), NEW q \in Seq(Bytes)
    PROVE  p \o q \in Seq(Bytes) /\ p \o <<>> = p /\ <<>> \o p = p
BY ConcatProperties, ConcatEmptySeq

LEMMA BytesAssociate ==
    ASSUME NEW p \in Seq(Bytes), NEW q \in Seq(Bytes), NEW r \in Seq(Bytes)
    PROVE  (p \o q) \o r = p \o (q \o r)
BY ConcatAssociative, SMT

WriterTypes ==
    /\ conf \in Configs /\ type \in Types \cup {"none"}
    /\ buf \in Seq(Bytes) /\ pending \in Seq(Bytes) /\ given \in Seq(Bytes)
    /\ wire \in Seq(OutFrames)
    /\ first \in BOOLEAN /\ compress \in BOOLEAN /\ closing \in BOOLEAN /\ failed \in BOOLEAN
    /\ utf8State \in States
    /\ err \in {"nil", "closed", "invalidControl", "failed"}
    /\ pc \in {"idle", "write", "copy", "readFrom"}

(* Before the message begins nothing has happened; between the calls       *)
(* nothing is pending; and no loop goes on behind an error.                *)
WriterAtRest ==
    /\ type = "none" => /\ err = "nil" /\ wire = <<>> /\ buf = <<>> /\ given = <<>>
                        /\ pc = "idle" /\ utf8State = "accept" /\ ~failed
    /\ pc = "idle" => pending = <<>> /\ ~closing
    /\ err # "nil" => pc = "idle"

(* What the next frame will say follows from the frames before it.         *)
NextFrame ==
    err = "nil" => /\ first <=> wire = <<>>
                   /\ compress <=> (wire = <<>> /\ conf.compress /\ type \notin {"none", "control"})
                   /\ type = "control" => wire = <<>>

(* The validator has seen what was handed on, until it has failed.         *)
TextSeen ==
    Validated => /\ ~failed => utf8State = Utf8Run("accept", given)
                 /\ closing => Utf8Run("accept", given) = "accept"

(* The buffer never grows.                                                 *)
BufferHolds == Len(buf) <= BufSize

WriterInv == /\ WriterTypes /\ BufferHolds /\ WriterAtRest /\ NextFrame /\ FramesWellFormed
             /\ PayloadPreserved /\ TextSeen /\ OnlyValidText

(* While no error has ended it, a message is on the wire, in the buffer or *)
(* pending.                                                                *)
LEMMA GivenIsPrefixed ==
    ASSUME WriterInv, err \in {"nil", "closed"}
    PROVE  /\ Bodies \in Seq(Bytes)
           /\ given = Bodies \o (buf \o pending)
           /\ IsPrefix(Bodies, given)
<1>1. Bodies \in Seq(Bytes) /\ buf \in Seq(Bytes) /\ pending \in Seq(Bytes)
  BY JoinedType DEF WriterInv, WriterTypes, Bodies
<1>2. Bodies \o buf \o pending = given
  BY DEF WriterInv, PayloadPreserved
<1>3. given = Bodies \o (buf \o pending)
  BY <1>1, <1>2, BytesAssociate
<1>4. buf \o pending \in Seq(Bytes)
  BY <1>1, BytesConcat
<1> QED BY <1>1, <1>3, <1>4, PrefixOfConcat

(* The call ends with an error, and nothing goes out.                      *)
LEMMA FailKeeps ==
    ASSUME WriterInv, err = "nil", type # "none",
           err' \in {"invalidControl", "failed"}, pc' = "idle", pending' = <<>>, closing' = FALSE,
           UNCHANGED <<conf, type, buf, first, wire, given, utf8State>>,
           compress' \in BOOLEAN, failed' \in BOOLEAN, failed => failed'
    PROVE  WriterInv'
<1>1. err' # "nil" /\ err' # "closed"
  OBVIOUS
<1>2. WriterTypes'
  <2>1. <<>> \in Seq(Bytes)
    OBVIOUS
  <2> QED BY <1>1, <2>1 DEF WriterInv, WriterTypes
<1>6. BufferHolds' /\ WriterAtRest' /\ NextFrame'
  BY <1>1 DEF WriterInv, BufferHolds, WriterAtRest, NextFrame
<1>3. FramesWellFormed'
  BY <1>1 DEF WriterInv, FramesWellFormed
<1>4. PayloadPreserved'
  <2>1. IsPrefix(Bodies, given) /\ Bodies' = Bodies
    BY GivenIsPrefixed DEF Bodies
  <2> QED BY <1>1, <2>1 DEF PayloadPreserved
<1>5. TextSeen' /\ OnlyValidText'
  BY <1>1 DEF WriterInv, TextSeen, OnlyValidText, Validated
<1> QED BY <1>2, <1>3, <1>4, <1>5, <1>6 DEF WriterInv

(* A frame goes out with the buffer and the bytes behind it.               *)
LEMMA SendKeeps ==
    ASSUME WriterInv, err = "nil", type # "none",
           NEW final \in BOOLEAN, NEW extra \in Seq(Bytes),
           SendFrame(final, extra),
           type = "control" => final /\ Len(buf \o extra) <= MaxControl,
           UNCHANGED <<conf, type, given, utf8State>>,
           pending' \in Seq(Bytes), extra \o pending' = pending,
           pc' \in {"idle", "write", "copy", "readFrom"},
           pc' = "idle" => pending' = <<>> /\ ~closing',
           closing' => closing,
           closing' \in BOOLEAN,
           err' = IF final THEN "closed" ELSE "nil",
           err' # "nil" => pc' = "idle",
           failed' \in BOOLEAN, failed => failed',
           (err' = "closed" /\ result' = "ok" /\ Validated) => Utf8Run("accept", given) = "accept"
    PROVE  WriterInv'
<1> DEFINE f == [op |-> IF first THEN type ELSE "cont", fin |-> final,
                 rsv1 |-> compress, body |-> buf \o extra]
<1>1. wire' = Append(wire, f) /\ first' = FALSE /\ compress' = FALSE /\ buf' = <<>>
  BY DEF SendFrame
<1>2. f \in OutFrames
  BY ConcatProperties DEF WriterInv, WriterTypes, OutFrames
<1>3. f.op = (IF wire = <<>> THEN type ELSE "cont") /\ f.fin = final
      /\ f.rsv1 = (wire = <<>> /\ conf.compress /\ type # "control")
      /\ f.body = buf \o extra
  BY DEF WriterInv, NextFrame, WriterTypes, Configs
<1>4. type = "control" => wire = <<>>
  BY DEF WriterInv, NextFrame
<1> HIDE DEF f
<1>5. /\ wire \in Seq(OutFrames) /\ wire' \in Seq(OutFrames) /\ wire' # <<>>
      /\ Len(wire) \in Nat /\ Len(wire') = Len(wire) + 1
      /\ wire'[Len(wire')] = f /\ \A i \in 1 .. Len(wire) : wire'[i] = wire[i]
      /\ DOMAIN wire = 1 .. Len(wire) /\ DOMAIN wire' = 1 .. Len(wire')
      /\ wire = <<>> <=> Len(wire) = 0
  <2>1. wire \in Seq(OutFrames)
    BY DEF WriterInv, WriterTypes
  <2>2. DOMAIN wire = 1 .. Len(wire) /\ Len(wire) \in Nat
    BY <2>1
  <2>3. /\ Append(wire, f) \in Seq(OutFrames) /\ Append(wire, f) # <<>>
        /\ Len(Append(wire, f)) = Len(wire) + 1
        /\ Append(wire, f)[Len(wire) + 1] = f
        /\ \A i \in 1 .. Len(wire) : Append(wire, f)[i] = wire[i]
    BY <1>2, <2>1, AppendProperties
  <2>4. DOMAIN wire' = 1 .. Len(wire')
    BY <1>1, <2>3
  <2>5. wire = <<>> <=> Len(wire) = 0
    BY <2>1, EmptySeq
  <2> QED BY <1>1, <2>1, <2>2, <2>3, <2>4, <2>5
<1>6. WriterTypes' /\ BufferHolds' /\ WriterAtRest' /\ NextFrame'
  <2>1. <<>> \in Seq(Bytes)
    OBVIOUS
  <2>2. WriterTypes'
    BY <1>1, <1>5, <2>1 DEF WriterInv, WriterTypes
  <2>3. WriterAtRest'
    BY DEF WriterInv, WriterAtRest
  <2>4. NextFrame'
    <3> SUFFICES ASSUME err' = "nil" PROVE type # "control"
      BY <1>1, <1>5 DEF NextFrame
    <3> QED OBVIOUS
  <2>5. BufferHolds'
    BY <1>1, SizesAssumption DEF BufferHolds
  <2> QED BY <2>2, <2>3, <2>4, <2>5
<1>7. FramesWellFormed'
  <2> SUFFICES ASSUME NEW i \in DOMAIN wire'
               PROVE  /\ wire'[i].op = IF i = 1 THEN type ELSE "cont"
                      /\ wire'[i].rsv1 <=> (i = 1 /\ conf.compress /\ type # "control")
                      /\ wire'[i].fin <=> (err' = "closed" /\ i = Len(wire'))
                      /\ type = "control" => Len(wire') = 1 /\ wire'[i].fin
                                             /\ Len(wire'[i].body) <= MaxControl
    BY DEF FramesWellFormed
  <2>1. CASE i = Len(wire')
    <3>1. wire'[i] = f /\ (i = 1 <=> wire = <<>>)
      BY <1>5, <2>1
    <3>2. f.fin <=> err' = "closed"
      BY <1>3
    <3> QED BY <1>3, <1>4, <1>5, <2>1, <3>1, <3>2
  <2>2. CASE i # Len(wire')
    <3>1. i \in DOMAIN wire /\ wire'[i] = wire[i]
      BY <1>5, <2>2
    <3>2. /\ wire[i].op = IF i = 1 THEN type ELSE "cont"
          /\ wire[i].rsv1 <=> (i = 1 /\ conf.compress /\ type # "control")
          /\ ~wire[i].fin /\ type # "control"
      BY <1>4, <1>5, <3>1 DEF WriterInv, FramesWellFormed
    <3> QED BY <2>2, <3>1, <3>2
  <2> QED BY <2>1, <2>2
<1>8. PayloadPreserved'
  <2>1. given = Bodies \o (buf \o pending) /\ Bodies \in Seq(Bytes)
    BY GivenIsPrefixed
  <2>2. Bodies' = Bodies \o (buf \o extra)
    BY <1>1, <1>2, <1>3, <1>5, JoinedAppend DEF Bodies
  <2>3. buf \in Seq(Bytes) /\ buf \o extra \in Seq(Bytes)
    BY ConcatProperties DEF WriterInv, WriterTypes
  <2>4. Bodies' \in Seq(Bytes)
    BY <2>1, <2>2, <2>3, BytesConcat
  <2>5. buf \o pending = (buf \o extra) \o pending'
    BY <2>3, BytesAssociate
  <2>6. Bodies' \o pending' = Bodies \o ((buf \o extra) \o pending')
    BY <2>1, <2>2, <2>3, BytesAssociate
  <2>7. Bodies' \o buf' = Bodies'
    BY <1>1, <2>4, BytesConcat
  <2> QED BY <2>1, <2>5, <2>6, <2>7 DEF PayloadPreserved
<1>9. TextSeen' /\ OnlyValidText'
  BY DEF WriterInv, TextSeen, OnlyValidText, Validated
<1> QED BY <1>6, <1>7, <1>8, <1>9 DEF WriterInv

(* A flush: bytes from outside the buffer are all of a call, on a server,  *)
(* and a final flush has nothing left behind it.                           *)
LEMMA FlushKeeps ==
    ASSUME WriterInv, err = "nil", type # "none",
           NEW final \in BOOLEAN, NEW extra, Flush(final, extra),
           extra = <<>> \/ (extra = pending /\ conf.server),
           final => extra = <<>> /\ pending = <<>>,
           ~final => pc # "idle",
           final /\ Validated => Utf8Run("accept", given) = "accept"
    PROVE  WriterInv'
<1>1. UNCHANGED <<conf, type, utf8State, failed, given>> /\ failed \in BOOLEAN
      /\ pending \in Seq(Bytes) /\ pc \in {"idle", "write", "copy", "readFrom"} /\ closing \in BOOLEAN
      /\ compress \in BOOLEAN
  <2>1. UNCHANGED <<conf, type, utf8State, failed, given>>
    BY DEF Flush
  <2> QED BY <2>1 DEF WriterInv, WriterTypes
<1>2. <<>> \in Seq(Bytes) /\ extra \in Seq(Bytes)
  <2>1. extra = <<>> \/ extra = pending
    OBVIOUS
  <2>2. <<>> \in Seq(Bytes)
    BY EmptySeq
  <2> QED BY <1>1, <2>1, <2>2
<1>3. CASE type = "control" /\ (~final \/ Len(buf \o extra) > MaxControl)
  <2>1. End("invalidControl") /\ UNCHANGED <<first, compress, buf, wire>>
    BY <1>3 DEF Flush, FlushFrame
  <2> QED BY <1>1, <2>1, FailKeeps DEF End
<1>4. CASE ~(type = "control" /\ (~final \/ Len(buf \o extra) > MaxControl))
  <2>1. CASE compress' = FALSE /\ UNCHANGED <<first, buf, wire>> /\ End("failed")
    BY <1>1, <2>1, FailKeeps DEF End
  <2>2. CASE /\ SendFrame(final, extra)
             /\ IF final
                THEN End("closed")
                ELSE /\ pc' = IF extra = <<>> THEN pc ELSE "copy"
                     /\ pending' = IF extra = <<>> THEN pending ELSE <<>>
                     /\ UNCHANGED <<err, result, closing>>
    <3>1. type = "control" => final /\ Len(buf \o extra) <= MaxControl
      <4>1. Len(buf \o extra) \in Nat /\ MaxControl \in Nat
        BY <1>2, ConcatProperties, SizesAssumption DEF WriterInv, WriterTypes
      <4> QED BY <1>4, <4>1
    <3>2. extra \o pending' = pending /\ pending' \in Seq(Bytes)
      <4>1. pending \o <<>> = pending /\ <<>> \o pending = pending /\ <<>> \o <<>> = <<>>
        BY <1>1, <1>2, BytesConcat
      <4>2. CASE final
        BY <1>2, <2>2, <4>1, <4>2 DEF End
      <4>3. CASE ~final /\ extra = <<>>
        BY <1>1, <2>2, <4>1, <4>3
      <4>4. CASE ~final /\ extra # <<>>
        BY <1>2, <2>2, <4>1, <4>4
      <4> QED BY <4>2, <4>3, <4>4
    <3>3. /\ pc' \in {"idle", "write", "copy", "readFrom"}
          /\ pc' = "idle" => pending' = <<>> /\ ~closing'
          /\ closing' => closing
          /\ closing' \in BOOLEAN
          /\ err' = IF final THEN "closed" ELSE "nil"
          /\ err' # "nil" => pc' = "idle"
          /\ (err' = "closed" /\ result' = "ok" /\ Validated) => Utf8Run("accept", given) = "accept"
      <4>1. CASE final
        BY <2>2, <4>1 DEF End
      <4>2. CASE ~final
        BY <1>1, <2>2, <4>2
      <4> QED BY <4>1, <4>2
    <3> QED BY <1>1, <1>2, <2>2, <3>1, <3>2, <3>3, SendKeeps
  <2>3. conf.server \/ extra = <<>>
    OBVIOUS
  <2> QED BY <1>4, <2>1, <2>2, <2>3 DEF Flush, FlushFrame
<1> QED BY <1>3, <1>4

(* Some bytes move from the call into the buffer.                          *)
LEMMA FillKeeps ==
    ASSUME WriterInv, NEW n \in Nat, n <= Len(pending), n <= BufSize - Len(buf), Fill(n),
           pc # "idle"
    PROVE  WriterInv'
<1> DEFINE head == SubSeq(pending, 1, n)
           rest == SubSeq(pending, n + 1, Len(pending))
<1>1. pending \in Seq(Bytes) /\ buf \in Seq(Bytes) /\ err = "nil" /\ type # "none"
  BY DEF WriterInv, WriterTypes, WriterAtRest
<1>2. head \in Seq(Bytes) /\ rest \in Seq(Bytes) /\ head \o rest = pending
  BY <1>1, SplitSeq
<1> HIDE DEF head, rest
<1>3. buf' = buf \o head /\ pending' = rest
      /\ UNCHANGED <<conf, type, first, compress, err, utf8State, failed, pc, closing, given,
                     result, wire>>
  BY DEF Fill, head, rest
<1>4. buf' \in Seq(Bytes)
  BY <1>1, <1>2, <1>3, BytesConcat
<1>5. WriterTypes' /\ WriterAtRest' /\ NextFrame'
  BY <1>1, <1>2, <1>3, <1>4 DEF WriterInv, WriterTypes, WriterAtRest, NextFrame
<1>9. BufferHolds'
  <2>1. Len(head) = n
    BY <1>1, SplitSeq DEF head
  <2>2. Len(buf \o head) = Len(buf) + Len(head) /\ Len(buf) \in Nat
    BY <1>1, <1>2, ConcatProperties
  <2> QED BY <1>3, <2>1, <2>2, SizesAssumption DEF BufferHolds
<1>6. FramesWellFormed'
  BY <1>3 DEF WriterInv, FramesWellFormed
<1>7. PayloadPreserved'
  <2>1. Bodies \in Seq(Bytes) /\ given = Bodies \o (buf \o pending)
    BY <1>1, GivenIsPrefixed
  <2>2. buf \o (head \o rest) = (buf \o head) \o rest
    BY <1>1, <1>2, BytesAssociate
  <2>3. (Bodies \o buf') \o rest = Bodies \o (buf' \o rest)
    BY <1>2, <1>4, <2>1, BytesAssociate
  <2>4. Bodies' = Bodies
    BY <1>3 DEF Bodies
  <2> QED BY <1>1, <1>2, <1>3, <2>1, <2>2, <2>3, <2>4 DEF PayloadPreserved
<1>8. TextSeen' /\ OnlyValidText'
  BY <1>1, <1>3 DEF WriterInv, TextSeen, OnlyValidText, Validated
<1> QED BY <1>5, <1>6, <1>7, <1>8, <1>9 DEF WriterInv

LEMMA WriterBegins == ASSUME Init PROVE WriterInv
<1>1. Utf8Run("accept", <<>>) = "accept"
  BY Utf8Empty DEF States
<1>2. Joined(<<>>) = <<>> /\ <<>> \in Seq(Bytes) /\ <<>> \in Seq(OutFrames) /\ <<>> \o <<>> = <<>>
  BY JoinedEmpty, BytesConcat
<1>3. WriterTypes /\ BufferHolds /\ WriterAtRest /\ NextFrame
  <2>1. BufferHolds
    BY SizesAssumption DEF Init, BufferHolds
  <2> QED BY <1>2, <2>1 DEF Init, WriterTypes, WriterAtRest, NextFrame, States
<1>4. FramesWellFormed /\ PayloadPreserved
  BY <1>2 DEF Init, FramesWellFormed, PayloadPreserved, Bodies
<1>5. TextSeen /\ OnlyValidText
  BY DEF Init, TextSeen, OnlyValidText, Validated
<1> QED BY <1>3, <1>4, <1>5 DEF WriterInv

(* A message begins: nothing has been handed on.                           *)
LEMMA BeginKeeps ==
    ASSUME WriterInv, NextWriter
    PROVE  WriterInv'
<1>1. /\ type = "none" /\ err = "nil" /\ wire = <<>> /\ buf = <<>> /\ given = <<>> /\ pc = "idle"
      /\ utf8State = "accept" /\ ~failed /\ pending = <<>> /\ ~closing
  BY DEF NextWriter, WriterInv, WriterAtRest
<1>2. /\ type' \in Types /\ type' # "none"
      /\ compress' = (conf.compress /\ type' # "control")
      /\ UNCHANGED <<conf, buf, first, err, utf8State, failed, pc, pending, closing, given,
                     result, wire>>
  BY DEF NextWriter, Types
<1>3. Utf8Run("accept", <<>>) = "accept"
  BY Utf8Empty DEF States
<1>4. WriterTypes' /\ BufferHolds' /\ WriterAtRest' /\ NextFrame'
  <2>1. conf.compress \in BOOLEAN
    BY DEF WriterInv, WriterTypes, Configs
  <2>2. compress' \in BOOLEAN
    BY <1>2, <2>1
  <2>3. WriterTypes'
    BY <1>2, <2>2 DEF WriterInv, WriterTypes
  <2> QED BY <1>1, <1>2, <2>3 DEF WriterInv, BufferHolds, WriterAtRest, NextFrame
<1>5. FramesWellFormed' /\ PayloadPreserved'
  BY <1>1, <1>2 DEF WriterInv, FramesWellFormed, PayloadPreserved, Bodies
<1>6. TextSeen' /\ OnlyValidText'
  BY <1>1, <1>2, <1>3 DEF TextSeen, OnlyValidText, Validated
<1> QED BY <1>4, <1>5, <1>6 DEF WriterInv

(* A call takes bytes: they are all pending.                               *)
LEMMA TakeKeeps ==
    ASSUME WriterInv, type # "none", pc = "idle", err = "nil",
           NEW p \in Seq(Bytes), given' = given \o p, pending' = p,
           pc' \in {"write", "copy", "readFrom"},
           UNCHANGED <<conf, type, buf, first, compress, err, closing, wire>>,
           utf8State' \in States, failed' \in BOOLEAN,
           Validated => /\ utf8State' = Utf8Run("accept", given')
                        /\ utf8State' # "reject"
    PROVE  WriterInv'
<1>1. pending = <<>> /\ ~closing
  BY DEF WriterInv, WriterAtRest
<1>2. Bodies \in Seq(Bytes) /\ given = Bodies \o buf /\ buf \in Seq(Bytes) /\ given \in Seq(Bytes)
  <2>1. buf \in Seq(Bytes) /\ given \in Seq(Bytes)
    BY DEF WriterInv, WriterTypes
  <2>2. buf \o <<>> = buf
    BY <2>1, BytesConcat
  <2> QED BY <1>1, <2>1, <2>2, GivenIsPrefixed
<1>3. given' \in Seq(Bytes)
  BY <1>2, BytesConcat
<1>4. WriterTypes' /\ BufferHolds' /\ WriterAtRest' /\ NextFrame'
  BY <1>1, <1>3 DEF WriterInv, WriterTypes, BufferHolds, WriterAtRest, NextFrame
<1>5. FramesWellFormed'
  BY DEF WriterInv, FramesWellFormed
<1>6. PayloadPreserved'
  BY <1>2 DEF PayloadPreserved, Bodies
<1>7. TextSeen' /\ OnlyValidText'
  BY <1>1 DEF TextSeen, OnlyValidText, Validated
<1> QED BY <1>4, <1>5, <1>6, <1>7 DEF WriterInv

LEMMA WriteKeeps ==
    ASSUME WriterInv, Write
    PROVE  WriterInv'
<1>1. /\ type # "none" /\ pc = "idle" /\ err = "nil"
      /\ UNCHANGED <<conf, type, buf, first, compress, err, closing, wire>>
  BY DEF Write, Usable
<1>2. PICK p \in Pieces :
        IF Validated THEN Validate(p)
        ELSE /\ pc' = "write" /\ pending' = p /\ given' = given \o p
             /\ UNCHANGED <<utf8State, failed, result>>
  BY DEF Write
<1>3. p \in Seq(Bytes) /\ given \in Seq(Bytes) /\ utf8State \in States /\ failed \in BOOLEAN
  BY PiecesAssumption DEF WriterInv, WriterTypes
<1>4. CASE ~Validated
  BY <1>1, <1>2, <1>3, <1>4, TakeKeeps
<1>5. CASE Validated
  <2> DEFINE next == IF failed THEN "reject" ELSE Utf8Run(utf8State, p)
  <2>1. /\ utf8State' = next /\ failed' = (next = "reject")
        /\ IF failed'
           THEN result' = "utf8" /\ UNCHANGED <<pc, pending, given>>
           ELSE pc' = "write" /\ pending' = p /\ given' = given \o p /\ UNCHANGED result
    BY <1>2, <1>5 DEF Validate
  <2>2. next \in States
    BY <1>3, Utf8Type DEF States
  <2> HIDE DEF next
  <2>3. CASE failed'
    <3>1. ~closing
      BY <1>1 DEF WriterInv, WriterAtRest
    <3>2. WriterTypes' /\ BufferHolds' /\ WriterAtRest' /\ NextFrame'
      BY <1>1, <2>1, <2>2, <2>3 DEF WriterInv, WriterTypes, BufferHolds, WriterAtRest, NextFrame
    <3>3. FramesWellFormed' /\ PayloadPreserved'
      BY <1>1, <2>1, <2>3 DEF WriterInv, FramesWellFormed, PayloadPreserved, Bodies
    <3>4. TextSeen' /\ OnlyValidText'
      BY <1>1, <2>1, <2>3, <3>1 DEF WriterInv, TextSeen, OnlyValidText, Validated
    <3> QED BY <3>2, <3>3, <3>4 DEF WriterInv
  <2>4. CASE ~failed'
    <3>1. ~failed /\ next = Utf8Run(utf8State, p) /\ next # "reject" /\ failed' = FALSE
      BY <2>1, <2>4 DEF next
    <3>2. utf8State = Utf8Run("accept", given)
      BY <1>5, <3>1 DEF WriterInv, TextSeen
    <3>3. next = Utf8Run("accept", given \o p)
      BY <1>3, <3>1, <3>2, Utf8Concat DEF States
    <3> QED BY <1>1, <1>3, <1>5, <2>1, <2>2, <2>4, <3>1, <3>3, TakeKeeps
  <2> QED BY <2>3, <2>4
<1> QED BY <1>4, <1>5

LEMMA LoopKeeps ==
    ASSUME WriterInv, NEW l \in {"copy", "readFrom"}, StartLoop(l)
    PROVE  WriterInv'
<1>1. PICK p \in Pieces : pending' = p /\ given' = given \o p
  BY DEF StartLoop
<1>2. p \in Seq(Bytes) /\ utf8State \in States /\ failed \in BOOLEAN
  BY PiecesAssumption DEF WriterInv, WriterTypes
<1> QED BY <1>1, <1>2, TakeKeeps DEF StartLoop, Usable

LEMMA WriteBytesKeeps ==
    ASSUME WriterInv, WriteBytes
    PROVE  WriterInv'
<1>1. pc = "write" /\ err = "nil" /\ type # "none"
  BY DEF WriteBytes, WriterInv, WriterAtRest
<1>2. CASE FastPath(pending)
  <2>1. Flush(FALSE, pending) /\ conf.server
    BY <1>2 DEF WriteBytes, FastPath
  <2> QED BY <1>1, <2>1, FlushKeeps
<1>3. CASE ~FastPath(pending)
  <2>1. /\ pc' = "copy"
        /\ UNCHANGED <<conf, type, buf, first, compress, err, utf8State, failed, pending,
                       closing, given, result, wire>>
    BY <1>3 DEF WriteBytes
  <2>2. WriterTypes' /\ BufferHolds' /\ WriterAtRest' /\ NextFrame'
    BY <1>1, <2>1 DEF WriterInv, WriterTypes, BufferHolds, WriterAtRest, NextFrame
  <2>3. FramesWellFormed' /\ PayloadPreserved'
    BY <2>1 DEF WriterInv, FramesWellFormed, PayloadPreserved, Bodies
  <2>4. TextSeen' /\ OnlyValidText'
    BY <2>1 DEF WriterInv, TextSeen, OnlyValidText, Validated
  <2> QED BY <2>2, <2>3, <2>4 DEF WriterInv
<1> QED BY <1>2, <1>3

LEMMA RoomInBuffer ==
    ASSUME WriterInv
    PROVE  PayloadRoom \in Nat /\ PayloadRoom <= BufSize - Len(buf)
<1>1. Len(buf) \in Nat /\ BufSize \in Nat /\ Len(buf) <= BufSize
  BY SizesAssumption DEF WriterInv, WriterTypes, BufferHolds
<1>2. conf.cap \in Nat
  <2>1. conf.cap \in FrameCaps
    BY DEF WriterInv, WriterTypes, Configs
  <2> QED BY <2>1, SizesAssumption
<1> QED BY <1>1, <1>2 DEF PayloadRoom

LEMMA CopyKeeps ==
    ASSUME WriterInv, Copy
    PROVE  WriterInv'
<1>1. pc = "copy" /\ err = "nil" /\ type # "none" /\ Len(pending) \in Nat
  BY DEF Copy, WriterInv, WriterAtRest, WriterTypes
<1>2. CASE PayloadRoom = 0
  <2>1. Flush(FALSE, <<>>)
    BY <1>2 DEF Copy
  <2> QED BY <1>1, <2>1, FlushKeeps
<1>3. CASE PayloadRoom # 0
  <2> DEFINE n == IF PayloadRoom < Len(pending) THEN PayloadRoom ELSE Len(pending)
  <2>1. Fill(n)
    BY <1>3 DEF Copy
  <2>2. n \in Nat /\ n <= Len(pending) /\ n <= BufSize - Len(buf)
    <3>1. Len(buf) \in Nat /\ BufSize \in Nat
      BY SizesAssumption DEF WriterInv, WriterTypes
    <3> QED BY <1>1, <3>1, RoomInBuffer
  <2> HIDE DEF n
  <2> QED BY <1>1, <2>1, <2>2, FillKeeps
<1> QED BY <1>2, <1>3

LEMMA ReadMoreKeeps ==
    ASSUME WriterInv, ReadMore
    PROVE  WriterInv'
<1>1. pc = "readFrom" /\ err = "nil" /\ type # "none"
  BY DEF ReadMore, WriterInv, WriterAtRest
<1>2. CASE Flush(FALSE, <<>>)
  BY <1>1, <1>2, FlushKeeps
<1>3. ASSUME NEW n \in 1..PayloadRoom, n <= Len(pending), Fill(n)
      PROVE  WriterInv'
  <2>1. Len(buf) \in Nat /\ BufSize \in Nat
    BY SizesAssumption DEF WriterInv, WriterTypes
  <2>2. n \in Nat /\ n <= BufSize - Len(buf)
    BY <2>1, RoomInBuffer
  <2> QED BY <1>1, <1>3, <2>2, FillKeeps
<1> QED BY <1>2, <1>3 DEF ReadMore

LEMMA ReturnKeeps ==
    ASSUME WriterInv, Return
    PROVE  WriterInv'
<1>1. pc # "idle" /\ err = "nil" /\ type # "none" /\ pending = <<>>
  BY DEF Return, WriterInv, WriterAtRest
<1>2. CASE closing
  <2>1. Flush(TRUE, <<>>)
    BY <1>2 DEF Return
  <2>2. Validated => Utf8Run("accept", given) = "accept"
    BY <1>2 DEF WriterInv, TextSeen
  <2> QED BY <1>1, <2>1, <2>2, FlushKeeps
<1>3. CASE ~closing
  <2>1. /\ pc' = "idle"
        /\ UNCHANGED <<conf, type, buf, first, compress, err, utf8State, failed, pending,
                       closing, given, wire>>
    BY <1>3 DEF Return
  <2>2. WriterTypes' /\ BufferHolds' /\ WriterAtRest' /\ NextFrame'
    BY <1>1, <1>3, <2>1 DEF WriterInv, WriterTypes, BufferHolds, WriterAtRest, NextFrame
  <2>3. FramesWellFormed' /\ PayloadPreserved'
    BY <2>1 DEF WriterInv, FramesWellFormed, PayloadPreserved, Bodies
  <2>4. TextSeen' /\ OnlyValidText'
    BY <1>1, <2>1 DEF WriterInv, TextSeen, OnlyValidText, Validated
  <2> QED BY <2>2, <2>3, <2>4 DEF WriterInv
<1> QED BY <1>2, <1>3

LEMMA CloseKeeps ==
    ASSUME WriterInv, Close
    PROVE  WriterInv'
<1>1. pc = "idle" /\ err = "nil" /\ type # "none" /\ pending = <<>> /\ Flush(TRUE, <<>>)
  BY DEF Close, Usable, WriterInv, WriterAtRest
<1>2. Validated => Utf8Run("accept", given) = "accept"
  BY DEF Close, InvalidText, WriterInv, TextSeen
<1> QED BY <1>1, <1>2, FlushKeeps

LEMMA CloseInvalidKeeps ==
    ASSUME WriterInv, CloseInvalid
    PROVE  WriterInv'
<1>1. /\ pc = "idle" /\ err = "nil" /\ type # "none" /\ type # "control" /\ pending = <<>> /\ ~closing
      /\ failed' = TRUE /\ result' = "utf8" /\ compress' = FALSE
      /\ UNCHANGED <<conf, type, utf8State, pc, pending, closing, given>>
      /\ pc' = "idle" /\ pending' = <<>> /\ closing' = FALSE
  <2>1. closing \in BOOLEAN
    BY DEF WriterInv, WriterTypes
  <2> QED BY <2>1 DEF CloseInvalid, Usable, InvalidText, Validated, WriterInv, WriterAtRest
<1>2. CASE SendFrame(TRUE, <<>>) /\ err' = "closed"
  <2>1. <<>> \in Seq(Bytes) /\ <<>> \o pending' = pending /\ pending' \in Seq(Bytes)
    <3>1. <<>> \in Seq(Bytes)
      BY EmptySeq
    <3> QED BY <1>1, <3>1, BytesConcat
  <2> QED BY <1>1, <1>2, <2>1, SendKeeps
<1>3. CASE err' = "failed" /\ UNCHANGED <<first, buf, wire>>
  BY <1>1, <1>3, FailKeeps
<1> QED BY <1>2, <1>3 DEF CloseInvalid

LEMMA JoinedOne ==
    ASSUME NEW f \in OutFrames
    PROVE  <<f>> \in Seq(OutFrames) /\ Joined(<<f>>) = f.body
<1>1. <<>> \in Seq(OutFrames) /\ Append(<<>>, f) = <<f>>
  OBVIOUS
<1>2. f.body \in Seq(Bytes)
  BY DEF OutFrames
<1>3. Joined(Append(<<>>, f)) = Joined(<<>>) \o f.body
  BY <1>1, JoinedAppend
<1> QED BY <1>1, <1>2, <1>3, JoinedEmpty, BytesConcat

(* WriteMessage: one frame, or the first step of the slow path.            *)
LEMMA MessageKeeps ==
    ASSUME WriterInv, WriteMessage
    PROVE  WriterInv'
<1>1. /\ type = "none" /\ err = "nil" /\ wire = <<>> /\ buf = <<>> /\ given = <<>> /\ pc = "idle"
      /\ utf8State = "accept" /\ ~failed /\ pending = <<>> /\ ~closing /\ first
      /\ Bodies = <<>>
  BY JoinedEmpty DEF WriteMessage, WriterInv, WriterAtRest, NextFrame, Bodies
<1>2. type' \in Types /\ type' # "none" /\ UNCHANGED <<conf, utf8State, failed>>
  BY DEF WriteMessage, Types
<1>3. PICK p \in Pieces :
        /\ (type' = "text" /\ ~conf.skipUTF8) => Utf8Run("accept", p) = "accept"
        /\ given' = p
        /\ IF conf.server /\ ~conf.compress /\ (conf.cap = 0 \/ Len(p) <= conf.cap)
           THEN /\ IF type' = "control" /\ Len(p) > MaxControl
                   THEN End("invalidControl") /\ UNCHANGED wire
                   ELSE \/ End("failed") /\ UNCHANGED wire
                        \/ /\ End("closed")
                           /\ wire' = <<[op |-> type', fin |-> TRUE, rsv1 |-> FALSE,
                                         body |-> p]>>
                /\ UNCHANGED <<buf, first, compress>>
           ELSE /\ compress' = (conf.compress /\ type' # "control")
                /\ pc' = "write" /\ pending' = p /\ closing' = TRUE
                /\ UNCHANGED <<buf, first, err, result, wire>>
  BY DEF WriteMessage
<1>4. p \in Seq(Bytes) /\ <<>> \in Seq(Bytes) /\ <<>> \o p = p /\ p \o <<>> = p /\ IsPrefix(<<>>, p)
  <2>1. p \in Seq(Bytes) /\ <<>> \in Seq(Bytes)
    BY PiecesAssumption, EmptySeq
  <2>2. <<>> \o p = p /\ p \o <<>> = p
    BY <2>1, BytesConcat
  <2> QED BY <2>1, <2>2, PrefixOfConcat
<1>5. Validated' => Utf8Run("accept", given') = "accept"
  BY <1>2, <1>3 DEF Validated
<1>6. conf.compress \in BOOLEAN /\ compress \in BOOLEAN /\ conf \in Configs
  BY DEF WriterInv, WriterTypes, Configs
<1>7. TextSeen' /\ OnlyValidText'
  BY <1>1, <1>2, <1>5 DEF TextSeen, OnlyValidText, Validated
<1>8. CASE ~(conf.server /\ ~conf.compress /\ (conf.cap = 0 \/ Len(p) <= conf.cap))
  <2>1. /\ compress' = (conf.compress /\ type' # "control") /\ given' = p
        /\ pc' = "write" /\ pending' = p /\ closing' = TRUE
        /\ UNCHANGED <<buf, first, err, result, wire>>
    BY <1>3, <1>8
  <2>2. compress' \in BOOLEAN
    BY <1>6, <2>1
  <2>3. WriterTypes' /\ BufferHolds' /\ WriterAtRest' /\ NextFrame'
    BY <1>1, <1>2, <1>4, <2>1, <2>2 DEF WriterInv, WriterTypes, BufferHolds, WriterAtRest, NextFrame
  <2>4. FramesWellFormed' /\ PayloadPreserved'
    BY <1>1, <1>2, <1>4, <2>1 DEF FramesWellFormed, PayloadPreserved, Bodies
  <2> QED BY <1>7, <2>3, <2>4 DEF WriterInv
<1>9. CASE conf.server /\ ~conf.compress /\ (conf.cap = 0 \/ Len(p) <= conf.cap)
  <2> DEFINE f == [op |-> type', fin |-> TRUE, rsv1 |-> FALSE, body |-> p]
  <2>1. /\ UNCHANGED <<buf, first, compress>> /\ given' = p
        /\ pc' = "idle" /\ pending' = <<>> /\ closing' = FALSE
        /\ \/ err' \in {"invalidControl", "failed"} /\ wire' = wire
           \/ /\ err' = "closed" /\ wire' = <<f>>
              /\ ~(type' = "control" /\ Len(p) > MaxControl)
    BY <1>3, <1>9 DEF End
  <2>2. f \in OutFrames /\ f.op = type' /\ f.fin = TRUE /\ f.rsv1 = FALSE /\ f.body = p
    BY <1>2, <1>4 DEF OutFrames
  <2> HIDE DEF f
  <2>3. <<f>> \in Seq(OutFrames) /\ Joined(<<f>>) = p /\ DOMAIN <<f>> = {1} /\ <<f>>[1] = f
        /\ Len(<<f>>) = 1
    BY <2>2, JoinedOne
  <2>4. CASE err' \in {"invalidControl", "failed"} /\ wire' = wire
    <3>1. WriterTypes' /\ BufferHolds' /\ WriterAtRest' /\ NextFrame'
      BY <1>1, <1>2, <1>4, <2>1, <2>4 DEF WriterInv, WriterTypes, BufferHolds, WriterAtRest, NextFrame
    <3>2. FramesWellFormed' /\ PayloadPreserved'
      BY <1>1, <1>4, <2>1, <2>4 DEF FramesWellFormed, PayloadPreserved, Bodies
    <3> QED BY <1>7, <3>1, <3>2 DEF WriterInv
  <2>5. CASE /\ err' = "closed" /\ wire' = <<f>>
             /\ ~(type' = "control" /\ Len(p) > MaxControl)
    <3>1. WriterTypes' /\ BufferHolds' /\ WriterAtRest' /\ NextFrame'
      BY <1>1, <1>2, <1>4, <2>1, <2>3, <2>5 DEF WriterInv, WriterTypes, BufferHolds, WriterAtRest, NextFrame
    <3>2. FramesWellFormed'
      <4>1. Len(p) \in Nat /\ MaxControl \in Nat
        BY <1>4, SizesAssumption
      <4>2. ~conf'.compress
        BY <1>2, <1>9
      <4> QED BY <2>2, <2>3, <2>5, <4>1, <4>2 DEF FramesWellFormed
    <3>3. PayloadPreserved'
      <4>1. Bodies' = p
        BY <2>3, <2>5 DEF Bodies
      <4> QED BY <1>1, <1>4, <2>1, <2>5, <4>1 DEF PayloadPreserved
    <3> QED BY <1>7, <3>1, <3>2, <3>3 DEF WriterInv
  <2> QED BY <2>1, <2>4, <2>5
<1> QED BY <1>8, <1>9

LEMMA RestKeeps ==
    ASSUME WriterInv,
           UNCHANGED <<conf, type, buf, first, compress, err, utf8State, failed, pc, pending,
                       closing, given, wire>>,
           type = "none" \/ result' = result
    PROVE  WriterInv'
<1>1. WriterTypes' /\ BufferHolds' /\ WriterAtRest' /\ NextFrame'
  BY DEF WriterInv, WriterTypes, BufferHolds, WriterAtRest, NextFrame
<1>2. FramesWellFormed' /\ PayloadPreserved'
  BY DEF WriterInv, FramesWellFormed, PayloadPreserved, Bodies
<1>3. TextSeen' /\ OnlyValidText'
  BY DEF WriterInv, TextSeen, OnlyValidText, Validated
<1> QED BY <1>1, <1>2, <1>3 DEF WriterInv

LEMMA WriterInvariant == CodecSpec => []WriterInv
<1>1. CodecInit => WriterInv
  BY WriterBegins DEF CodecInit
<1>2. WriterInv /\ [CodecNext]_codecVars => WriterInv'
  <2> SUFFICES ASSUME WriterInv, [CodecNext]_codecVars PROVE WriterInv'
    OBVIOUS
  <2>1. CASE UNCHANGED vars
    BY <2>1, RestKeeps DEF vars
  <2>2. CASE Next
    <3>1. CASE NextWriter
      BY <3>1, BeginKeeps
    <3>2. CASE WriteMessage
      BY <3>2, MessageKeeps
    <3>3. CASE RejectMessage
      BY <3>3, RestKeeps DEF RejectMessage
    <3>4. CASE Write
      BY <3>4, WriteKeeps
    <3>5. CASE WriteString \/ ReadFrom
      BY <3>5, LoopKeeps DEF WriteString, ReadFrom
    <3>6. CASE WriteBytes
      BY <3>6, WriteBytesKeeps
    <3>7. CASE Copy
      BY <3>7, CopyKeeps
    <3>8. CASE ReadMore
      BY <3>8, ReadMoreKeeps
    <3>9. CASE Return
      BY <3>9, ReturnKeeps
    <3>10. CASE Close
      BY <3>10, CloseKeeps
    <3>11. CASE CloseInvalid
      BY <3>11, CloseInvalidKeeps
    <3> QED BY <2>2, <3>1, <3>2, <3>3, <3>4, <3>5, <3>6, <3>7, <3>8, <3>9, <3>10, <3>11 DEF Next
  <2> QED BY <2>1, <2>2 DEF CodecNext, codecVars
<1> QED BY <1>1, <1>2, PTL DEF CodecSpec

(* Whichever paths a message takes, the frames' bodies are the bytes that  *)
(* were handed to the writer, in order; after an error, a prefix of them.  *)
THEOREM PayloadIsPreserved == CodecSpec => []PayloadPreserved
<1>1. WriterInv => PayloadPreserved
  BY DEF WriterInv
<1> QED BY <1>1, WriterInvariant, PTL

(* The frames of a message parse as one message, for every buffer size,    *)
(* cap and sequence of calls.                                              *)
THEOREM FramesAreWellFormed == CodecSpec => []FramesWellFormed
<1>1. WriterInv => FramesWellFormed
  BY DEF WriterInv
<1> QED BY <1>1, WriterInvariant, PTL

(* What the validator lets through is valid text so far, and all of it is  *)
(* when Close says so.                                                     *)
THEOREM OnlyValidTextIsHandedOn == CodecSpec => []OnlyValidText
<1>1. WriterInv => OnlyValidText
  BY DEF WriterInv
<1> QED BY <1>1, WriterInvariant, PTL
-----------------------------------------------------------------------------
(* The UTF-8 automaton. Its states stand for what the bytes so far can     *)
(* still become: an interval of values, which either lies within the       *)
(* scalar values of its length, or misses them.                            *)
Byte == 0..255
Cont == 128..191

(* The powers that the table and the digits need.                          *)
LEMMA Powers ==
    /\ 64^0 = 1 /\ 64^1 = 64 /\ 64^2 = 4096 /\ 64^3 = 262144
    /\ 2^1 = 2 /\ 2^2 = 4 /\ 2^3 = 8 /\ 2^4 = 16 /\ 2^5 = 32 /\ 2^6 = 64 /\ 2^7 = 128 /\ 2^8 = 256
OBVIOUS

(* The table: which bytes each state takes, and where they lead.           *)
LEMMA ByteTypes ==
    ASSUME NEW b \in Byte
    PROVE  /\ (b < 128) => ByteType(b) = 0
           /\ (b \in 128..143) => ByteType(b) = 1
           /\ (b \in 194..223) => ByteType(b) = 2
           /\ (b \in 225..236 \/ b \in 238..239) => ByteType(b) = 3
           /\ (b = 237) => ByteType(b) = 4
           /\ (b = 244) => ByteType(b) = 5
           /\ (b \in 241..243) => ByteType(b) = 6
           /\ (b \in 160..191) => ByteType(b) = 7
           /\ (b \in 192..193 \/ b \in 245..255) => ByteType(b) = 8
           /\ (b \in 144..159) => ByteType(b) = 9
           /\ (b = 224) => ByteType(b) = 10
           /\ (b = 240) => ByteType(b) = 11
<1>0. ASSUME b < 128 PROVE ByteType(b) = 0
  BY <1>0 DEF Byte, ByteType
<1>1. ASSUME b \in 128..143 PROVE ByteType(b) = 1
  BY <1>1 DEF Byte, ByteType
<1>2. ASSUME b \in 194..223 PROVE ByteType(b) = 2
  BY <1>2 DEF Byte, ByteType
<1>3. ASSUME b \in 225..236 \/ b \in 238..239 PROVE ByteType(b) = 3
  BY <1>3 DEF Byte, ByteType
<1>4. ASSUME b = 237 PROVE ByteType(b) = 4
  BY <1>4 DEF Byte, ByteType
<1>5. ASSUME b = 244 PROVE ByteType(b) = 5
  BY <1>5 DEF Byte, ByteType
<1>6. ASSUME b \in 241..243 PROVE ByteType(b) = 6
  BY <1>6 DEF Byte, ByteType
<1>7. ASSUME b \in 160..191 PROVE ByteType(b) = 7
  BY <1>7 DEF Byte, ByteType
<1>8. ASSUME b \in 192..193 \/ b \in 245..255 PROVE ByteType(b) = 8
  BY <1>8 DEF Byte, ByteType
<1>9. ASSUME b \in 144..159 PROVE ByteType(b) = 9
  BY <1>9 DEF Byte, ByteType
<1>10. ASSUME b = 224 PROVE ByteType(b) = 10
  BY <1>10 DEF Byte, ByteType
<1>11. ASSUME b = 240 PROVE ByteType(b) = 11
  BY <1>11 DEF Byte, ByteType
<1> QED BY <1>0, <1>1, <1>2, <1>3, <1>4, <1>5, <1>6, <1>7, <1>8, <1>9, <1>10, <1>11

(* The rows of the table, but the one of utf8Reject.                       *)
LEMMA Rows ==
    ASSUME NEW t \in 0..11
    PROVE  /\ NextState(0, t) = CASE t = 0 -> 0 [] t = 2 -> 2 [] t = 3 -> 3 [] t = 4 -> 5 [] t = 5 -> 8
                                  [] t = 6 -> 7 [] t = 10 -> 4 [] t = 11 -> 6 [] OTHER -> 1
           /\ NextState(2, t) = IF t \in {1, 7, 9} THEN 0 ELSE 1
           /\ NextState(3, t) = IF t \in {1, 7, 9} THEN 2 ELSE 1
           /\ NextState(4, t) = IF t = 7 THEN 2 ELSE 1
           /\ NextState(5, t) = IF t \in {1, 9} THEN 2 ELSE 1
           /\ NextState(6, t) = IF t \in {7, 9} THEN 3 ELSE 1
           /\ NextState(7, t) = IF t \in {1, 7, 9} THEN 3 ELSE 1
           /\ NextState(8, t) = IF t = 1 THEN 3 ELSE 1
<1>1. t \in {0, 1, 2, 3, 4, 5, 6, 7, 8, 9, 10, 11}
  OBVIOUS
<1> QED BY <1>1 DEF NextState, Transitions

(* A character that any n continuation bytes complete.                     *)
Sure(c, n) ==
    /\ c \in Seq(Byte) /\ Len(c) \in 1..3 /\ Length(c[1]) = Len(c) + n
    /\ \A i \in 2..Len(c) : c[i] \in Cont
    /\ \E r \in Scalars(Length(c[1])) :
           r[1] <= Digits(c) * 64^n /\ Digits(c) * 64^n + 64^n - 1 <= r[2]

(* A whole character.                                                      *)
Whole(c) == Possible(c) /\ Len(c) = Length(c[1])

(* What each state of the automaton says of the bytes so far. After E0, ED, *)
(* F0 and F4 not every continuation is a character, so these four have a   *)
(* state each; in the others every continuation byte will do.              *)
CharInv ==
    /\ ustate \in 0..8 /\ char \in Seq(Byte)
    /\ ustate = 0 => char = <<>> \/ (Whole(char) /\ upoint = Digits(char))
    /\ ustate = 1 => char # <<>> /\ ~ Possible(char)
    /\ ustate \notin {0, 1} => upoint = Digits(char)
    /\ ustate = 2 => Sure(char, 1)
    /\ ustate = 3 => Sure(char, 2)
    /\ ustate = 7 => Sure(char, 3)
    /\ ustate = 4 => char = <<224>>
    /\ ustate = 5 => char = <<237>>
    /\ ustate = 6 => char = <<240>>
    /\ ustate = 8 => char = <<244>>

(* The sequence of one byte, and a sequence with one byte more.            *)
LEMMA OneByte ==
    ASSUME NEW b \in Byte
    PROVE  <<b>> \in Seq(Byte) /\ Len(<<b>>) = 1 /\ <<b>>[1] = b /\ <<b>> # <<>>
OBVIOUS

LEMMA LongerIs ==
    ASSUME NEW c \in Seq(Byte), NEW b \in Byte
    PROVE  /\ Append(c, b) \in Seq(Byte) /\ Len(Append(c, b)) = Len(c) + 1 /\ Len(c) \in Nat
           /\ \A i \in 1..Len(c) : Append(c, b)[i] = c[i]
           /\ Append(c, b)[Len(c) + 1] = b /\ Append(c, b) # <<>>
           /\ \A i \in 1..Len(c) : c[i] \in Byte
<1>1. Append(c, b) \in Seq(Byte) /\ Len(Append(c, b)) = Len(c) + 1 /\ Len(c) \in Nat
  BY AppendProperties, LenProperties
<1> QED BY <1>1, AppendProperties, ElementOfSeq

(* The definition of UTF-8 by ranges of the first byte, and the intervals  *)
(* of scalar values as sets.                                               *)
LEMMA LengthIs ==
    ASSUME NEW b \in Byte
    PROVE  /\ Length(b) \in 0..4
           /\ b < 128 => Length(b) = 1 /\ Lead(b) = b
           /\ b \in 192..223 => Length(b) = 2 /\ Lead(b) = b - 192
           /\ b \in 224..239 => Length(b) = 3 /\ Lead(b) = b - 224
           /\ b \in 240..247 => Length(b) = 4 /\ Lead(b) = b - 240
           /\ b \in 128..191 \/ b > 247 => Length(b) = 0
           /\ Lead(b) \in Int
<1>1. CASE b < 128
  BY <1>1 DEF Byte, Length, Lead
<1>2. CASE b \in 128..191 \/ b > 247
  BY <1>2 DEF Byte, Length, Lead
<1>3. CASE b \in 192..223
  BY <1>3 DEF Byte, Length, Lead
<1>4. CASE b \in 224..239
  BY <1>4 DEF Byte, Length, Lead
<1>5. CASE b \in 240..247
  BY <1>5 DEF Byte, Length, Lead
<1> QED BY <1>1, <1>2, <1>3, <1>4, <1>5 DEF Byte

LEMMA ScalarsAre ==
    /\ Scalars(1) = {<<0, 127>>} /\ Scalars(2) = {<<128, 2047>>}
    /\ Scalars(3) = {<<2048, 55295>>, <<57344, 65535>>}
    /\ Scalars(4) = {<<65536, 1114111>>} /\ Scalars(0) = {}
BY DEF Scalars

(* Arithmetic of the digits, for numbers that are not bytes of a sequence. *)
LEMMA Rearranged ==
    ASSUME NEW x \in Int, NEW b \in Int
    PROVE  /\ x * 64 + b - 128 = x * 64 + (b - 128)
           /\ \A y \in Int :
                 /\ x * 4096 + (y - 128) * 64 + b - 128 = (x * 64 + y - 128) * 64 + (b - 128)
                 /\ x * 64 + y - 128 \in Int
           /\ \A y, z \in Int :
                 /\ x * 262144 + (y - 128) * 4096 + (z - 128) * 64 + b - 128
                       = (x * 4096 + (y - 128) * 64 + z - 128) * 64 + (b - 128)
                 /\ x * 4096 + (y - 128) * 64 + z - 128 \in Int
OBVIOUS

(* OneByte more byte of a character that has begun.                            *)
LEMMA DigitsGrow ==
    ASSUME NEW c \in Seq(Byte), Len(c) \in 1..3, NEW b \in Byte
    PROVE  Digits(Append(c, b)) = Digits(c) * 64 + (b - 128) /\ Digits(c) \in Int
<1> DEFINE t == Append(c, b)
<1>1. /\ Len(t) = Len(c) + 1 /\ t[Len(c) + 1] = b
      /\ \A i \in 1..Len(c) : t[i] = c[i] /\ c[i] \in Byte
  BY LongerIs
<1> SUFFICES Digits(t) = Digits(c) * 64 + (b - 128) /\ Digits(c) \in Int
  OBVIOUS
<1> HIDE DEF t
<1>2. Lead(c[1]) \in Int /\ t[1] = c[1]
  <2>1. c[1] \in Byte /\ t[1] = c[1]
    BY <1>1
  <2> QED BY <2>1, LengthIs
<1>3. b \in Int
  BY DEF Byte
<1> DEFINE x == Lead(c[1])
<1>4. CASE Len(c) = 1
  <2>1. Digits(c) = x /\ Digits(t) = x * 64 + b - 128
    BY <1>1, <1>2, <1>4 DEF Digits
  <2> HIDE DEF x
  <2>2. x * 64 + b - 128 = x * 64 + (b - 128) /\ x \in Int
    BY <1>2, <1>3, Rearranged DEF x
  <2> QED BY <2>1, <2>2, SMT
<1>5. CASE Len(c) = 2
  <2> DEFINE y == c[2]
  <2>1. t[2] = y /\ t[3] = b /\ y \in Int /\ Len(t) = 3
    <3>1. 2 \in 1..Len(c) /\ Len(c) + 1 = 3
      BY <1>5
    <3>2. t[2] = c[2] /\ c[2] \in Byte
      BY <1>1, <3>1
    <3>3. t[3] = b /\ Len(t) = 3
      <4>1. t[Len(c) + 1] = b /\ Len(t) = Len(c) + 1
        BY <1>1
      <4> QED BY <1>5, <4>1
    <3>4. \A v \in Byte : v \in Int
      BY DEF Byte
    <3> QED BY <3>2, <3>3, <3>4
  <2>2. Digits(c) = x * 64 + y - 128 /\ Digits(t) = x * 4096 + (y - 128) * 64 + b - 128
    BY <1>2, <1>5, <2>1 DEF Digits
  <2>3. x \in Int
    BY <1>2
  <2> HIDE DEF x, y
  <2>4. /\ x * 4096 + (y - 128) * 64 + b - 128 = (x * 64 + y - 128) * 64 + (b - 128)
        /\ x * 64 + y - 128 \in Int
    BY <1>3, <2>1, <2>3, Rearranged
  <2> QED BY <2>2, <2>4, SMT
<1>6. CASE Len(c) = 3
  <2> DEFINE y == c[2]
             z == c[3]
  <2>1. t[2] = y /\ t[3] = z /\ t[4] = b /\ y \in Int /\ z \in Int /\ Len(t) = 4
    <3>1. 2 \in 1..Len(c) /\ 3 \in 1..Len(c) /\ Len(c) + 1 = 4
      BY <1>6
    <3>2. t[2] = c[2] /\ t[3] = c[3] /\ c[2] \in Byte /\ c[3] \in Byte
      BY <1>1, <3>1
    <3>3. t[4] = b /\ Len(t) = 4
      <4>1. t[Len(c) + 1] = b /\ Len(t) = Len(c) + 1
        BY <1>1
      <4> QED BY <1>6, <4>1
    <3>4. \A v \in Byte : v \in Int
      BY DEF Byte
    <3> QED BY <3>2, <3>3, <3>4
  <2>2. /\ Digits(c) = x * 4096 + (y - 128) * 64 + z - 128
        /\ Digits(t) = x * 262144 + (y - 128) * 4096 + (z - 128) * 64 + b - 128
    BY <1>2, <1>6, <2>1 DEF Digits
  <2>3. x \in Int
    BY <1>2
  <2> HIDE DEF x, y, z
  <2>4. /\ x * 262144 + (y - 128) * 4096 + (z - 128) * 64 + b - 128
              = (x * 4096 + (y - 128) * 64 + z - 128) * 64 + (b - 128)
        /\ x * 4096 + (y - 128) * 64 + z - 128 \in Int
    BY <1>3, <2>1, <2>3, Rearranged
  <2> QED BY <2>2, <2>4, SMT
<1> QED BY <1>4, <1>5, <1>6

(* A byte that is no continuation byte ends every hope of a character.     *)
LEMMA NotAContinuation ==
    ASSUME NEW c \in Seq(Byte), c # <<>>, NEW b \in Byte \ Cont
    PROVE  ~ Possible(Append(c, b)) /\ Append(c, b) # <<>>
<1> DEFINE t == Append(c, b)
<1>1. Len(t) = Len(c) + 1 /\ t[Len(c) + 1] = b /\ Len(c) \in Nat /\ t # <<>>
  BY LongerIs
<1>2. Len(c) # 0 /\ b \notin 128..191
  BY EmptySeq DEF Cont
<1> HIDE DEF t
<1>3. ~ Possible(t)
  <2>1. Len(c) + 1 \in 2..Len(t)
    BY <1>1, <1>2
  <2> QED BY <1>1, <1>2, <2>1 DEF Possible
<1> QED BY <1>1, <1>3 DEF t

(* Powers of 64, and the types of the intervals.                           *)
LEMMA PowerIs ==
    ASSUME NEW n \in 0..3
    PROVE  /\ 64^n \in Nat /\ 64^n >= 1
           /\ n # 0 => 64^n = 64 * 64^(n - 1)
<1>1. n = 0 \/ n = 1 \/ n = 2 \/ n = 3
  OBVIOUS
<1>2. CASE n = 0
  BY <1>2, Powers
<1>3. CASE n = 1
  BY <1>3, Powers
<1>4. CASE n = 2
  BY <1>4, Powers
<1>5. CASE n = 3
  BY <1>5, Powers
<1> QED BY <1>1, <1>2, <1>3, <1>4, <1>5

LEMMA ScalarsAreInts ==
    ASSUME NEW n \in 0..4, NEW r \in Scalars(n)
    PROVE  r[1] \in Int /\ r[2] \in Int
<1>1. n = 0 \/ n = 1 \/ n = 2 \/ n = 3 \/ n = 4
  OBVIOUS
<1> QED BY <1>1, ScalarsAre

(* What Sure says of the bytes, the values and the numbers in it.          *)
LEMMA SureIs ==
    ASSUME NEW n \in 0..3, NEW c, Sure(c, n)
    PROVE  /\ c \in Seq(Byte) /\ c # <<>> /\ Len(c) \in 1..3 /\ Digits(c) \in Int
           /\ c[1] \in Byte /\ Length(c[1]) \in 0..4
           /\ Length(c[1]) - Len(c) = n /\ 64^n \in Nat /\ 64^n >= 1
<1>1. c \in Seq(Byte) /\ Len(c) \in 1..3 /\ Length(c[1]) = Len(c) + n
  BY DEF Sure
<1>2. 1 \in 1..Len(c) /\ c # <<>>
  BY <1>1, EmptySeq
<1>3. c[1] \in Byte
  BY <1>1, <1>2, ElementOfSeq
<1>4. Length(c[1]) \in 0..4
  BY <1>3, LengthIs
<1>5. Digits(c) \in Int
  <2>1. 0 \in Byte
    BY DEF Byte
  <2> QED BY <1>1, <2>1, DigitsGrow
<1>6. Length(c[1]) - Len(c) = n
  BY <1>1
<1>7. 64^n \in Nat /\ 64^n >= 1
  BY PowerIs
<1> QED BY <1>1, <1>2, <1>3, <1>4, <1>5, <1>6, <1>7

(* What is sure is possible.                                               *)
LEMMA SureIsPossible ==
    ASSUME NEW n \in 0..3, NEW c, Sure(c, n)
    PROVE  Possible(c)
<1> DEFINE D == Digits(c)
           U == 64^n
<1>1. D \in Int /\ U \in Nat /\ U >= 1 /\ Unit(c) = U /\ Len(c) <= Length(c[1])
  <2>1. Length(c[1]) - Len(c) = n
    BY SureIs
  <2>2. Len(c) <= Length(c[1])
    BY <2>1, SureIs
  <2> QED BY <2>1, <2>2, SureIs DEF Unit
<1>2. PICK r \in Scalars(Length(c[1])) : r[1] <= D * U /\ D * U + U - 1 <= r[2]
  BY DEF Sure
<1>3. r[1] \in Int /\ r[2] \in Int
  BY SureIs, ScalarsAreInts
<1>4. D * U \in Int
  BY <1>1
<1>5. D * U <= r[2] /\ D * U + U - 1 >= r[1]
  <2> DEFINE v == D * U
  <2>1. v \in Int /\ U \in Nat /\ U >= 1 /\ r[1] <= v /\ v + U - 1 <= r[2]
    BY <1>1, <1>2, <1>4
  <2> HIDE DEF v, U
  <2>2. v <= r[2] /\ v + U - 1 >= r[1]
    BY <1>3, <2>1
  <2> QED BY <2>2 DEF v
<1>6. \A i \in 2..Len(c) : c[i] \in 128..191
  BY DEF Sure, Cont
<1> QED BY <1>1, <1>2, <1>5, <1>6 DEF Possible

(* A continuation byte takes a sure beginning to one that needs one less,  *)
(* and at last to a whole character.                                       *)
LEMMA SureGrows ==
    ASSUME NEW n \in 1..3, NEW c, Sure(c, n), NEW b \in Cont
    PROVE  LET t == Append(c, b)
           IN  /\ Digits(t) = Digits(c) * 64 + (b - 128)
               /\ t # <<>> /\ t \in Seq(Byte)
               /\ n # 1 => Sure(t, n - 1)
               /\ n = 1 => Whole(t)
<1> DEFINE t == Append(c, b)
           m == n - 1
           W == 64^m
           D == Digits(c)
           d == b - 128
<1>1. /\ c \in Seq(Byte) /\ Len(c) \in 1..3 /\ D \in Int /\ Length(c[1]) \in 0..4
      /\ Length(c[1]) = Len(c) + n /\ b \in Byte /\ m \in 0..2 /\ d \in 0..63
  <2>1. b \in Byte /\ d \in 0..63
    BY DEF Cont, Byte
  <2>2. m \in 0..2
    OBVIOUS
  <2>3. Length(c[1]) = Len(c) + n
    BY DEF Sure
  <2> QED BY <2>1, <2>2, <2>3, SureIs
<1>2. /\ t \in Seq(Byte) /\ t # <<>> /\ Len(t) = Len(c) + 1 /\ t[Len(c) + 1] = b
      /\ \A i \in 1..Len(c) : t[i] = c[i]
  BY <1>1, LongerIs
<1>3. Digits(t) = D * 64 + d
  BY <1>1, DigitsGrow
<1> HIDE DEF t
<1>4. t[1] = c[1] /\ Length(t[1]) = Len(t) + m /\ Len(t) \in 2..4
  <2>1. t[1] = c[1]
    BY <1>1, <1>2
  <2> QED BY <1>1, <1>2, <2>1
<1>5. \A i \in 2..Len(t) : t[i] \in Cont
  <2> SUFFICES ASSUME NEW i \in 2..Len(t) PROVE t[i] \in Cont
    OBVIOUS
  <2>1. CASE i = Len(c) + 1
    BY <1>2, <2>1
  <2>2. CASE i # Len(c) + 1
    <3>1. i \in 2..Len(c) /\ i \in 1..Len(c)
      BY <1>1, <1>2, <2>2
    <3> QED BY <1>2, <3>1 DEF Sure
  <2> QED BY <2>1, <2>2
<1>6. W \in Nat /\ W >= 1 /\ 64^n = 64 * W
  <2>1. m \in 0..3 /\ n \in 0..3 /\ n # 0
    BY <1>1
  <2> QED BY <2>1, PowerIs
<1>7. PICK r \in Scalars(Length(c[1])) : r[1] <= D * 64^n /\ D * 64^n + 64^n - 1 <= r[2]
  BY DEF Sure
<1>8. r[1] \in Int /\ r[2] \in Int
  BY <1>1, ScalarsAreInts
<1>9. r[1] <= (D * 64 + d) * W /\ (D * 64 + d) * W + W - 1 <= r[2]
  <2>1. W = 1 \/ W = 64 \/ W = 4096
    <3>1. m = 0 \/ m = 1 \/ m = 2
      BY <1>1
    <3>2. CASE m = 0
      BY <3>2, Powers
    <3>3. CASE m = 1
      BY <3>3, Powers
    <3>4. CASE m = 2
      BY <3>4, Powers
    <3> QED BY <3>1, <3>2, <3>3, <3>4
  <2>2. r[1] <= D * (64 * W) /\ D * (64 * W) + 64 * W - 1 <= r[2]
    BY <1>6, <1>7
  <2> HIDE DEF W, D, d
  <2>3. CASE W = 1
    BY <1>1, <1>8, <2>2, <2>3
  <2>4. CASE W = 64
    BY <1>1, <1>8, <2>2, <2>4
  <2>5. CASE W = 4096
    BY <1>1, <1>8, <2>2, <2>5
  <2> QED BY <2>1, <2>3, <2>4, <2>5
<1>10. \E q \in Scalars(Length(t[1])) : q[1] <= Digits(t) * W /\ Digits(t) * W + W - 1 <= q[2]
  BY <1>3, <1>4, <1>7, <1>9
<1>11. n # 1 => Sure(t, n - 1)
  <2> SUFFICES ASSUME n # 1 PROVE Sure(t, m)
    OBVIOUS
  <2>1. Len(t) \in 1..3
    BY <1>1, <1>2, <1>4
  <2> QED BY <1>2, <1>4, <1>5, <1>10, <2>1 DEF Sure
<1>12. n = 1 => Whole(t)
  <2> SUFFICES ASSUME n = 1 PROVE Whole(t)
    OBVIOUS
  <2>1. Len(t) = Length(t[1]) /\ Unit(t) = 1 /\ W = 1
    <3>1. m = 0
      OBVIOUS
    <3>2. Len(t) = Length(t[1]) /\ Length(t[1]) - Len(t) = 0
      BY <1>4, <3>1
    <3>3. W = 1
      BY <3>1, Powers
    <3>4. Unit(t) = 64^0
      <4> HIDE DEF W, m
      <4> QED BY <3>2, Zenon DEF Unit
    <3> QED BY <3>2, <3>3, <3>4, Powers
  <2>2. \E q \in Scalars(Length(t[1])) :
            Digits(t) * Unit(t) <= q[2] /\ Digits(t) * Unit(t) + Unit(t) - 1 >= q[1]
    <3>1. PICK q \in Scalars(Length(t[1])) : q[1] <= Digits(t) * 1 /\ Digits(t) * 1 + 1 - 1 <= q[2]
      BY <1>10, <2>1
    <3>2. q[1] \in Int /\ q[2] \in Int /\ Digits(t) \in Int
      <4>1. q[1] \in Int /\ q[2] \in Int
        <5>1. Length(t[1]) \in 0..4
          BY <1>1, <1>4
        <5> QED BY <3>1, <5>1, ScalarsAreInts
      <4>2. Digits(t) \in Int
        <5> HIDE DEF D, d
        <5> QED BY <1>1, <1>3
      <4> QED BY <4>1, <4>2
    <3>3. Digits(t) * 1 <= q[2] /\ Digits(t) * 1 + 1 - 1 >= q[1]
      BY <3>1, <3>2
    <3> QED BY <2>1, <3>3
  <2>3. \A i \in 2..Len(t) : t[i] \in 128..191
    BY <1>5 DEF Cont
  <2> QED BY <1>4, <2>1, <2>2, <2>3 DEF Whole, Possible
<1> QED BY <1>2, <1>3, <1>11, <1>12 DEF t

(* Where an interval of values meets the scalar values of each length.     *)
LEMMA Ranges ==
    ASSUME NEW lo \in Int, NEW hi \in Int
    PROVE  /\ lo <= 127 /\ hi >= 0 => \E r \in Scalars(1) : lo <= r[2] /\ hi >= r[1]
           /\ 128 <= lo /\ hi <= 2047 => \E r \in Scalars(2) : r[1] <= lo /\ hi <= r[2]
           /\ (2048 <= lo /\ hi <= 55295) \/ (57344 <= lo /\ hi <= 65535)
                  => \E r \in Scalars(3) : r[1] <= lo /\ hi <= r[2]
           /\ 65536 <= lo /\ hi <= 1114111 => \E r \in Scalars(4) : r[1] <= lo /\ hi <= r[2]
           /\ hi < 128 => \A r \in Scalars(2) : ~ (lo <= r[2] /\ hi >= r[1])
           /\ hi < 2048 \/ (55295 < lo /\ hi < 57344)
                  => \A r \in Scalars(3) : ~ (lo <= r[2] /\ hi >= r[1])
           /\ hi < 65536 \/ 1114111 < lo => \A r \in Scalars(4) : ~ (lo <= r[2] /\ hi >= r[1])
<1>1. lo <= 127 /\ hi >= 0 => \E r \in Scalars(1) : lo <= r[2] /\ hi >= r[1]
  <2> DEFINE q == <<0, 127>>
  <2>1. q \in Scalars(1) /\ q[1] = 0 /\ q[2] = 127
    BY ScalarsAre
  <2> HIDE DEF q
  <2> QED BY <2>1
<1>2. 128 <= lo /\ hi <= 2047 => \E r \in Scalars(2) : r[1] <= lo /\ hi <= r[2]
  <2> DEFINE q == <<128, 2047>>
  <2>1. q \in Scalars(2) /\ q[1] = 128 /\ q[2] = 2047
    BY ScalarsAre
  <2> HIDE DEF q
  <2> QED BY <2>1
<1>3. 2048 <= lo /\ hi <= 55295 => \E r \in Scalars(3) : r[1] <= lo /\ hi <= r[2]
  <2> DEFINE q == <<2048, 55295>>
  <2>1. q \in Scalars(3) /\ q[1] = 2048 /\ q[2] = 55295
    BY ScalarsAre
  <2> HIDE DEF q
  <2> QED BY <2>1
<1>4. 57344 <= lo /\ hi <= 65535 => \E r \in Scalars(3) : r[1] <= lo /\ hi <= r[2]
  <2> DEFINE q == <<57344, 65535>>
  <2>1. q \in Scalars(3) /\ q[1] = 57344 /\ q[2] = 65535
    BY ScalarsAre
  <2> HIDE DEF q
  <2> QED BY <2>1
<1>5. 65536 <= lo /\ hi <= 1114111 => \E r \in Scalars(4) : r[1] <= lo /\ hi <= r[2]
  <2> DEFINE q == <<65536, 1114111>>
  <2>1. q \in Scalars(4) /\ q[1] = 65536 /\ q[2] = 1114111
    BY ScalarsAre
  <2> HIDE DEF q
  <2> QED BY <2>1
<1>6. hi < 128 => \A r \in Scalars(2) : ~ (lo <= r[2] /\ hi >= r[1])
  BY ScalarsAre
<1>7. hi < 2048 \/ (55295 < lo /\ hi < 57344) => \A r \in Scalars(3) : ~ (lo <= r[2] /\ hi >= r[1])
  BY ScalarsAre
<1>8. hi < 65536 \/ 1114111 < lo => \A r \in Scalars(4) : ~ (lo <= r[2] /\ hi >= r[1])
  BY ScalarsAre
<1> QED BY <1>1, <1>2, <1>3, <1>4, <1>5, <1>6, <1>7, <1>8

(* A character of one byte, or the first byte of a longer one.             *)
LEMMA FirstByte ==
    ASSUME NEW b \in Byte
    PROVE  LET c == <<b>>
           IN  /\ c \in Seq(Byte) /\ c # <<>> /\ Digits(c) = Lead(b)
               /\ b < 128 => Whole(c)
               /\ b \in 194..223 => Sure(c, 1)
               /\ b \in 225..236 \/ b \in 238..239 => Sure(c, 2)
               /\ b \in 241..243 => Sure(c, 3)
               /\ b \in 128..193 \/ b \in 245..255 => ~ Possible(c)
<1> DEFINE c == <<b>>
<1>1. c \in Seq(Byte) /\ c # <<>> /\ Len(c) = 1 /\ c[1] = b
  BY OneByte
<1> HIDE DEF c
<1>2. Digits(c) = Lead(b) /\ Lead(b) \in Int
  BY <1>1, LengthIs DEF Digits
<1>3. \A i \in 2..Len(c) : FALSE
  BY <1>1
<1>4. ASSUME b < 128 PROVE Whole(c)
  <2>1. Length(b) = 1 /\ Lead(b) = b
    BY <1>4, LengthIs
  <2>2. Unit(c) = 1
    <3>1. Length(c[1]) - Len(c) = 0
      BY <1>1, <2>1
    <3>2. Unit(c) = 64^0
      BY <3>1, Zenon DEF Unit
    <3> QED BY <3>2, Powers
  <2>3. \E r \in Scalars(1) : b * 1 <= r[2] /\ b * 1 + 1 - 1 >= r[1]
    <3> DEFINE lo == b * 1
               hi == b * 1 + 1 - 1
    <3>1. lo \in Int /\ hi \in Int /\ lo <= 127 /\ hi >= 0
      BY <1>4 DEF Byte
    <3> HIDE DEF lo, hi
    <3>2. \E r \in Scalars(1) : lo <= r[2] /\ hi >= r[1]
      BY <3>1, Ranges
    <3> QED BY <3>2 DEF lo, hi
  <2> QED BY <1>1, <1>2, <1>3, <2>1, <2>2, <2>3 DEF Whole, Possible
<1>5. ASSUME NEW n \in 1..3, Length(b) = n + 1,
             \E r \in Scalars(n + 1) : r[1] <= Lead(b) * 64^n /\ Lead(b) * 64^n + 64^n - 1 <= r[2]
      PROVE  Sure(c, n)
  BY <1>1, <1>2, <1>3, <1>5 DEF Sure
<1>6. ASSUME b \in 194..223 PROVE Sure(c, 1)
  <2>1. Length(b) = 2 /\ Lead(b) = b - 192
    BY <1>6, LengthIs
  <2>2. \E r \in Scalars(2) : r[1] <= Lead(b) * 64 /\ Lead(b) * 64 + 64 - 1 <= r[2]
    <3> DEFINE lo == Lead(b) * 64
               hi == Lead(b) * 64 + 64 - 1
    <3>1. lo \in Int /\ hi \in Int /\ 128 <= lo /\ hi <= 2047
      BY <1>6, <2>1
    <3> HIDE DEF lo, hi
    <3>2. \E r \in Scalars(2) : r[1] <= lo /\ hi <= r[2]
      BY <3>1, Ranges
    <3> QED BY <3>2 DEF lo, hi
  <2> QED BY <1>5, <2>1, <2>2, Powers
<1>7. ASSUME b \in 225..236 \/ b \in 238..239 PROVE Sure(c, 2)
  <2>1. Length(b) = 3 /\ Lead(b) = b - 224
    BY <1>7, LengthIs
  <2>2. \E r \in Scalars(3) : r[1] <= Lead(b) * 4096 /\ Lead(b) * 4096 + 4096 - 1 <= r[2]
    <3> DEFINE lo == Lead(b) * 4096
               hi == Lead(b) * 4096 + 4096 - 1
    <3>1. lo \in Int /\ hi \in Int /\ ((2048 <= lo /\ hi <= 55295) \/ (57344 <= lo /\ hi <= 65535))
      BY <1>7, <2>1
    <3> HIDE DEF lo, hi
    <3>2. \E r \in Scalars(3) : r[1] <= lo /\ hi <= r[2]
      BY <3>1, Ranges
    <3> QED BY <3>2 DEF lo, hi
  <2> QED BY <1>5, <2>1, <2>2, Powers
<1>8. ASSUME b \in 241..243 PROVE Sure(c, 3)
  <2>1. Length(b) = 4 /\ Lead(b) = b - 240
    BY <1>8, LengthIs
  <2>2. \E r \in Scalars(4) : r[1] <= Lead(b) * 262144 /\ Lead(b) * 262144 + 262144 - 1 <= r[2]
    <3> DEFINE lo == Lead(b) * 262144
               hi == Lead(b) * 262144 + 262144 - 1
    <3>1. lo \in Int /\ hi \in Int /\ 65536 <= lo /\ hi <= 1114111
      BY <1>8, <2>1
    <3> HIDE DEF lo, hi
    <3>2. \E r \in Scalars(4) : r[1] <= lo /\ hi <= r[2]
      BY <3>1, Ranges
    <3> QED BY <3>2 DEF lo, hi
  <2> QED BY <1>5, <2>1, <2>2, Powers
<1>9. ASSUME b \in 128..193 \/ b \in 245..255 PROVE ~ Possible(c)
  <2>1. CASE b \in 128..191 \/ b > 247
    <3>1. Length(b) = 0
      BY <2>1, LengthIs
    <3> QED BY <1>1, <3>1 DEF Possible
  <2>2. CASE b \in 192..193
    <3>1. Length(b) = 2 /\ Lead(b) = b - 192
      BY <2>2, LengthIs
    <3>2. Unit(c) = 64
      <4>1. Length(c[1]) - Len(c) = 1
        BY <1>1, <3>1
      <4>2. Unit(c) = 64^1
        BY <4>1, Zenon DEF Unit
      <4> QED BY <4>2, Powers
    <3>3. \A r \in Scalars(2) : ~ (Lead(b) * 64 <= r[2] /\ Lead(b) * 64 + 64 - 1 >= r[1])
      <4> DEFINE lo == Lead(b) * 64
                 hi == Lead(b) * 64 + 64 - 1
      <4>1. lo \in Int /\ hi \in Int /\ hi < 128
        BY <2>2, <3>1
      <4> HIDE DEF lo, hi
      <4>2. \A r \in Scalars(2) : ~ (lo <= r[2] /\ hi >= r[1])
        BY <4>1, Ranges
      <4> QED BY <4>2 DEF lo, hi
    <3> QED BY <1>1, <1>2, <3>1, <3>2, <3>3 DEF Possible
  <2>3. CASE b \in 245..247
    <3>1. Length(b) = 4 /\ Lead(b) = b - 240
      BY <2>3, LengthIs
    <3>2. Unit(c) = 262144
      <4>1. Length(c[1]) - Len(c) = 3
        BY <1>1, <3>1
      <4>2. Unit(c) = 64^3
        BY <4>1, Zenon DEF Unit
      <4> QED BY <4>2, Powers
    <3>3. \A r \in Scalars(4) : ~ (Lead(b) * 262144 <= r[2] /\ Lead(b) * 262144 + 262144 - 1 >= r[1])
      <4> DEFINE lo == Lead(b) * 262144
                 hi == Lead(b) * 262144 + 262144 - 1
      <4>1. lo \in Int /\ hi \in Int /\ (hi < 65536 \/ 1114111 < lo)
        BY <2>3, <3>1
      <4> HIDE DEF lo, hi
      <4>2. \A r \in Scalars(4) : ~ (lo <= r[2] /\ hi >= r[1])
        BY <4>1, Ranges
      <4> QED BY <4>2 DEF lo, hi
    <3> QED BY <1>1, <1>2, <3>1, <3>2, <3>3 DEF Possible
  <2> QED BY <1>9, <2>1, <2>2, <2>3 DEF Byte
<1> QED BY <1>1, <1>2, <1>4, <1>6, <1>7, <1>8, <1>9 DEF c

(* The first bytes that do not go with every second byte.                  *)
LEMMA SecondByte ==
    ASSUME NEW l \in {224, 237, 240, 244}, NEW b \in Cont
    PROVE  LET t == Append(<<l>>, b)
           IN  /\ t \in Seq(Byte) /\ t # <<>> /\ Digits(t) = Digits(<<l>>) * 64 + (b - 128)
               /\ l = 224 => IF b \in 160..191 THEN Sure(t, 1) ELSE ~ Possible(t)
               /\ l = 237 => IF b \in 160..191 THEN ~ Possible(t) ELSE Sure(t, 1)
               /\ l = 240 => IF b \in 128..143 THEN ~ Possible(t) ELSE Sure(t, 2)
               /\ l = 244 => IF b \in 128..143 THEN Sure(t, 2) ELSE ~ Possible(t)
<1> DEFINE t == Append(<<l>>, b)
           D == Lead(l) * 64 + (b - 128)
<1>1. l \in Byte /\ b \in Byte /\ b \in 128..191
  BY DEF Byte, Cont
<1>2. <<l>> \in Seq(Byte) /\ Len(<<l>>) = 1 /\ <<l>>[1] = l /\ Digits(<<l>>) = Lead(l)
  BY <1>1, OneByte, FirstByte
<1>3. t \in Seq(Byte) /\ t # <<>> /\ Len(t) = 2 /\ t[1] = l /\ t[2] = b /\ Digits(t) = D
  <2> DEFINE c == <<l>>
  <2>1. c \in Seq(Byte) /\ Len(c) = 1 /\ c[1] = l /\ Digits(c) = Lead(l)
    BY <1>2
  <2> HIDE DEF c
  <2>2. Append(c, b) \in Seq(Byte) /\ Append(c, b) # <<>> /\ Len(Append(c, b)) = 2
        /\ Append(c, b)[1] = c[1] /\ Append(c, b)[2] = b
    <3> DEFINE a == Append(c, b)
    <3>1. /\ a \in Seq(Byte) /\ a # <<>> /\ Len(a) = Len(c) + 1 /\ a[Len(c) + 1] = b
          /\ \A i \in 1..Len(c) : a[i] = c[i]
      <4>1. c \in Seq(Byte) /\ b \in Byte
        BY <1>1, <2>1
      <4> QED BY <4>1, LongerIs
    <3> HIDE DEF a
    <3>2. Len(c) = 1 /\ 1 \in 1..Len(c) /\ Len(c) + 1 = 2
      BY <2>1
    <3>3. Len(a) = 2 /\ a[2] = b
      BY <3>1, <3>2
    <3>4. a[1] = c[1]
      BY <3>1, <3>2
    <3> QED BY <3>1, <3>3, <3>4 DEF a
  <2>3. Digits(Append(c, b)) = D
    BY <1>1, <2>1, DigitsGrow
  <2> QED BY <2>1, <2>2, <2>3 DEF c
<1> HIDE DEF t
<1>4. \A i \in 2..Len(t) : t[i] \in Cont
  BY <1>3
<1>5. ASSUME NEW n \in 1..2, Length(l) = n + 2, Unit(t) = 64^n,
             \E r \in Scalars(n + 2) : r[1] <= D * 64^n /\ D * 64^n + 64^n - 1 <= r[2]
      PROVE  Sure(t, n)
  BY <1>3, <1>4, <1>5 DEF Sure
<1>6. ASSUME NEW n \in 1..2, Length(l) = n + 2
      PROVE  Unit(t) = 64^n
  <2>1. Length(t[1]) - Len(t) = n
    BY <1>3, <1>6
  <2> QED BY <2>1, Zenon DEF Unit
<1>7. ASSUME l \in 224..239
      PROVE  /\ Length(l) = 3 /\ Unit(t) = 64 /\ D = (l - 224) * 64 + (b - 128)
             /\ (\E r \in Scalars(3) : r[1] <= D * 64 /\ D * 64 + 64 - 1 <= r[2]) => Sure(t, 1)
             /\ (\A r \in Scalars(3) : ~ (D * 64 <= r[2] /\ D * 64 + 64 - 1 >= r[1])) => ~ Possible(t)
  <2>1. Length(l) = 3 /\ Lead(l) = l - 224
    BY <1>1, <1>7, LengthIs
  <2>2. Unit(t) = 64^1
    BY <1>6, <2>1
  <2>3. Unit(t) = 64 /\ D = (l - 224) * 64 + (b - 128)
    BY <2>1, <2>2, Powers
  <2> HIDE DEF D
  <2>4. (\E r \in Scalars(3) : r[1] <= D * 64 /\ D * 64 + 64 - 1 <= r[2]) => Sure(t, 1)
    BY <1>5, <2>1, <2>2, Powers
  <2>5. (\A r \in Scalars(3) : ~ (D * 64 <= r[2] /\ D * 64 + 64 - 1 >= r[1])) => ~ Possible(t)
    BY <1>3, <2>1, <2>3 DEF Possible
  <2> QED BY <2>1, <2>3, <2>4, <2>5
<1>8. ASSUME l \in 240..247
      PROVE  /\ Length(l) = 4 /\ Unit(t) = 4096 /\ D = (l - 240) * 64 + (b - 128)
             /\ (\E r \in Scalars(4) : r[1] <= D * 4096 /\ D * 4096 + 4096 - 1 <= r[2]) => Sure(t, 2)
             /\ (\A r \in Scalars(4) : ~ (D * 4096 <= r[2] /\ D * 4096 + 4096 - 1 >= r[1]))
                    => ~ Possible(t)
  <2>1. Length(l) = 4 /\ Lead(l) = l - 240
    BY <1>1, <1>8, LengthIs
  <2>2. Unit(t) = 64^2
    BY <1>6, <2>1
  <2>3. Unit(t) = 4096 /\ D = (l - 240) * 64 + (b - 128)
    BY <2>1, <2>2, Powers
  <2> HIDE DEF D
  <2>4. (\E r \in Scalars(4) : r[1] <= D * 4096 /\ D * 4096 + 4096 - 1 <= r[2]) => Sure(t, 2)
    BY <1>5, <2>1, <2>2, Powers
  <2>5. (\A r \in Scalars(4) : ~ (D * 4096 <= r[2] /\ D * 4096 + 4096 - 1 >= r[1])) => ~ Possible(t)
    BY <1>3, <2>1, <2>3 DEF Possible
  <2> QED BY <2>1, <2>3, <2>4, <2>5
<1> HIDE DEF D
<1>9. ASSUME l = 224 PROVE IF b \in 160..191 THEN Sure(t, 1) ELSE ~ Possible(t)
  <2>1. D = b - 128 /\ l \in 224..239
    BY <1>1, <1>7, <1>9
  <2>2. CASE b \in 160..191
    <3>1. \E r \in Scalars(3) : r[1] <= D * 64 /\ D * 64 + 64 - 1 <= r[2]
      <4> DEFINE lo == D * 64
                 hi == D * 64 + 64 - 1
      <4>1. lo \in Int /\ hi \in Int /\ ((2048 <= lo /\ hi <= 55295) \/ (57344 <= lo /\ hi <= 65535))
        BY <2>1, <2>2
      <4> HIDE DEF lo, hi
      <4>2. \E r \in Scalars(3) : r[1] <= lo /\ hi <= r[2]
        BY <4>1, Ranges
      <4> QED BY <4>2 DEF lo, hi
    <3> QED BY <1>7, <2>1, <2>2, <3>1
  <2>3. CASE b \notin 160..191
    <3>1. \A r \in Scalars(3) : ~ (D * 64 <= r[2] /\ D * 64 + 64 - 1 >= r[1])
      <4> DEFINE lo == D * 64
                 hi == D * 64 + 64 - 1
      <4>1. lo \in Int /\ hi \in Int /\ (hi < 2048 \/ (55295 < lo /\ hi < 57344))
        BY <1>1, <2>1, <2>3
      <4> HIDE DEF lo, hi
      <4>2. \A r \in Scalars(3) : ~ (lo <= r[2] /\ hi >= r[1])
        BY <4>1, Ranges
      <4> QED BY <4>2 DEF lo, hi
    <3> QED BY <1>7, <2>1, <2>3, <3>1
  <2> QED BY <2>2, <2>3
<1>10. ASSUME l = 237 PROVE IF b \in 160..191 THEN ~ Possible(t) ELSE Sure(t, 1)
  <2>1. D = 832 + (b - 128) /\ l \in 224..239
    BY <1>1, <1>7, <1>10
  <2>2. CASE b \in 160..191
    <3>1. \A r \in Scalars(3) : ~ (D * 64 <= r[2] /\ D * 64 + 64 - 1 >= r[1])
      <4> DEFINE lo == D * 64
                 hi == D * 64 + 64 - 1
      <4>1. lo \in Int /\ hi \in Int /\ (hi < 2048 \/ (55295 < lo /\ hi < 57344))
        BY <2>1, <2>2
      <4> HIDE DEF lo, hi
      <4>2. \A r \in Scalars(3) : ~ (lo <= r[2] /\ hi >= r[1])
        BY <4>1, Ranges
      <4> QED BY <4>2 DEF lo, hi
    <3> QED BY <1>7, <2>1, <2>2, <3>1
  <2>3. CASE b \notin 160..191
    <3>1. \E r \in Scalars(3) : r[1] <= D * 64 /\ D * 64 + 64 - 1 <= r[2]
      <4> DEFINE lo == D * 64
                 hi == D * 64 + 64 - 1
      <4>1. lo \in Int /\ hi \in Int /\ ((2048 <= lo /\ hi <= 55295) \/ (57344 <= lo /\ hi <= 65535))
        BY <1>1, <2>1, <2>3
      <4> HIDE DEF lo, hi
      <4>2. \E r \in Scalars(3) : r[1] <= lo /\ hi <= r[2]
        BY <4>1, Ranges
      <4> QED BY <4>2 DEF lo, hi
    <3> QED BY <1>7, <2>1, <2>3, <3>1
  <2> QED BY <2>2, <2>3
<1>11. ASSUME l = 240 PROVE IF b \in 128..143 THEN ~ Possible(t) ELSE Sure(t, 2)
  <2>1. D = b - 128 /\ l \in 240..247
    BY <1>1, <1>8, <1>11
  <2>2. CASE b \in 128..143
    <3>1. \A r \in Scalars(4) : ~ (D * 4096 <= r[2] /\ D * 4096 + 4096 - 1 >= r[1])
      <4> DEFINE lo == D * 4096
                 hi == D * 4096 + 4096 - 1
      <4>1. lo \in Int /\ hi \in Int /\ (hi < 65536 \/ 1114111 < lo)
        BY <2>1, <2>2
      <4> HIDE DEF lo, hi
      <4>2. \A r \in Scalars(4) : ~ (lo <= r[2] /\ hi >= r[1])
        BY <4>1, Ranges
      <4> QED BY <4>2 DEF lo, hi
    <3> QED BY <1>8, <2>1, <2>2, <3>1
  <2>3. CASE b \notin 128..143
    <3>1. \E r \in Scalars(4) : r[1] <= D * 4096 /\ D * 4096 + 4096 - 1 <= r[2]
      <4> DEFINE lo == D * 4096
                 hi == D * 4096 + 4096 - 1
      <4>1. lo \in Int /\ hi \in Int /\ 65536 <= lo /\ hi <= 1114111
        BY <1>1, <2>1, <2>3
      <4> HIDE DEF lo, hi
      <4>2. \E r \in Scalars(4) : r[1] <= lo /\ hi <= r[2]
        BY <4>1, Ranges
      <4> QED BY <4>2 DEF lo, hi
    <3> QED BY <1>8, <2>1, <2>3, <3>1
  <2> QED BY <2>2, <2>3
<1>12. ASSUME l = 244 PROVE IF b \in 128..143 THEN Sure(t, 2) ELSE ~ Possible(t)
  <2>1. D = 256 + (b - 128) /\ l \in 240..247
    BY <1>1, <1>8, <1>12
  <2>2. CASE b \in 128..143
    <3>1. \E r \in Scalars(4) : r[1] <= D * 4096 /\ D * 4096 + 4096 - 1 <= r[2]
      <4> DEFINE lo == D * 4096
                 hi == D * 4096 + 4096 - 1
      <4>1. lo \in Int /\ hi \in Int /\ 65536 <= lo /\ hi <= 1114111
        BY <2>1, <2>2
      <4> HIDE DEF lo, hi
      <4>2. \E r \in Scalars(4) : r[1] <= lo /\ hi <= r[2]
        BY <4>1, Ranges
      <4> QED BY <4>2 DEF lo, hi
    <3> QED BY <1>8, <2>1, <2>2, <3>1
  <2>3. CASE b \notin 128..143
    <3>1. \A r \in Scalars(4) : ~ (D * 4096 <= r[2] /\ D * 4096 + 4096 - 1 >= r[1])
      <4> DEFINE lo == D * 4096
                 hi == D * 4096 + 4096 - 1
      <4>1. lo \in Int /\ hi \in Int /\ (hi < 65536 \/ 1114111 < lo)
        BY <1>1, <2>1, <2>3
      <4> HIDE DEF lo, hi
      <4>2. \A r \in Scalars(4) : ~ (lo <= r[2] /\ hi >= r[1])
        BY <4>1, Ranges
      <4> QED BY <4>2 DEF lo, hi
    <3> QED BY <1>8, <2>1, <2>3, <3>1
  <2> QED BY <2>2, <2>3
<1>13. Digits(t) = Digits(<<l>>) * 64 + (b - 128)
  BY <1>2, <1>3 DEF D
<1> QED BY <1>3, <1>9, <1>10, <1>11, <1>12, <1>13 DEF t

(* The bytes that take the automaton from one state to the next.           *)
LEMMA MidStep ==
    ASSUME CharInv, ustate \notin {utf8Accept, utf8Reject}, NEW b \in Byte, Feed(b)
    PROVE  CharInv'
<1> DEFINE t == Append(char, b)
<1>1. /\ ustate \in 2..8 /\ char' = t /\ ustate' = NextState(ustate, ByteType(b))
      /\ upoint' = upoint * 64 + (b % 64) /\ upoint = Digits(char)
      /\ char \in Seq(Byte) /\ char # <<>>
  <2>1. char # <<>>
    <3>1. CASE ustate \in {2, 3, 7}
      BY <3>1, SureIs DEF CharInv
    <3>2. CASE ustate \in {4, 5, 6, 8}
      <4>1. PICK l \in Byte : char = <<l>>
        <5>1. 224 \in Byte /\ 237 \in Byte /\ 240 \in Byte /\ 244 \in Byte
          BY DEF Byte
        <5> QED BY <3>2, <5>1 DEF CharInv
      <4> QED BY <4>1, OneByte
    <3> QED BY <3>1, <3>2 DEF CharInv, utf8Accept, utf8Reject
  <2> QED BY <2>1 DEF CharInv, Feed, utf8DFAStep, utf8Accept, utf8Reject
<1>2. t \in Seq(Byte) /\ t # <<>>
  BY <1>1, LongerIs
<1> HIDE DEF t
<1>3. ASSUME ustate' = 1, ~ Possible(t) PROVE CharInv'
  BY <1>1, <1>2, <1>3 DEF CharInv
<1>4. CASE b \notin Cont
  <2>1. ustate' = 1
    <3>1. ByteType(b) \in {0, 2, 3, 4, 5, 6, 8, 10, 11}
      BY <1>4, ByteTypes DEF Byte, Cont
    <3> QED BY <1>1, <3>1, Rows
  <2> QED BY <1>1, <1>3, <1>4, <2>1, NotAContinuation DEF t
<1>5. CASE b \in Cont
  <2>1. /\ b % 64 = b - 128
        /\ ByteType(b) \in {1, 7, 9}
        /\ ByteType(b) = 1 <=> b \in 128..143
        /\ ByteType(b) = 7 <=> b \in 160..191
    <3>1. b % 64 = b - 128
      BY <1>5 DEF Cont
    <3>2. CASE b \in 128..143
      <4>1. ByteType(b) = 1 /\ b \notin 160..191
        BY <3>2, ByteTypes
      <4> QED BY <3>1, <3>2, <4>1
    <3>3. CASE b \in 144..159
      <4>1. ByteType(b) = 9 /\ b \notin 160..191 /\ b \notin 128..143
        BY <3>3, ByteTypes
      <4> QED BY <3>1, <4>1
    <3>4. CASE b \in 160..191
      <4>1. ByteType(b) = 7 /\ b \notin 128..143
        BY <3>4, ByteTypes
      <4> QED BY <3>1, <3>4, <4>1
    <3> QED BY <1>5, <3>2, <3>3, <3>4 DEF Cont
  <2> DEFINE k == ByteType(b)
  <2>10. /\ ustate' = NextState(ustate, k) /\ k \in 0..11 /\ k \in {1, 7, 9}
         /\ k = 1 <=> b \in 128..143
         /\ k = 7 <=> b \in 160..191
    BY <1>1, <2>1
  <2> HIDE DEF k
  <2>2. ASSUME Digits(t) = Digits(char) * 64 + (b - 128), ustate' \in {2, 3},
               ustate' = 2 => Sure(t, 1), ustate' = 3 => Sure(t, 2)
        PROVE  CharInv'
    <3>1. char' \in Seq(Byte) /\ upoint' = Digits(char')
      BY <1>1, <1>2, <2>1, <2>2
    <3>2. ustate' \in 0..8 /\ ustate' \notin {0, 1, 4, 5, 6, 7, 8}
      BY <2>2
    <3> QED BY <1>1, <2>2, <3>1, <3>2 DEF CharInv
  <2>3. CASE ustate = 2
    <3>1. Digits(t) = Digits(char) * 64 + (b - 128) /\ Whole(t)
      <4>1. Sure(char, 1) /\ 1 \in 1..3
        BY <2>3 DEF CharInv
      <4> QED BY <1>5, <4>1, SureGrows, 1 - 1 = 0 DEF t
    <3>2. ustate' = 0
      BY <2>10, <2>3, Rows
    <3> QED BY <1>1, <1>2, <2>1, <3>1, <3>2 DEF CharInv
  <2>4. CASE ustate = 3
    <3>1. Digits(t) = Digits(char) * 64 + (b - 128) /\ Sure(t, 1)
      <4>1. Sure(char, 2) /\ 2 \in 1..3
        BY <2>4 DEF CharInv
      <4> QED BY <1>5, <4>1, SureGrows, 2 - 1 = 1 DEF t
    <3>2. ustate' = 2
      BY <2>10, <2>4, Rows
    <3> QED BY <2>2, <3>1, <3>2
  <2>5. CASE ustate = 7
    <3>1. Digits(t) = Digits(char) * 64 + (b - 128) /\ Sure(t, 2)
      <4>1. Sure(char, 3) /\ 3 \in 1..3
        BY <2>5 DEF CharInv
      <4> QED BY <1>5, <4>1, SureGrows, 3 - 1 = 2 DEF t
    <3>2. ustate' = 3
      BY <2>10, <2>5, Rows
    <3> QED BY <2>2, <3>1, <3>2
  <2>6. CASE ustate = 4
    <3>1. char = <<224>>
      BY <2>6 DEF CharInv
    <3>2. /\ Digits(t) = Digits(char) * 64 + (b - 128)
          /\ IF b \in 160..191 THEN Sure(t, 1) ELSE ~ Possible(t)
      BY <1>5, <3>1, SecondByte DEF t
    <3>3. ustate' = IF b \in 160..191 THEN 2 ELSE 1
      BY <2>10, <2>6, Rows
    <3> QED BY <1>3, <2>2, <3>2, <3>3
  <2>7. CASE ustate = 5
    <3>1. char = <<237>>
      BY <2>7 DEF CharInv
    <3>2. /\ Digits(t) = Digits(char) * 64 + (b - 128)
          /\ IF b \in 160..191 THEN ~ Possible(t) ELSE Sure(t, 1)
      BY <1>5, <3>1, SecondByte DEF t
    <3>3. ustate' = IF b \in 160..191 THEN 1 ELSE 2
      BY <2>10, <2>7, Rows
    <3> QED BY <1>3, <2>2, <3>2, <3>3
  <2>8. CASE ustate = 6
    <3>1. char = <<240>>
      BY <2>8 DEF CharInv
    <3>2. /\ Digits(t) = Digits(char) * 64 + (b - 128)
          /\ IF b \in 128..143 THEN ~ Possible(t) ELSE Sure(t, 2)
      BY <1>5, <3>1, SecondByte DEF t
    <3>3. ustate' = IF b \in 128..143 THEN 1 ELSE 3
      BY <2>10, <2>8, Rows
    <3> QED BY <1>3, <2>2, <3>2, <3>3
  <2>9. CASE ustate = 8
    <3>1. char = <<244>>
      BY <2>9 DEF CharInv
    <3>2. /\ Digits(t) = Digits(char) * 64 + (b - 128)
          /\ IF b \in 128..143 THEN Sure(t, 2) ELSE ~ Possible(t)
      BY <1>5, <3>1, SecondByte DEF t
    <3>3. ustate' = IF b \in 128..143 THEN 3 ELSE 1
      BY <2>10, <2>9, Rows
    <3> QED BY <1>3, <2>2, <3>2, <3>3
  <2> QED BY <1>1, <2>3, <2>4, <2>5, <2>6, <2>7, <2>8, <2>9
<1> QED BY <1>4, <1>5

(* The first byte of a character.                                          *)
LEMMA FirstStep ==
    ASSUME CharInv, ustate = utf8Accept, NEW b \in Byte, Feed(b)
    PROVE  CharInv'
<1> DEFINE c == <<b>>
           k == ByteType(b)
<1>1. /\ char' = c /\ ustate' = NextState(0, k)
      /\ upoint' = (IF k < 8 THEN b % 2^(8 - k) ELSE 0)
  BY DEF Feed, utf8DFAStep, utf8Accept
<1>2. c \in Seq(Byte) /\ c # <<>> /\ Digits(c) = Lead(b)
  BY FirstByte
<1>3. CASE b < 128
  <2>1. k = 0 /\ Whole(c) /\ Lead(b) = b
    BY <1>3, ByteTypes, FirstByte, LengthIs
  <2>2. ustate' = 0 /\ upoint' = b % 256
    BY <1>1, <2>1, Rows, Powers
  <2> HIDE DEF c
  <2>3. upoint' = b
    BY <2>2 DEF Byte
  <2> QED BY <1>1, <1>2, <2>1, <2>2, <2>3 DEF CharInv
<1>4. CASE b \in 128..193 \/ b \in 245..255
  <2>1. k \in {1, 7, 8, 9} /\ ~ Possible(c)
    <3>1. CASE b \in 128..143 \/ b \in 144..159 \/ b \in 160..191
      BY <1>4, <3>1, ByteTypes, FirstByte
    <3>2. CASE b \in 192..193 \/ b \in 245..255
      BY <1>4, <3>2, ByteTypes, FirstByte
    <3> QED BY <1>4, <3>1, <3>2
  <2>2. ustate' = 1
    BY <1>1, <2>1, Rows
  <2> HIDE DEF c
  <2> QED BY <1>1, <1>2, <2>1, <2>2 DEF CharInv
<1>5. CASE b \in 194..223
  <2>1. k = 2 /\ Sure(c, 1) /\ Lead(b) = b - 192
    BY <1>5, ByteTypes, FirstByte, LengthIs
  <2>2. ustate' = 2 /\ upoint' = b % 64
    BY <1>1, <2>1, Rows, Powers
  <2> HIDE DEF c
  <2>3. upoint' = b - 192
    BY <1>5, <2>2
  <2> QED BY <1>1, <1>2, <2>1, <2>2, <2>3 DEF CharInv
<1>6. CASE b \in 225..236 \/ b \in 238..239
  <2>1. k = 3 /\ Sure(c, 2) /\ Lead(b) = b - 224
    BY <1>6, ByteTypes, FirstByte, LengthIs
  <2>2. ustate' = 3 /\ upoint' = b % 32
    BY <1>1, <2>1, Rows, Powers
  <2> HIDE DEF c
  <2>3. upoint' = b - 224
    BY <1>6, <2>2
  <2> QED BY <1>1, <1>2, <2>1, <2>2, <2>3 DEF CharInv
<1>7. CASE b \in 241..243
  <2>1. k = 6 /\ Sure(c, 3) /\ Lead(b) = b - 240
    BY <1>7, ByteTypes, FirstByte, LengthIs
  <2>2. ustate' = 7 /\ upoint' = b % 4
    BY <1>1, <2>1, Rows, Powers
  <2> HIDE DEF c
  <2>3. upoint' = b - 240
    BY <1>7, <2>2
  <2> QED BY <1>1, <1>2, <2>1, <2>2, <2>3 DEF CharInv
<1>8. CASE b = 224
  <2>1. k = 10 /\ Lead(b) = 0
    BY <1>8, ByteTypes, LengthIs
  <2>2. ustate' = 4 /\ upoint' = 0
    BY <1>1, <2>1, Rows
  <2> QED BY <1>1, <1>2, <1>8, <2>1, <2>2 DEF CharInv
<1>9. CASE b = 237
  <2>1. k = 4 /\ Lead(b) = 13
    BY <1>9, ByteTypes, LengthIs
  <2>2. ustate' = 5 /\ upoint' = b % 16
    BY <1>1, <2>1, Rows, Powers
  <2> QED BY <1>1, <1>2, <1>9, <2>1, <2>2 DEF CharInv
<1>10. CASE b = 240
  <2>1. k = 11 /\ Lead(b) = 0
    BY <1>10, ByteTypes, LengthIs
  <2>2. ustate' = 6 /\ upoint' = 0
    BY <1>1, <2>1, Rows
  <2> QED BY <1>1, <1>2, <1>10, <2>1, <2>2 DEF CharInv
<1>11. CASE b = 244
  <2>1. k = 5 /\ Lead(b) = 4
    BY <1>11, ByteTypes, LengthIs
  <2>2. ustate' = 8 /\ upoint' = b % 8
    BY <1>1, <2>1, Rows, Powers
  <2> QED BY <1>1, <1>2, <1>11, <2>1, <2>2 DEF CharInv
<1> QED BY <1>3, <1>4, <1>5, <1>6, <1>7, <1>8, <1>9, <1>10, <1>11 DEF Byte

(* Every byte, whatever NthByte tries at its place.                        *)
LEMMA ByteStep ==
    ASSUME CharInv, NextByte
    PROVE  CharInv'
<1>1. ASSUME ustate \notin {utf8Accept, utf8Reject} PROVE Len(char) + 1 \in 1..4
  <2>1. CASE ustate \in {2, 3, 7}
    <3>1. Sure(char, 1) \/ Sure(char, 2) \/ Sure(char, 3)
      BY <2>1 DEF CharInv
    <3>2. Len(char) \in 1..3
      BY <3>1 DEF Sure
    <3>3. \A m \in 1..3 : m + 1 \in 1..4
      OBVIOUS
    <3> QED BY <3>2, <3>3, Zenon
  <2>2. CASE ustate \in {4, 5, 6, 8}
    <3>1. Len(char) = 1
      BY <2>2 DEF CharInv
    <3> QED BY <3>1
  <2> QED BY <1>1, <2>1, <2>2 DEF CharInv, utf8Accept, utf8Reject
<1> DEFINE n == IF ustate = utf8Accept THEN 1 ELSE Len(char) + 1
<1>2. ustate # utf8Reject /\ \E b \in NthByte[n] : Feed(b)
  BY DEF NextByte
<1>3. n \in 1..4
  BY <1>1, <1>2
<1> HIDE DEF n
<1>4. PICK b \in NthByte[n] : Feed(b)
  BY <1>2
<1>5. b \in Byte
  BY <1>3, ByteAssumption DEF Byte
<1>6. CASE ustate = utf8Accept
  BY <1>4, <1>5, <1>6, FirstStep
<1>7. CASE ustate # utf8Accept
  BY <1>2, <1>4, <1>5, <1>7, MidStep
<1> QED BY <1>6, <1>7

(* From every state but Reject the bytes so far can become a character.    *)
LEMMA CharTells ==
    ASSUME CharInv
    PROVE  AcceptsUTF8
<1> SUFFICES ASSUME char # <<>> PROVE AcceptsUTF8
  BY DEF AcceptsUTF8
<1>1. CASE ustate = 0
  BY <1>1 DEF CharInv, AcceptsUTF8, Whole, utf8Accept, utf8Reject
<1>2. CASE ustate = 1
  BY <1>2 DEF CharInv, AcceptsUTF8, utf8Accept, utf8Reject
<1>3. ASSUME ustate \in 2..8, Possible(char), Len(char) # Length(char[1]) PROVE AcceptsUTF8
  BY <1>3 DEF AcceptsUTF8, utf8Accept, utf8Reject
<1>4. CASE ustate \in {2, 3, 7}
  <2>1. PICK n \in 1..3 : Sure(char, n)
    <3>1. Sure(char, 1) \/ Sure(char, 2) \/ Sure(char, 3)
      BY <1>4 DEF CharInv
    <3>2. 1 \in 1..3 /\ 2 \in 1..3 /\ 3 \in 1..3
      OBVIOUS
    <3> QED BY <3>1, <3>2, Zenon
  <2>2. Possible(char) /\ Length(char[1]) - Len(char) = n
    BY <2>1, SureIs, SureIsPossible
  <2>3. Len(char) # Length(char[1])
    BY <2>1, <2>2, SureIs
  <2> QED BY <1>3, <1>4, <2>2, <2>3
<1>5. CASE ustate \in {4, 5, 6, 8}
  <2>1. PICK l \in {224, 237, 240, 244} : char = <<l>>
    BY <1>5 DEF CharInv
  <2> SUFFICES Possible(<<l>>) /\ Len(<<l>>) # Length(<<l>>[1])
    BY <1>3, <1>5, <2>1
  <2>2. /\ l \in Byte /\ Digits(<<l>>) = Lead(l) /\ Len(<<l>>) = 1 /\ <<l>>[1] = l
    <3>1. l \in Byte
      BY DEF Byte
    <3> QED BY <3>1, OneByte, FirstByte
  <2>3. CASE l \in {224, 237}
    <3>1. Length(l) = 3 /\ Lead(l) \in {0, 13}
      BY <2>2, <2>3, LengthIs
    <3>2. Unit(<<l>>) = 4096
      <4>1. Unit(<<l>>) = 64^(3 - 1)
        BY <2>2, <3>1, Zenon DEF Unit
      <4> QED BY <4>1, Powers
    <3>3. \E r \in Scalars(3) : Lead(l) * 4096 <= r[2] /\ Lead(l) * 4096 + 4096 - 1 >= r[1]
      <4> DEFINE q == <<2048, 55295>>
      <4>1. q \in Scalars(3) /\ q[1] = 2048 /\ q[2] = 55295
        BY ScalarsAre
      <4> HIDE DEF q
      <4> QED BY <3>1, <4>1
    <3> QED BY <2>2, <3>1, <3>2, <3>3 DEF Possible
  <2>4. CASE l \in {240, 244}
    <3>1. Length(l) = 4 /\ Lead(l) \in {0, 4}
      BY <2>2, <2>4, LengthIs
    <3>2. Unit(<<l>>) = 262144
      <4>1. Unit(<<l>>) = 64^(4 - 1)
        BY <2>2, <3>1, Zenon DEF Unit
      <4> QED BY <4>1, Powers
    <3>3. \E r \in Scalars(4) : Lead(l) * 262144 <= r[2] /\ Lead(l) * 262144 + 262144 - 1 >= r[1]
      <4> DEFINE q == <<65536, 1114111>>
      <4>1. q \in Scalars(4) /\ q[1] = 65536 /\ q[2] = 1114111
        BY ScalarsAre
      <4> HIDE DEF q
      <4> QED BY <3>1, <4>1
    <3> QED BY <2>2, <3>1, <3>2, <3>3 DEF Possible
  <2> QED BY <2>3, <2>4
<1> QED BY <1>1, <1>2, <1>4, <1>5 DEF CharInv

(* For bytes of any values: the automaton rejects at the first byte after  *)
(* which no character is possible, accepts exactly at the end of one, and  *)
(* has its scalar value then (utf8_dfa.go:63-66).                          *)
THEOREM AutomatonIsUTF8 == CodecSpec => []AcceptsUTF8
<1>1. CodecInit => CharInv
  BY EmptySeq DEF CodecInit, Utf8Init, CharInv, utf8Accept
<1>2. CharInv /\ [CodecNext]_codecVars => CharInv'
  <2> SUFFICES ASSUME CharInv, [CodecNext]_codecVars PROVE CharInv'
    OBVIOUS
  <2>1. CASE UNCHANGED uvars
    BY <2>1 DEF uvars, CharInv
  <2>2. CASE NextByte
    BY <2>2, ByteStep
  <2> QED BY <2>1, <2>2 DEF CodecNext, codecVars
<1>3. CharInv => AcceptsUTF8
  BY CharTells
<1> QED BY <1>1, <1>2, <1>3, PTL DEF CodecSpec
-----------------------------------------------------------------------------
(* The header parsers.  Texts are put together and taken apart in a few    *)
(* lemmas (Joins to StartsWith), and what the parsers read of a quoted     *)
(* value, a parameter, an item and a line is what was written (QuotedIs,   *)
(* ValueIs, ParamIs, ItemIs, LinesRemain).  The invariant says where in    *)
(* the header they are, and what they have found up to there.              *)
Texts == Seq(Octets)

(* Concatenation, under a name that the provers leave as it is.           *)
a ++ b == a \o b

LEMMA Joins ==
    ASSUME NEW a \in Texts, NEW b \in Texts, NEW c \in Texts
    PROVE  a ++ b \in Texts /\ (a ++ b) ++ c = a ++ (b ++ c)
<1>1. a \o b \in Texts
  BY HeadOfConcat DEF Texts
<1>2. (a \o b) \o c = a \o (b \o c)
  BY Associates DEF Texts
<1> QED BY <1>1, <1>2, Zenon DEF ++

LEMMA JoinFour ==
    ASSUME NEW a \in Texts, NEW b \in Texts, NEW c \in Texts, NEW d \in Texts
    PROVE  /\ ((a ++ b) ++ c) ++ d \in Texts
           /\ ((a ++ b) ++ c) ++ d = a ++ (b ++ (c ++ d))
<1>1. a ++ b \in Texts /\ (a ++ b) ++ c \in Texts /\ c ++ d \in Texts
  BY Joins
<1>2. ((a ++ b) ++ c) ++ d = (a ++ b) ++ (c ++ d) /\ ((a ++ b) ++ c) ++ d \in Texts
  BY <1>1, Joins
<1>3. (a ++ b) ++ (c ++ d) = a ++ (b ++ (c ++ d))
  BY <1>1, Joins
<1> QED BY <1>2, <1>3

LEMMA JoinFive ==
    ASSUME NEW a \in Texts, NEW b \in Texts, NEW c \in Texts, NEW d \in Texts, NEW e \in Texts
    PROVE  /\ (((a ++ b) ++ c) ++ d) ++ e \in Texts
           /\ (((a ++ b) ++ c) ++ d) ++ e = a ++ (b ++ (c ++ (d ++ e)))
<1>1. ((a ++ b) ++ c) ++ d \in Texts /\ (a ++ b) ++ c \in Texts /\ d ++ e \in Texts
  BY JoinFour, Joins
<1>2. (((a ++ b) ++ c) ++ d) ++ e = ((a ++ b) ++ c) ++ (d ++ e) /\ (((a ++ b) ++ c) ++ d) ++ e \in Texts
  BY <1>1, Joins
<1>3. ((a ++ b) ++ c) ++ (d ++ e) = a ++ (b ++ (c ++ (d ++ e)))
  BY <1>1, JoinFour
<1> QED BY <1>2, <1>3

LEMMA AppendIs ==
    ASSUME NEW q \in Texts, NEW x \in Octets
    PROVE  /\ Append(q, x) \in Texts /\ <<x>> \in Texts
           /\ Append(q, x) = q ++ <<x>> /\ Len(Append(q, x)) = Len(q) + 1 /\ Len(q) \in Nat
BY AppendProperties, AppendIsConcat, LenProperties, OneFirst DEF Texts, ++

LEMMA Marks ==
    /\ Quote # Escape
    /\ \A x \in {Quote, Escape} : x \in Octets /\ x \notin Token \cup Space \cup {"=", ";", ","}
<1>1. Quote # Escape
  BY DEF Quote, Escape
<1>2. Quote \in Octets /\ Escape \in Octets
  BY DEF Octets, Stray
<1>3. Quote \notin Token \cup Space \cup {"=", ";", ","}
  BY DEF Quote, Token, Space
<1>4. Escape \notin Token \cup Space \cup {"=", ";", ","}
  BY DEF Escape, Token, Space
<1> QED BY <1>1, <1>2, <1>3, <1>4

LEMMA LeadingIs ==
    ASSUME NEW set, set \subseteq Octets, NEW a \in Seq(set), NEW b \in Texts, ~ Starts(b, set)
    PROVE  /\ a \in Texts /\ a \o b \in Texts
           /\ SubSeq(a \o b, 1, Leading(a \o b, set)) = a
           /\ Sub(a \o b, Leading(a \o b, set) + 1) = b
<1> DEFINE t == a \o b
           m == Len(a)
           P(n) == (\A i \in 1..n : t[i] \in set) /\ ~ Starts(Sub(t, n + 1), set)
<1>1. a \in Texts
  BY SeqMonotonic DEF Texts
<1>2. /\ t \in Texts /\ Len(t) = m + Len(b) /\ m \in Nat /\ Len(b) \in Nat
      /\ \A i \in 1 .. m + Len(b) : t[i] = IF i <= m THEN a[i] ELSE b[i - m]
  <2>1. m \in Nat /\ Len(b) \in Nat
    BY LenProperties DEF Texts
  <2> QED BY <1>1, <2>1, ConcatProperties, Zenon DEF Texts
<1>3. SubSeq(t, 1, m) = a /\ Sub(t, m + 1) = b
  BY <1>1, CutConcat DEF Texts, Sub
<1> HIDE DEF t, m
<1>4. \A i \in 1..m : t[i] \in set
  <2>1. \A i \in 1..m : a[i] \in set
    BY ElementOfSeq DEF m
  <2> QED BY <1>2, <2>1
<1>5. P(m) /\ m \in 0 .. Len(t)
  BY <1>2, <1>3, <1>4
<1>6. ASSUME NEW n \in 0 .. Len(t), P(n) PROVE n = m
  <2>1. ASSUME n < m PROVE FALSE
    <3>1. n + 1 \in 1 .. Len(t) /\ Len(t) \in n + 1 .. Len(t) /\ n + 1 \in 1..m
      BY <1>2, <2>1
    <3>2. Sub(t, n + 1) = <<t[n + 1]>> \o SubSeq(t, n + 1 + 1, Len(t))
      BY <1>2, <3>1, SubSeqRecursiveFirst DEF Sub, Texts
    <3>3. SubSeq(t, n + 1 + 1, Len(t)) \in Texts
      <4>1. n + 1 + 1 \in Int /\ Len(t) \in Int
        BY <1>2
      <4>2. \A i \in n + 1 + 1 .. Len(t) : t[i] \in Octets
        BY <1>2, ElementOfSeq DEF Texts
      <4> DEFINE z == n + 1 + 1
      <4> HIDE DEF z
      <4>3. SubSeq(t, z, Len(t)) \in Seq(Octets)
        BY <4>1, <4>2, SubSeqProperties DEF z
      <4> QED BY <4>3 DEF z, Texts
    <3>4. t[n + 1] \in Octets /\ t[n + 1] \in set
      BY <1>2, <1>4, <3>1, ElementOfSeq DEF Texts
    <3>5. Starts(Sub(t, n + 1), set)
      BY <3>2, <3>3, <3>4, OneFirst DEF Starts, Texts
    <3> QED BY <1>6, <3>5
  <2>2. ASSUME n > m PROVE FALSE
    <3>1. m + 1 \in 1..n /\ m + 1 \in 1 .. m + Len(b) /\ m + 1 - m = 1 /\ ~(m + 1 <= m) /\ Len(b) # 0
      BY <1>2, <2>2
    <3>2. t[m + 1] \in set /\ t[m + 1] = b[1]
      <4>1. t[m + 1] \in set
        BY <1>6, <3>1
      <4>2. t[m + 1] = b[m + 1 - m]
        BY <1>2, <3>1
      <4> QED BY <3>1, <4>1, <4>2
    <3>3. b # <<>> /\ Head(b) = b[1]
      BY <3>1 DEF Texts
    <3> QED BY <3>2, <3>3 DEF Starts
  <2> QED BY <1>2, <2>1, <2>2
<1>7. Leading(t, set) = m
  <2>1. Leading(t, set) = CHOOSE n \in 0 .. Len(t) : P(n)
    BY DEF Leading
  <2> HIDE DEF P
  <2> QED BY <1>5, <1>6, <2>1
<1> QED BY <1>1, <1>2, <1>3, <1>7 DEF t

LEMMA Alphabets ==
    /\ Token \subseteq Octets /\ Space \subseteq Octets /\ <<>> \in Texts
    /\ Blanks \subseteq Texts /\ Tokens \subseteq Texts /\ Tokens \subseteq Seq(Token)
<1>1. Token \subseteq Octets /\ Space \subseteq Octets
  BY DEF Octets
<1>2. \A t \in Seq(Space) : t \in Texts
  BY <1>1, SeqMonotonic DEF Texts
<1>3. \A t \in Seq(Token) : t \in Texts
  BY <1>1, SeqMonotonic DEF Texts
<1>4. <<>> \in Texts
  BY EmptySeq DEF Texts
<1> QED BY <1>1, <1>2, <1>3, <1>4 DEF Blanks, Tokens

(* Blanks are skipped, and a token is taken, up to the next character.     *)
LEMMA SkipIs ==
    ASSUME NEW a \in Blanks, NEW b \in Texts, ~ Starts(b, Space)
    PROVE  skipSpace(a ++ b) = b
BY LeadingIs, Alphabets DEF skipSpace, Blanks, ++

LEMMA TokenIs ==
    ASSUME NEW a \in Seq(Token), NEW b \in Texts, ~ Starts(b, Token)
    PROVE  nextToken(a ++ b) = [value |-> a, rest |-> b]
BY LeadingIs, Alphabets DEF nextToken, ++

LEMMA NoBlanks == <<>> \in Blanks /\ <<>> \in Seq(Token)
BY EmptySeq DEF Blanks

LEMMA NothingFirst ==
    ASSUME NEW t \in Texts
    PROVE  <<>> ++ t = t
BY ConcatEmptySeq DEF Texts, ++

(* Every text is some blanks and what they are skipped for.                *)
LEMMA SkipSplits ==
    ASSUME NEW t \in Texts
    PROVE  \E a \in Blanks, b \in Texts : t = a ++ b /\ ~ Starts(b, Space)
<1> DEFINE T == {r \in Texts : \E a \in Blanks, b \in Texts : r = a ++ b /\ ~ Starts(b, Space)}
<1>1. <<>> \in T
  <2>1. <<>> = <<>> ++ <<>> /\ ~ Starts(<<>>, Space)
    BY NothingFirst, Alphabets DEF Starts
  <2> QED BY <2>1, NoBlanks, Alphabets
<1>2. ASSUME NEW r \in Seq(Octets), NEW x \in Octets, r \in T PROVE Append(r, x) \in T
  <2>1. PICK a \in Blanks, b \in Texts : r = a ++ b /\ ~ Starts(b, Space)
    BY <1>2
  <2>2. Append(r, x) \in Texts /\ a \in Texts
    BY Alphabets, AppendProperties DEF Texts
  <2>3. CASE b = <<>> /\ x \in Space
    <3>1. Append(a, x) \in Blanks
      BY <2>3, AppendProperties DEF Blanks
    <3>2. Append(r, x) = Append(a, x) ++ <<>>
      BY <2>1, <2>2, <2>3, <3>1, Alphabets, ConcatEmptySeq DEF Texts, ++
    <3>3. ~ Starts(<<>>, Space)
      BY DEF Starts
    <3> QED BY <2>2, <3>1, <3>2, <3>3, Alphabets
  <2>4. CASE ~(b = <<>> /\ x \in Space)
    <3>1. Append(b, x) \in Texts /\ Head(Append(b, x)) = IF b = <<>> THEN x ELSE Head(b)
      BY AppendProperties, HeadTailAppend DEF Texts
    <3>2. ~ Starts(Append(b, x), Space)
      BY <2>1, <2>4, <3>1 DEF Starts
    <3>3. Append(r, x) = a ++ Append(b, x)
      <4>1. Append(r, x) = (a ++ b) ++ <<x>> /\ Append(b, x) = b ++ <<x>> /\ <<x>> \in Texts
        BY <2>1, AppendIsConcat DEF Texts, ++
      <4> QED BY <2>2, <4>1, Joins
    <3> QED BY <2>2, <3>1, <3>2, <3>3
  <2> QED BY <2>3, <2>4
<1> HIDE DEF T
<1>3. Seq(Octets) \subseteq T
  BY <1>1, <1>2, InductSeq
<1> QED BY <1>3 DEF T, Texts

LEMMA SkipMore ==
    ASSUME NEW a \in Blanks, NEW t \in Texts
    PROVE  /\ a ++ t \in Texts /\ skipSpace(t) \in Texts
           /\ skipSpace(a ++ t) = skipSpace(t)
           /\ ~ Starts(skipSpace(t), Space)
           /\ ~ Starts(t, Space) => skipSpace(t) = t
<1>1. PICK b \in Blanks, c \in Texts : t = b ++ c /\ ~ Starts(c, Space)
  BY SkipSplits
<1>2. a ++ t \in Texts /\ a \in Texts /\ b \in Texts
  BY Alphabets, Joins
<1>3. skipSpace(t) = c
  BY <1>1, SkipIs
<1>4. a ++ t = (a ++ b) ++ c
  BY <1>1, <1>2, Joins
<1>5. a ++ b \in Blanks
  BY HeadOfConcat DEF Blanks, ++
<1>6. skipSpace((a ++ b) ++ c) = c
  BY <1>1, <1>5, SkipIs
<1>7. ~ Starts(t, Space) => skipSpace(t) = t
  BY NoBlanks, NothingFirst, SkipIs
<1> QED BY <1>1, <1>2, <1>3, <1>4, <1>6, <1>7

(* What a text starts with.                                                *)
LEMMA StartsAfter ==
    ASSUME NEW a \in Texts, NEW b \in Texts, NEW set
    PROVE  /\ a ++ b \in Texts
           /\ a # <<>> => (Starts(a ++ b, set) <=> Starts(a, set))
           /\ a = <<>> => (Starts(a ++ b, set) <=> Starts(b, set))
BY HeadOfConcat, NothingFirst DEF Starts, Texts, ++

LEMMA StartsIn ==
    ASSUME NEW S, NEW a \in Seq(S), NEW set
    PROVE  /\ a # <<>> /\ S \subseteq set => Starts(a, set)
           /\ S \cap set = {} => ~ Starts(a, set)
<1>1. a # <<>> => Head(a) \in S
  BY HeadTailProperties
<1> QED BY <1>1 DEF Starts

LEMMA StartsWith ==
    ASSUME NEW x \in Octets, NEW b \in Texts
    PROVE  /\ <<x>> ++ b \in Texts /\ <<x>> ++ b # <<>> /\ Tail(<<x>> ++ b) = b /\ <<x>> \in Texts
           /\ \A set : Starts(<<x>> ++ b, set) <=> x \in set
BY OneFirst DEF Starts, Texts, ++

Quotes == [value : Texts, mode : {"in", "escape", "closed"}, n : Nat]

In(v, n) == [value |-> v, mode |-> "in", n |-> n]

Opened == In(<<>>, 0)

LEMMA UnquoteTypes ==
    ASSUME NEW q \in Quotes, NEW c \in Octets
    PROVE  UnquoteStep(q, c) \in Quotes
<1>1. q.value \in Texts /\ q.mode \in {"in", "escape", "closed"} /\ q.n \in Nat
  BY DEF Quotes
<1>2. Append(q.value, c) \in Texts /\ q.n + 1 \in Nat
  BY <1>1, AppendProperties DEF Texts
<1>3. CASE q.mode = "closed"
  BY <1>3 DEF UnquoteStep
<1>4. CASE q.mode # "closed" /\ (q.mode = "escape" \/ c \notin {Escape, Quote})
  <2>1. UnquoteStep(q, c) = [value |-> Append(q.value, c), mode |-> "in", n |-> q.n + 1]
    BY <1>4 DEF UnquoteStep
  <2> QED BY <1>2, <2>1 DEF Quotes
<1>5. CASE q.mode # "closed" /\ ~(q.mode = "escape" \/ c \notin {Escape, Quote})
  <2>1. UnquoteStep(q, c) = [value |-> q.value, mode |-> IF c = Escape THEN "escape" ELSE "closed", n |-> q.n + 1]
    BY <1>5 DEF UnquoteStep
  <2> QED BY <1>1, <1>2, <2>1 DEF Quotes
<1> QED BY <1>3, <1>4, <1>5

LEMMA UnquoteOne ==
    ASSUME NEW v, NEW n \in Nat, NEW x
    PROVE  /\ x \notin {Quote, Escape} => UnquoteStep(In(v, n), x) = In(Append(v, x), n + 1)
           /\ UnquoteStep(In(v, n), Quote) = [value |-> v, mode |-> "closed", n |-> n + 1]
           /\ UnquoteStep(UnquoteStep(In(v, n), Escape), x) = In(Append(v, x), n + 1 + 1)
<1>1. UnquoteStep(In(v, n), Escape) = [value |-> v, mode |-> "escape", n |-> n + 1]
  BY Marks DEF UnquoteStep, In
<1>2. UnquoteStep([value |-> v, mode |-> "escape", n |-> n + 1], x) = In(Append(v, x), n + 1 + 1)
  BY DEF UnquoteStep, In
<1>3. UnquoteStep(In(v, n), Quote) = [value |-> v, mode |-> "closed", n |-> n + 1]
  BY Marks DEF UnquoteStep, In
<1>4. x \notin {Quote, Escape} => UnquoteStep(In(v, n), x) = In(Append(v, x), n + 1)
  BY DEF UnquoteStep, In
<1> QED BY <1>1, <1>2, <1>3, <1>4

LEMMA OpenedType == Opened \in Quotes
BY Alphabets DEF Opened, In, Quotes

QuoteStep(q, n) == [p \in Quotes \X (1..n) |-> UnquoteStep(p[1], q[p[2]])]

LEMMA UnquoteRuns ==
    ASSUME NEW q, NEW n \in Nat, DOMAIN q = 1..n, \A i \in 1..n : q[i] \in Octets
    PROVE  \E run : Runs(run, n, Quotes, Opened, QuoteStep(q, n)) /\ run[n] = Unquote(q)
<1> DEFINE Eq(h) == h = [S \in SUBSET (1..n) |-> IF S = {} THEN Opened ELSE UnquoteStep(h[S \ {Max(S)}], q[Max(S)])]
           it == CHOOSE h : Eq(h)
           d  == QuoteStep(q, n)
<1>1. Unquote(q) = it[1..n]
  BY DEF Unquote, FoldLeft, MapThenFoldSet, Opened, In
<1>2. /\ d \in [Quotes \X (1..n) -> Quotes]
      /\ \A v \in Quotes, k \in 1..n : d[<<v, k>>] = UnquoteStep(v, q[k])
  BY UnquoteTypes DEF QuoteStep
<1> HIDE DEF d
<1>0. Opened \in Quotes
  BY OpenedType
<1>3. PICK h \in [SUBSET (1..n) -> Quotes] : Table(h, n, Opened, d)
  BY <1>0, <1>2, TableExists
<1>4. Eq(h)
  <2> SUFFICES ASSUME NEW S \in SUBSET (1..n)
               PROVE  h[S] = IF S = {} THEN Opened ELSE UnquoteStep(h[S \ {Max(S)}], q[Max(S)])
    OBVIOUS
  <2>1. CASE S = {}
    BY <1>3, <2>1 DEF Table
  <2>2. CASE S # {}
    <3>1. Max(S) \in 1..n
      BY <2>2, MaxOfSome
    <3>2. h[S \ {Max(S)}] \in Quotes
      BY <1>3
    <3>3. h[S] = d[<<h[S \ {Max(S)}], Max(S)>>]
      BY <1>3, <2>2 DEF Table
    <3> QED BY <1>2, <2>2, <3>1, <3>2, <3>3
  <2> QED BY <2>1, <2>2
<1>5. Eq(it)
  <2> HIDE DEF Eq
  <2> QED BY <1>4, Zenon
<1>6. it[{}] = Opened
  <2>1. {} \in SUBSET (1..n)
    OBVIOUS
  <2> HIDE DEF it
  <2> QED BY <1>5, <2>1
<1>7. ASSUME NEW S \in SUBSET (1..n), S # {}, it[S \ {Max(S)}] \in Quotes
      PROVE  it[S] = d[<<it[S \ {Max(S)}], Max(S)>>]
  <2> HIDE DEF it
  <2>1. Max(S) \in 1..n
    BY <1>7, MaxOfSome
  <2>2. it[S] = UnquoteStep(it[S \ {Max(S)}], q[Max(S)])
    BY <1>5, <1>7
  <2> QED BY <1>2, <1>7, <2>1, <2>2
<1> HIDE DEF it
<1>8. \E run : Runs(run, n, Quotes, Opened, d) /\ run[n] = it[1..n]
  <2>1. Iterates(it, n, Quotes, Opened, d)
    BY <1>0, <1>2, <1>6, <1>7 DEF Iterates
  <2> QED BY <2>1, TableRuns
<1> QED BY <1>1, <1>8 DEF d

LEMMA UnquoteEmpty == Unquote(<<>>) = Opened
<1>1. DOMAIN <<>> = 1..0
  OBVIOUS
<1>2. PICK run : Runs(run, 0, Quotes, Opened, QuoteStep(<<>>, 0)) /\ run[0] = Unquote(<<>>)
  BY <1>1, UnquoteRuns
<1> QED BY <1>2 DEF Runs

LEMMA UnquoteAppend ==
    ASSUME NEW q \in Texts, NEW x \in Octets
    PROVE  /\ Unquote(q) \in Quotes
           /\ Unquote(Append(q, x)) = UnquoteStep(Unquote(q), x)
<1> DEFINE n == Len(q)
           p == Append(q, x)
           m == n + 1
<1>1. n \in Nat /\ m \in Nat /\ m = n + 1 /\ DOMAIN q = 1..n /\ DOMAIN p = 1..m
  BY AppendProperties DEF Texts
<1>2. p[m] = x /\ (\A k \in 1..n : p[k] = q[k] /\ q[k] \in Octets) /\ \A k \in 1..m : p[k] \in Octets
  <2>1. p[m] = x /\ (\A k \in 1..n : p[k] = q[k]) /\ p \in Texts /\ Len(p) = m
    BY AppendProperties DEF Texts
  <2> QED BY <2>1, ElementOfSeq DEF Texts
<1> HIDE DEF n, m, p
<1> DEFINE d == QuoteStep(q, n)
           e == QuoteStep(p, m)
<1>3. PICK a : Runs(a, n, Quotes, Opened, d) /\ a[n] = Unquote(q)
  BY <1>1, <1>2, UnquoteRuns
<1>4. PICK b : Runs(b, m, Quotes, Opened, e) /\ b[m] = Unquote(p)
  BY <1>1, <1>2, UnquoteRuns
<1>5. \A v \in Quotes, k \in 1..n : d[<<v, k>>] = e[<<v, k>>]
  <2> SUFFICES ASSUME NEW v \in Quotes, NEW k \in 1..n PROVE d[<<v, k>>] = e[<<v, k>>]
    OBVIOUS
  <2>1. k \in 1..m
    BY <1>1
  <2> QED BY <1>2, <2>1 DEF QuoteStep
<1>6. \A v \in Quotes : e[<<v, m>>] = UnquoteStep(v, x)
  BY <1>1, <1>2 DEF QuoteStep
<1> HIDE DEF d, e
<1>7. Extends(a, b, n, m, Quotes, Opened, d, e)
  BY <1>1, <1>3, <1>4, <1>5 DEF Extends
<1>8. a[n] \in Quotes /\ b[m] = e[<<a[n], m>>]
  BY <1>7, RunsExtend
<1> QED BY <1>3, <1>4, <1>6, <1>8 DEF p

(* A quoted string that was written character by character.                *)
Meaning(chars) == [i \in DOMAIN chars |-> Last(chars[i])]

LEMMA QuotedTypes ==
    ASSUME NEW c \in Quoted
    PROVE  /\ c \in Texts /\ Last(c) \in Octets
           /\ \/ c = <<Last(c)>> /\ Last(c) \notin {Quote, Escape}
              \/ c = Append(<<Escape>>, Last(c))
<1>1. CASE \E x \in Octets \ {Quote, Escape} : c = <<x>>
  <2>1. PICK x \in Octets \ {Quote, Escape} : c = <<x>>
    BY <1>1
  <2>2. Len(c) = 1 /\ c[1] = x
    BY <2>1
  <2>3. Last(c) = x
    BY <2>2 DEF Last
  <2>4. <<x>> \in Texts
    BY <2>1, EmptySeq, OneFirst DEF Texts
  <2> QED BY <2>1, <2>3, <2>4
<1>2. CASE \E x \in Octets : c = <<Escape, x>>
  <2>1. PICK x \in Octets : c = <<Escape, x>>
    BY <1>2
  <2>0. Escape \in Octets
    BY Marks
  <2>2. Len(c) = 2 /\ Last(c) = x /\ c = Append(<<Escape>>, x)
    <3>1. Len(c) = 2 /\ c[2] = x
      BY <2>1
    <3>2. c = Append(<<Escape>>, x)
      BY <2>1
    <3>3. Last(c) = x
      BY <3>1 DEF Last
    <3> QED BY <3>1, <3>2, <3>3
  <2>3. c \in Texts
    BY <2>0, <2>1 DEF Texts
  <2> QED BY <2>2, <2>3
<1> QED BY <1>1, <1>2 DEF Quoted

LEMMA MeaningAppend ==
    ASSUME NEW chars \in Seq(Quoted), NEW c \in Quoted
    PROVE  /\ Meaning(chars) \in Texts
           /\ Meaning(Append(chars, c)) = Append(Meaning(chars), Last(c))
<1>1. \A q \in Seq(Quoted) : Meaning(q) \in Texts /\ Len(Meaning(q)) = Len(q) /\ \A i \in 1 .. Len(q) : Meaning(q)[i] = Last(q[i])
  <2> SUFFICES ASSUME NEW q \in Seq(Quoted)
               PROVE  Meaning(q) \in Texts /\ Len(Meaning(q)) = Len(q) /\ \A i \in 1 .. Len(q) : Meaning(q)[i] = Last(q[i])
    OBVIOUS
  <2>1. DOMAIN q = 1 .. Len(q) /\ Len(q) \in Nat /\ \A i \in 1 .. Len(q) : q[i] \in Quoted
    BY LenProperties, ElementOfSeq
  <2>2. \A i \in 1 .. Len(q) : Last(q[i]) \in Octets
    BY <2>1, QuotedTypes
  <2> DEFINE L(x) == Last(x)
  <2> HIDE DEF L
  <2>3. \A i \in 1 .. Len(q) : L(q[i]) \in Octets
    BY <2>2 DEF L
  <2>4. [i \in 1 .. Len(q) |-> L(q[i])] \in Seq(Octets) /\ Len([i \in 1 .. Len(q) |-> L(q[i])]) = Len(q)
    BY <2>1, <2>3
  <2>5. Meaning(q) = [i \in 1 .. Len(q) |-> L(q[i])]
    BY <2>1 DEF Meaning, L
  <2> QED BY <2>1, <2>4, <2>5 DEF Texts, L
<1> DEFINE p == Append(chars, c)
           u == Append(Meaning(chars), Last(c))
<1>2. /\ p \in Seq(Quoted) /\ Len(p) = Len(chars) + 1 /\ Len(chars) \in Nat
      /\ p[Len(chars) + 1] = c /\ \A i \in 1 .. Len(chars) : p[i] = chars[i]
  BY AppendProperties, LenProperties
<1>3. Last(c) \in Octets
  BY QuotedTypes
<1>4. Meaning(p) \in Texts /\ Len(Meaning(p)) = Len(chars) + 1 /\ \A i \in 1 .. Len(chars) + 1 : Meaning(p)[i] = Last(p[i])
  BY <1>1, <1>2
<1>5. /\ u \in Texts /\ Len(u) = Len(chars) + 1 /\ u[Len(chars) + 1] = Last(c)
      /\ \A i \in 1 .. Len(chars) : u[i] = Last(chars[i])
  <2>1. Meaning(chars) \in Texts /\ Len(Meaning(chars)) = Len(chars) /\ \A i \in 1 .. Len(chars) : Meaning(chars)[i] = Last(chars[i])
    BY <1>1
  <2> QED BY <1>3, <2>1, AppendProperties DEF Texts
<1> HIDE DEF p, u
<1>6. \A i \in 1 .. Len(chars) + 1 : Meaning(p)[i] = u[i]
  BY <1>2, <1>4, <1>5
<1>7. Meaning(p) = u
  BY <1>4, <1>5, <1>6, SeqEqual DEF Texts
<1> QED BY <1>1, <1>7 DEF p, u

LEMMA UnquoteChars ==
    ASSUME NEW chars \in Seq(Quoted)
    PROVE  LET t == FlattenSeq(chars)
           IN  t \in Texts /\ Unquote(t) = In(Meaning(chars), Len(t))
<1> DEFINE Is(q) == FlattenSeq(q) \in Texts
                    /\ Unquote(FlattenSeq(q)) = In(Meaning(q), Len(FlattenSeq(q)))
           T == {q \in Seq(Quoted) : Is(q)}
<1>1. <<>> \in T
  <2>1. Meaning(<<>>) = <<>>
    BY DEF Meaning
  <2> QED BY <2>1, FlatEmpty, UnquoteEmpty, Alphabets DEF Opened
<1>2. ASSUME NEW q \in Seq(Quoted), NEW c \in Quoted, q \in T PROVE Append(q, c) \in T
  <2> DEFINE t == FlattenSeq(q)
             x == Last(c)
             v == Meaning(q)
  <2>1. t \in Texts /\ Unquote(t) = In(v, Len(t))
    BY <1>2
  <2>2. c \in Texts /\ x \in Octets
    BY QuotedTypes
  <2>3. FlattenSeq(Append(q, c)) = t ++ c
    <3>1. Seq(Quoted) \subseteq Seq(Seq(Octets))
      BY QuotedTypes, SeqMonotonic DEF Texts
    <3> QED BY <2>2, <3>1, FlatAppend DEF Texts, ++
  <2>4. v \in Texts /\ Meaning(Append(q, c)) = Append(v, x)
    BY MeaningAppend
  <2>5. Append(q, c) \in Seq(Quoted)
    BY AppendProperties
  <2> HIDE DEF t, x, v
  <2>8. Len(t) \in Nat
    BY <2>1, LenProperties DEF Texts
  <2>6. CASE c = <<x>> /\ x \notin {Quote, Escape}
    <3>1. t ++ c = Append(t, x) /\ Append(t, x) \in Texts /\ Len(Append(t, x)) = Len(t) + 1
      BY <2>1, <2>2, <2>6, AppendIsConcat, AppendProperties DEF Texts, ++
    <3>2. Unquote(Append(t, x)) = UnquoteStep(Unquote(t), x)
      BY <2>1, <2>2, UnquoteAppend
    <3>3. UnquoteStep(In(v, Len(t)), x) = In(Append(v, x), Len(t) + 1)
      BY <2>6, <2>8, UnquoteOne
    <3> QED BY <2>3, <2>4, <2>5, <2>1, <3>1, <3>2, <3>3
  <2>7. CASE c = Append(<<Escape>>, x)
    <3> DEFINE u == Append(t, Escape)
    <3>1. Escape \in Octets
      BY Marks
    <3>2. u \in Texts /\ Len(u) = Len(t) + 1 /\ Len(t) \in Nat
      BY <2>1, <3>1, AppendProperties, LenProperties DEF Texts
    <3>3. Append(u, x) \in Texts /\ Len(Append(u, x)) = Len(t) + 1 + 1
      BY <2>2, <3>2, AppendProperties DEF Texts
    <3>4. t ++ c = Append(u, x)
      <4>1. u = t ++ <<Escape>> /\ <<Escape>> \in Texts /\ <<x>> \in Texts
        BY <2>1, <2>2, <3>1, AppendIs
      <4>2. c = <<Escape>> ++ <<x>>
        BY <2>2, <2>7, <4>1, AppendIs
      <4> HIDE DEF u
      <4>3. Append(u, x) = u ++ <<x>>
        BY <2>2, <3>2, AppendIs
      <4> QED BY <2>1, <4>1, <4>2, <4>3, Joins
    <3>5. Unquote(u) = UnquoteStep(Unquote(t), Escape)
      BY <2>1, <3>1, UnquoteAppend
    <3> HIDE DEF u
    <3>6. Unquote(Append(u, x)) = UnquoteStep(Unquote(u), x)
      BY <2>2, <3>2, UnquoteAppend
    <3>7. Unquote(Append(u, x)) = In(Append(v, x), Len(t) + 1 + 1)
      <4>1. UnquoteStep(UnquoteStep(In(v, Len(t)), Escape), x) = In(Append(v, x), Len(t) + 1 + 1)
        BY <2>8, UnquoteOne
      <4> QED BY <2>1, <3>5, <3>6, <4>1
    <3> QED BY <2>3, <2>4, <2>5, <3>3, <3>4, <3>7
  <2> QED BY <2>6, <2>7, QuotedTypes DEF x
<1> HIDE DEF T
<1>3. Seq(Quoted) \subseteq T
  BY <1>1, <1>2, InductSeq
<1> QED BY <1>3 DEF T

LEMMA UnquoteRest ==
    ASSUME NEW t \in Texts, NEW r \in Texts, Unquote(t).mode = "closed"
    PROVE  Unquote(t ++ r) = Unquote(t)
<1> DEFINE T == {q \in Texts : Unquote(t ++ q) = Unquote(t)}
<1>1. <<>> \in T
  BY Alphabets, ConcatEmptySeq DEF Texts, ++
<1>2. ASSUME NEW q \in Seq(Octets), NEW x \in Octets, q \in T PROVE Append(q, x) \in T
  <2>0. q \in Texts
    BY DEF Texts
  <2>1. Append(q, x) \in Texts /\ t ++ q \in Texts
    BY <2>0, AppendIs, Joins
  <2>2. t ++ Append(q, x) = Append(t ++ q, x)
    <3>1. Append(q, x) = q ++ <<x>> /\ Append(t ++ q, x) = (t ++ q) ++ <<x>> /\ <<x>> \in Texts
      BY <2>0, <2>1, AppendIs
    <3> QED BY <2>0, <3>1, Joins
  <2>3. Unquote(Append(t ++ q, x)) = UnquoteStep(Unquote(t), x)
    BY <1>2, <2>1, UnquoteAppend
  <2>4. UnquoteStep(Unquote(t), x) = Unquote(t)
    BY DEF UnquoteStep
  <2> QED BY <2>1, <2>2, <2>3, <2>4
<1> HIDE DEF T
<1>3. Seq(Octets) \subseteq T
  BY <1>1, <1>2, InductSeq
<1> QED BY <1>3 DEF T, Texts

LEMMA QuotedIs ==
    ASSUME NEW chars \in Seq(Quoted), NEW r \in Texts
    PROVE  LET t == FlattenSeq(chars)
           IN  nextTokenOrQuoted(<<Quote>> ++ (t ++ (<<Quote>> ++ r))) = [value |-> Meaning(chars), rest |-> r]
<1> DEFINE t == FlattenSeq(chars)
           u == Append(t, Quote)
           w == t ++ (<<Quote>> ++ r)
           all == <<Quote>> ++ w
<1>1. t \in Texts /\ Unquote(t) = In(Meaning(chars), Len(t))
  BY UnquoteChars
<1>2. Quote \in Octets /\ <<Quote>> \in Texts /\ Len(<<Quote>>) = 1
  <2>1. Quote \in Octets
    BY Marks
  <2> QED BY <2>1, Alphabets, StartsWith
<1>9. Len(t) \in Nat
  BY <1>1, LenProperties DEF Texts
<1> HIDE DEF t
<1>3. /\ u \in Texts /\ Len(u) = Len(t) + 1 /\ u = t ++ <<Quote>>
      /\ Unquote(u) = [value |-> Meaning(chars), mode |-> "closed", n |-> Len(t) + 1]
  <2>1. u \in Texts /\ Len(u) = Len(t) + 1
    BY <1>1, <1>2, AppendProperties DEF Texts
  <2>2. Unquote(u) = UnquoteStep(Unquote(t), Quote)
    BY <1>1, <1>2, UnquoteAppend
  <2>3. UnquoteStep(In(Meaning(chars), Len(t)), Quote) = [value |-> Meaning(chars), mode |-> "closed", n |-> Len(t) + 1]
    BY <1>9, UnquoteOne
  <2>4. u = t ++ <<Quote>>
    BY <1>1, <1>2, AppendIsConcat DEF Texts, ++
  <2> QED BY <1>1, <2>1, <2>2, <2>3, <2>4
<1>4. w = u ++ r /\ w \in Texts
  <2>1. (t ++ <<Quote>>) ++ r = t ++ (<<Quote>> ++ r)
    BY <1>1, <1>2, Joins
  <2>2. u ++ r \in Texts
    BY <1>3, Joins
  <2> HIDE DEF u
  <2> QED BY <1>3, <2>1, <2>2
<1> HIDE DEF u, w
<1>5. Unquote(w) = Unquote(u)
  <2>1. Unquote(u).mode = "closed"
    BY <1>3
  <2> QED BY <1>3, <1>4, <2>1, UnquoteRest
<1>6. Starts(all, {Quote}) /\ Tail(all) = w
  BY <1>2, <1>4, StartsWith
<1>7. Sub(all, Len(t) + 1 + 2) = r
  <2> DEFINE v == <<Quote>> ++ u
  <2>1. v \in Texts /\ Len(v) = Len(t) + 1 + 1
    <3>1. v \in Texts /\ Len(v) = Len(<<Quote>>) + Len(u)
      BY <1>2, <1>3, ConcatProperties DEF Texts, ++
    <3> HIDE DEF v
    <3> QED BY <1>2, <1>3, <1>9, <3>1
  <2>2. v ++ r = <<Quote>> ++ (u ++ r)
    BY <1>2, <1>3, Joins
  <2> HIDE DEF v
  <2>3. SubSeq(v ++ r, Len(v) + 1, Len(v ++ r)) = r
    BY <2>1, CutConcat DEF Texts, ++
  <2>4. Len(v) + 1 = Len(t) + 1 + 2
    BY <1>9, <2>1
  <2>5. all = v ++ r
    BY <1>4, <2>2
  <2> HIDE DEF all
  <2> QED BY <2>3, <2>4, <2>5 DEF Sub
<1> HIDE DEF all
<1>8. nextTokenOrQuoted(all) = [value |-> Meaning(chars), rest |-> r]
  <2> DEFINE q == Unquote(Tail(all))
  <2>1. q = [value |-> Meaning(chars), mode |-> "closed", n |-> Len(t) + 1]
    BY <1>3, <1>5, <1>6
  <2>2. nextTokenOrQuoted(all) = IF q.mode = "closed" THEN [value |-> q.value, rest |-> Sub(all, q.n + 2)]
                                 ELSE [value |-> <<>>, rest |-> <<>>]
    BY <1>6 DEF nextTokenOrQuoted
  <2> HIDE DEF q
  <2>3. q.mode = "closed" /\ q.value = Meaning(chars) /\ q.n = Len(t) + 1
    BY <2>1
  <2> QED BY <1>7, <2>2, <2>3
<1> QED BY <1>8 DEF all, w, t

(* How the parsers read a parameter.                                       *)
KeyOf(t)    == nextToken(skipSpace(Tail(t)))
GivenTo(u)  == IF Starts(u, {"="}) THEN nextTokenOrQuoted(skipSpace(Tail(u)))
               ELSE [value |-> <<>>, rest |-> u]
SetTo(t)    == GivenTo(skipSpace(KeyOf(t).rest))
AfterParam(t) == skipSpace(SetTo(t).rest)

(* Something that may follow an element, with or without blanks.           *)
MayFollow(r) == r \in Texts /\ ~ Starts(r, Token) /\ ~ Starts(skipSpace(r), {"="})

LEMMA BlanksFollow ==
    ASSUME NEW a \in Blanks, NEW r, MayFollow(r)
    PROVE  MayFollow(a ++ r) /\ skipSpace(a ++ r) = skipSpace(r)
<1>1. a \in Texts /\ r \in Texts
  BY Alphabets DEF MayFollow
<1>2. ~ Starts(a, Token)
  <2>1. Space \cap Token = {}
    BY DEF Space, Token
  <2> QED BY <2>1, StartsIn DEF Blanks
<1>3. ~ Starts(a ++ r, Token)
  BY <1>1, <1>2, StartsAfter DEF MayFollow
<1> QED BY <1>1, <1>3, SkipMore DEF MayFollow

LEMMA TokenLeads ==
    ASSUME NEW t \in Tokens, NEW r \in Texts
    PROVE  /\ t ++ r \in Texts /\ t \in Texts
           /\ ~ Starts(t ++ r, Space) /\ ~ Starts(t ++ r, {Quote})
<1>1. t \in Seq(Token) /\ t # <<>> /\ t \in Texts
  BY Alphabets DEF Tokens
<1>2. Token \cap Space = {} /\ Token \cap {Quote} = {}
  BY Marks DEF Token, Space
<1>3. ~ Starts(t, Space) /\ ~ Starts(t, {Quote})
  BY <1>1, <1>2, StartsIn
<1> QED BY <1>1, <1>3, StartsAfter

LEMMA Separators ==
    \A x \in {"=", ";", ","} : x \in Octets /\ x \notin Token /\ x \notin Space
BY DEF Octets, Token, Space

LEMMA ValueTypes ==
    ASSUME NEW v \in Values
    PROVE  \/ v.as = "none" /\ ValueText(v) = <<>> /\ ValueOf(v) = <<>>
           \/ /\ v.as = "token" /\ v.pre \in Blanks /\ v.token \in Tokens
              /\ ValueText(v) = (<<"=">> ++ v.pre) ++ v.token /\ ValueOf(v) = v.token
           \/ /\ v.as = "quoted" /\ v.pre \in Blanks /\ v.chars \in Seq(Quoted)
              /\ ValueText(v) = (((<<"=">> ++ v.pre) ++ <<Quote>>) ++ FlattenSeq(v.chars)) ++ <<Quote>>
              /\ ValueOf(v) = Meaning(v.chars)
<1>1. CASE v \in [as : {"none"}]
  BY <1>1 DEF ValueText, ValueOf, ++
<1>2. CASE v \in [as : {"token"}, pre : Blanks, token : Tokens]
  BY <1>2 DEF ValueText, ValueOf, ++
<1>3. CASE v \in [as : {"quoted"}, pre : Blanks, chars : Seq(Quoted)]
  <2>1. v.as = "quoted" /\ v.pre \in Blanks /\ v.chars \in Seq(Quoted)
    BY <1>3
  <2>2. ValueOf(v) = Meaning(v.chars)
    BY <2>1 DEF ValueOf, Meaning
  <2>3. ValueText(v) = (((<<"=">> ++ v.pre) ++ <<Quote>>) ++ FlattenSeq(v.chars)) ++ <<Quote>>
    BY <2>1 DEF ValueText, ++
  <2> QED BY <2>1, <2>2, <2>3
<1> QED BY <1>1, <1>2, <1>3 DEF Values

LEMMA ValueIs ==
    ASSUME NEW v \in Values, NEW r, MayFollow(r)
    PROVE  LET t == ValueText(v) ++ r
           IN  /\ ValueText(v) \in Texts /\ t \in Texts /\ ~ Starts(t, Token)
               /\ \A a \in Blanks : /\ GivenTo(skipSpace(a ++ t)).value = ValueOf(v)
                                    /\ skipSpace(GivenTo(skipSpace(a ++ t)).rest) = skipSpace(r)
<1> DEFINE t == ValueText(v) ++ r
<1>0. r \in Texts
  BY DEF MayFollow
<1>9. "=" \in Octets /\ "=" \notin Token /\ "=" \notin Space /\ <<"=">> \in Texts
  BY Separators, StartsWith, <1>0
<1>1. CASE v.as = "none" /\ ValueText(v) = <<>> /\ ValueOf(v) = <<>>
  <2>1. t = r
    BY <1>0, <1>1, NothingFirst
  <2>2. ASSUME NEW a \in Blanks
        PROVE  /\ GivenTo(skipSpace(a ++ r)).value = <<>>
               /\ skipSpace(GivenTo(skipSpace(a ++ r)).rest) = skipSpace(r)
    <3>1. skipSpace(a ++ r) = skipSpace(r) /\ skipSpace(r) \in Texts /\ ~ Starts(skipSpace(r), Space)
      BY <1>0, SkipMore
    <3>2. skipSpace(skipSpace(r)) = skipSpace(r)
      BY <3>1, SkipMore
    <3>3. GivenTo(skipSpace(r)) = [value |-> <<>>, rest |-> skipSpace(r)]
      BY DEF GivenTo, MayFollow
    <3> QED BY <3>1, <3>2, <3>3
  <2>3. ValueText(v) \in Texts /\ r \in Texts /\ ~ Starts(r, Token)
    BY <1>1, Alphabets DEF MayFollow
  <2> HIDE DEF t
  <2>4. /\ ValueText(v) \in Texts /\ t \in Texts /\ ~ Starts(t, Token)
        /\ \A a \in Blanks : /\ GivenTo(skipSpace(a ++ t)).value = ValueOf(v)
                             /\ skipSpace(GivenTo(skipSpace(a ++ t)).rest) = skipSpace(r)
    BY <1>1, <2>1, <2>2, <2>3
  <2> QED BY <2>4 DEF t
<1> DEFINE Reads(b, w, x) == /\ b \in Texts /\ w \in Texts /\ t = <<"=">> ++ w
                             /\ nextTokenOrQuoted(skipSpace(w)) = [value |-> x, rest |-> r]
<1>2. ASSUME NEW w, ValueText(v) \in Texts, Reads(ValueText(v), w, ValueOf(v))
      PROVE  /\ ValueText(v) \in Texts /\ t \in Texts /\ ~ Starts(t, Token)
             /\ \A a \in Blanks : /\ GivenTo(skipSpace(a ++ t)).value = ValueOf(v)
                                  /\ skipSpace(GivenTo(skipSpace(a ++ t)).rest) = skipSpace(r)
  <2>1. w \in Texts /\ t = <<"=">> ++ w /\ nextTokenOrQuoted(skipSpace(w)) = [value |-> ValueOf(v), rest |-> r]
    BY <1>2
  <2> HIDE DEF t
  <2>2. t \in Texts /\ ~ Starts(t, Token) /\ ~ Starts(t, Space) /\ Starts(t, {"="}) /\ Tail(t) = w
    BY <1>9, <2>1, StartsWith
  <2>3. ASSUME NEW a \in Blanks
        PROVE  GivenTo(skipSpace(a ++ t)) = [value |-> ValueOf(v), rest |-> r]
    <3>1. skipSpace(a ++ t) = t
      BY <2>2, SkipMore
    <3> QED BY <2>1, <2>2, <3>1 DEF GivenTo
  <2> QED BY <1>2, <2>2, <2>3
<1>3. CASE /\ v.as = "token" /\ v.pre \in Blanks /\ v.token \in Tokens
           /\ ValueText(v) = (<<"=">> ++ v.pre) ++ v.token /\ ValueOf(v) = v.token
  <2> DEFINE a == v.pre
             k == v.token
             w == a ++ (k ++ r)
  <2>1. a \in Blanks /\ k \in Tokens /\ a \in Texts /\ k \in Texts /\ k \in Seq(Token)
    BY <1>3, Alphabets
  <2> HIDE DEF a, k
  <2>2. k ++ r \in Texts /\ ~ Starts(k ++ r, Space) /\ ~ Starts(k ++ r, {Quote})
    BY <1>0, <2>1, TokenLeads
  <2>3. w \in Texts /\ skipSpace(w) = k ++ r
    BY <2>1, <2>2, SkipMore
  <2>4. nextTokenOrQuoted(k ++ r) = [value |-> k, rest |-> r]
    <3>1. nextToken(k ++ r) = [value |-> k, rest |-> r]
      BY <2>1, TokenIs DEF MayFollow
    <3> QED BY <2>2, <3>1 DEF nextTokenOrQuoted
  <2>5. /\ <<"=">> ++ a \in Texts /\ (<<"=">> ++ a) ++ k \in Texts
        /\ ((<<"=">> ++ a) ++ k) ++ r = <<"=">> ++ w
    <3>1. <<"=">> ++ a \in Texts /\ (<<"=">> ++ a) ++ k \in Texts
      BY <1>9, <2>1, Joins
    <3>2. ((<<"=">> ++ a) ++ k) ++ r = (<<"=">> ++ a) ++ (k ++ r)
      BY <1>0, <2>1, <3>1, Joins
    <3>3. (<<"=">> ++ a) ++ (k ++ r) = <<"=">> ++ (a ++ (k ++ r))
      BY <1>9, <2>1, <2>2, Joins
    <3> QED BY <3>1, <3>2, <3>3
  <2>6. ValueText(v) = (<<"=">> ++ a) ++ k /\ ValueOf(v) = k
    BY <1>3 DEF a, k
  <2> HIDE DEF w
  <2> QED BY <1>2, <2>3, <2>4, <2>5, <2>6
<1>4. CASE /\ v.as = "quoted" /\ v.pre \in Blanks /\ v.chars \in Seq(Quoted)
           /\ ValueText(v) = (((<<"=">> ++ v.pre) ++ <<Quote>>) ++ FlattenSeq(v.chars)) ++ <<Quote>>
           /\ ValueOf(v) = Meaning(v.chars)
  <2> DEFINE a == v.pre
             f == FlattenSeq(v.chars)
             q == <<Quote>>
             u == q ++ (f ++ (q ++ r))
             w == a ++ u
  <2>1. /\ a \in Blanks /\ a \in Texts /\ f \in Texts /\ q \in Texts /\ v.chars \in Seq(Quoted)
        /\ ValueText(v) = (((<<"=">> ++ a) ++ q) ++ f) ++ q /\ ValueOf(v) = Meaning(v.chars)
        /\ nextTokenOrQuoted(u) = [value |-> Meaning(v.chars), rest |-> r]
    <3>1. q \in Texts
      BY Marks, StartsWith, Alphabets
    <3>2. nextTokenOrQuoted(u) = [value |-> Meaning(v.chars), rest |-> r]
      BY <1>0, <1>4, QuotedIs
    <3> QED BY <1>4, <3>1, <3>2, Alphabets, UnquoteChars
  <2>2. q ++ r \in Texts /\ f ++ (q ++ r) \in Texts /\ u \in Texts /\ w \in Texts /\ ~ Starts(u, Space)
    <3>1. q ++ r \in Texts /\ f ++ (q ++ r) \in Texts
      BY <1>0, <2>1, Joins
    <3>2. u \in Texts /\ ~ Starts(u, Space)
      BY <3>1, Marks, StartsWith
    <3> QED BY <2>1, <3>1, <3>2, Joins
  <2> HIDE DEF a, f, q
  <2>3. skipSpace(w) = u
    BY <2>1, <2>2, SkipMore
  <2> DEFINE g == <<"=">> ++ a
             h == g ++ q
             i == h ++ f
  <2>4. g \in Texts /\ h \in Texts /\ i \in Texts /\ i ++ q \in Texts
    BY <1>9, <2>1, Joins
  <2>5. (i ++ q) ++ r = <<"=">> ++ w
    <3> HIDE DEF g, h, i, u, w
    <3>1. (i ++ q) ++ r = i ++ (q ++ r)
      BY <1>0, <2>1, <2>4, Joins
    <3>2. i ++ (q ++ r) = h ++ (f ++ (q ++ r))
      BY <2>1, <2>2, <2>4, Joins DEF i
    <3>3. h ++ (f ++ (q ++ r)) = g ++ u
      BY <2>1, <2>2, <2>4, Joins DEF h, u
    <3>4. g ++ u = <<"=">> ++ w
      BY <1>9, <2>1, <2>2, Joins DEF g, w
    <3> QED BY <3>1, <3>2, <3>3, <3>4
  <2>6. ValueText(v) = i ++ q
    BY <2>1
  <2> HIDE DEF g, h, i, u, w
  <2> QED BY <1>2, <2>1, <2>2, <2>3, <2>4, <2>5, <2>6
<1> QED BY <1>1, <1>3, <1>4, ValueTypes

(* A parameter, with what follows it.                                      *)
LEMMA ParamIs ==
    ASSUME NEW p \in Params, NEW r, MayFollow(r)
    PROVE  LET t == ParamText(p) ++ r
           IN  /\ ParamText(p) \in Texts /\ t \in Texts /\ \A set : Starts(t, set) <=> ";" \in set
               /\ KeyOf(t).value = p.key /\ SetTo(t).value = ValueOf(p.value)
               /\ AfterParam(t) = skipSpace(r)
<1> DEFINE a == p.pre
           k == p.key
           b == p.post
           v == ValueText(p.value)
           c == p.end
           m == <<";">>
           x == v ++ (c ++ r)
           t == ParamText(p) ++ r
<1>1. /\ a \in Blanks /\ k \in Tokens /\ b \in Blanks /\ c \in Blanks /\ p.value \in Values
      /\ a \in Texts /\ k \in Texts /\ b \in Texts /\ c \in Texts /\ k \in Seq(Token)
  BY Alphabets DEF Params
<1>2. ";" \in Octets /\ m \in Texts /\ r \in Texts
  BY Separators, StartsWith DEF MayFollow
<1>3. ParamText(p) = ((((m ++ a) ++ k) ++ b) ++ v) ++ c
  BY DEF ParamText, ++
<1> HIDE DEF a, k, b, c
<1>4. MayFollow(c ++ r) /\ skipSpace(c ++ r) = skipSpace(r) /\ c ++ r \in Texts
  BY <1>1, BlanksFollow DEF MayFollow
<1>5. /\ v \in Texts /\ x \in Texts /\ ~ Starts(x, Token)
      /\ GivenTo(skipSpace(b ++ x)).value = ValueOf(p.value)
      /\ skipSpace(GivenTo(skipSpace(b ++ x)).rest) = skipSpace(c ++ r)
  BY <1>1, <1>4, ValueIs
<1> HIDE DEF v, m
<1>6. t = m ++ (a ++ (k ++ (b ++ x))) /\ ParamText(p) \in Texts
  <2> DEFINE w == (((m ++ a) ++ k) ++ b) ++ v
  <2>1. w \in Texts
    BY <1>1, <1>2, <1>5, JoinFive
  <2>2. (w ++ c) ++ r = w ++ (c ++ r) /\ w ++ c \in Texts
    <3> HIDE DEF w
    <3>1. w \in Texts /\ c \in Texts /\ r \in Texts
      BY <1>1, <1>2, <2>1
    <3> QED BY <3>1, Joins
  <2>3. w ++ (c ++ r) = ((m ++ a) ++ k) ++ (b ++ x)
    <3>1. (m ++ a) ++ k \in Texts
      BY <1>1, <1>2, Joins
    <3> DEFINE y == (m ++ a) ++ k
               z == c ++ r
    <3> HIDE DEF y, z
    <3>2. y \in Texts /\ z \in Texts
      BY <1>4, <3>1 DEF y, z
    <3>3. ((y ++ b) ++ v) ++ z = y ++ (b ++ (v ++ z))
      BY <1>1, <1>5, <3>2, JoinFour
    <3> QED BY <3>3 DEF y, z
  <2>4. ((m ++ a) ++ k) ++ (b ++ x) = m ++ (a ++ (k ++ (b ++ x)))
    <3> DEFINE y == b ++ x
    <3>1. y \in Texts
      BY <1>1, <1>5, Joins
    <3> HIDE DEF y
    <3>2. m \in Texts /\ a \in Texts /\ k \in Texts
      BY <1>1, <1>2
    <3>3. ((m ++ a) ++ k) ++ y = m ++ (a ++ (k ++ y))
      BY <3>1, <3>2, JoinFour
    <3> QED BY <3>3 DEF y
  <2> QED BY <1>3, <2>2, <2>3, <2>4
<1> HIDE DEF x, t
<1>7. b ++ x \in Texts /\ ~ Starts(b ++ x, Token)
  <2>1. Space \cap Token = {}
    BY DEF Space, Token
  <2>2. ~ Starts(b, Token)
    BY <1>1, <2>1, StartsIn DEF Blanks
  <2> QED BY <1>1, <1>5, <2>2, StartsAfter
<1>8. k ++ (b ++ x) \in Texts /\ ~ Starts(k ++ (b ++ x), Space)
  BY <1>1, <1>7, TokenLeads
<1>9. a ++ (k ++ (b ++ x)) \in Texts /\ skipSpace(a ++ (k ++ (b ++ x))) = k ++ (b ++ x)
  BY <1>1, <1>8, SkipMore
<1>10. t \in Texts /\ Tail(t) = a ++ (k ++ (b ++ x)) /\ \A set : Starts(t, set) <=> ";" \in set
  BY <1>2, <1>6, <1>9, StartsWith DEF m
<1>11. KeyOf(t) = [value |-> k, rest |-> b ++ x]
  <2>1. nextToken(k ++ (b ++ x)) = [value |-> k, rest |-> b ++ x]
    BY <1>1, <1>7, TokenIs
  <2> QED BY <1>9, <1>10, <2>1 DEF KeyOf
<1>12. SetTo(t).value = ValueOf(p.value) /\ AfterParam(t) = skipSpace(r)
  BY <1>4, <1>5, <1>11 DEF SetTo, AfterParam
<1>13. KeyOf(t).value = p.key
  BY <1>11 DEF k
<1> QED BY <1>6, <1>10, <1>12, <1>13 DEF t

(* The parameters of an item, and the items of a line.                     *)
ParamTexts(e) == [k \in DOMAIN e.params |-> ParamText(e.params[k])]
ItemTexts(l)  == [i \in DOMAIN l.items |-> <<",">> \o ItemText(l.items[i])]
EndText(l)    == l.end.mark ++ (l.end.pre ++ l.end.rest)

(* What is behind the i-th item of a line, and behind its k-th parameter.  *)
Following(l, i)         == From(ItemTexts(l), i) ++ EndText(l)
FollowingParam(l, i, k) == From(ParamTexts(l.items[i]), k) ++ Following(l, i)

LEMMA ParamTextsAre ==
    ASSUME NEW e \in Items
    PROVE  /\ ParamTexts(e) \in Seq(Texts) /\ Len(ParamTexts(e)) = Len(e.params) /\ Len(e.params) \in Nat
           /\ \A k \in 1 .. Len(e.params) : e.params[k] \in Params /\ ParamTexts(e)[k] = ParamText(e.params[k])
<1> DEFINE n == Len(e.params)
<1>1. n \in Nat /\ DOMAIN e.params = 1..n /\ \A k \in 1..n : e.params[k] \in Params
  BY ElementOfSeq, LenProperties DEF Items
<1>2. MayFollow(<<>>)
  <2>1. skipSpace(<<>>) = <<>>
    <3>1. ~ Starts(<<>>, Space)
      BY DEF Starts
    <3> QED BY <3>1, SkipMore, NoBlanks, Alphabets
  <2> QED BY <2>1, Alphabets DEF MayFollow, Starts
<1>3. \A k \in 1..n : ParamText(e.params[k]) \in Texts
  BY <1>1, <1>2, ParamIs
<1> DEFINE T(k) == ParamText(e.params[k])
<1> HIDE DEF n, T
<1>4. \A k \in 1..n : T(k) \in Texts
  BY <1>3 DEF T
<1>5. [k \in 1..n |-> T(k)] \in Seq(Texts) /\ Len([k \in 1..n |-> T(k)]) = n
  BY <1>1, <1>4
<1>6. ParamTexts(e) = [k \in 1..n |-> T(k)]
  BY <1>1 DEF ParamTexts, T
<1> QED BY <1>1, <1>5, <1>6 DEF T, n

LEMMA ItemTextIs ==
    ASSUME NEW e \in Items
    PROVE  /\ ItemText(e) = ((e.pre ++ e.name) ++ e.post) ++ From(ParamTexts(e), 0)
           /\ ItemText(e) \in Texts /\ From(ParamTexts(e), 0) \in Texts
           /\ e.pre \in Blanks /\ e.name \in Tokens /\ e.post \in Blanks
<1>1. e.pre \in Blanks /\ e.name \in Tokens /\ e.post \in Blanks /\ e.pre \in Texts /\ e.name \in Texts /\ e.post \in Texts
  BY Alphabets DEF Items
<1>2. ParamTexts(e) \in Seq(Seq(Octets)) /\ 0 \in 0 .. Len(ParamTexts(e))
  BY ParamTextsAre DEF Texts
<1>3. From(ParamTexts(e), 0) = FlattenSeq(ParamTexts(e)) /\ From(ParamTexts(e), 0) \in Texts
  BY <1>2, FromNext DEF Texts
<1>4. ItemText(e) = ((e.pre ++ e.name) ++ e.post) ++ FlattenSeq(ParamTexts(e))
  BY DEF ItemText, ParamTexts, ++
<1>5. ItemText(e) \in Texts
  <2>1. (e.pre ++ e.name) ++ e.post \in Texts
    BY <1>1, Joins
  <2> QED BY <1>3, <1>4, <2>1, Joins
<1> QED BY <1>1, <1>3, <1>4, <1>5

LEMMA ItemTextsAre ==
    ASSUME NEW l \in Lines
    PROVE  /\ ItemTexts(l) \in Seq(Texts) /\ Len(ItemTexts(l)) = Len(l.items) /\ Len(l.items) \in Nat
           /\ DOMAIN l.items = 1 .. Len(l.items)
           /\ \A i \in 1 .. Len(l.items) : l.items[i] \in Items /\ ItemTexts(l)[i] = <<",">> ++ ItemText(l.items[i])
<1> DEFINE n == Len(l.items)
           T(i) == <<",">> ++ ItemText(l.items[i])
<1>1. n \in Nat /\ DOMAIN l.items = 1..n /\ \A i \in 1..n : l.items[i] \in Items
  BY ElementOfSeq, LenProperties DEF Lines
<1>2. <<",">> \in Texts
  BY Separators, StartsWith, Alphabets
<1>3. \A i \in 1..n : ItemText(l.items[i]) \in Texts
  BY <1>1, ItemTextIs
<1>4. \A i \in 1..n : T(i) \in Texts
  BY <1>2, <1>3, Joins
<1>6. ItemTexts(l) = [i \in 1..n |-> T(i)]
  BY <1>1 DEF ItemTexts, ++
<1> HIDE DEF n, T
<1>5. [i \in 1..n |-> T(i)] \in Seq(Texts) /\ Len([i \in 1..n |-> T(i)]) = n
  BY <1>1, <1>4
<1> QED BY <1>1, <1>5, <1>6 DEF T, n

LEMMA FollowingIs ==
    ASSUME NEW l \in Lines, NEW i \in 0 .. Len(l.items)
    PROVE  /\ EndText(l) \in Texts /\ Following(l, i) \in Texts
           /\ i = Len(l.items) => Following(l, i) = EndText(l)
           /\ i < Len(l.items) => /\ ItemText(l.items[i + 1]) \in Texts
                                  /\ Following(l, i + 1) \in Texts
                                  /\ Following(l, i) = <<",">> ++ (ItemText(l.items[i + 1]) ++ Following(l, i + 1))
           /\ i = 0 => LineText(l) = Tail(Following(l, i))
<1> DEFINE n == Len(l.items)
           f == ItemTexts(l)
<1>1. n \in Nat /\ f \in Seq(Seq(Octets)) /\ Len(f) = n /\ \A x \in 1..n : l.items[x] \in Items /\ f[x] = <<",">> ++ ItemText(l.items[x])
  BY ItemTextsAre DEF Texts
<1>2. l.end.mark \in Texts /\ l.end.pre \in Texts /\ l.end.rest \in Texts
  <2>1. l.end \in [mark : {<<>>, <<",">>, <<";">>}, pre : Blanks, rest : Seq(Octets)]
    BY DEF Lines, Ends
  <2>2. <<",">> \in Texts /\ <<";">> \in Texts
    BY Separators, StartsWith, Alphabets
  <2> QED BY <2>1, <2>2, Alphabets DEF Texts
<1>3. EndText(l) \in Texts
  BY <1>2, Joins DEF EndText
<1>9. i \in 0..n /\ 0 \in 0..n /\ n \in Nat
  <2>1. n \in Nat /\ i \in 0..n
    BY <1>1
  <2> HIDE DEF n
  <2> QED BY <2>1
<1> HIDE DEF n, f
<1>4. ASSUME NEW k \in 0..n
      PROVE  /\ From(f, k) \in Texts /\ From(f, k) ++ EndText(l) \in Texts
             /\ k = 0 => From(f, k) = FlattenSeq(f)
             /\ k = n => From(f, k) = <<>>
             /\ k < n => From(f, k) = f[k + 1] \o From(f, k + 1)
  <2>1. k \in 0 .. Len(f)
    BY <1>1
  <2>2. /\ From(f, k) \in Texts
        /\ k = 0 => From(f, k) = FlattenSeq(f)
        /\ k = Len(f) => From(f, k) = <<>>
        /\ k < Len(f) => From(f, k) = f[k + 1] \o From(f, k + 1)
    BY <1>1, <2>1, FromNext DEF Texts
  <2> QED BY <1>1, <1>3, <2>2, Joins
<1>5. ASSUME i = n PROVE Following(l, i) = EndText(l)
  <2>1. From(f, i) = <<>>
    BY <1>4, <1>5, <1>9
  <2> QED BY <1>3, <2>1, NothingFirst DEF Following, f
<1>6. ASSUME i < n
      PROVE  /\ ItemText(l.items[i + 1]) \in Texts
             /\ Following(l, i + 1) \in Texts
             /\ Following(l, i) = <<",">> ++ (ItemText(l.items[i + 1]) ++ Following(l, i + 1))
  <2> DEFINE a == ItemText(l.items[i + 1])
             b == From(f, i + 1)
             e == EndText(l)
             m == <<",">>
  <2>1. i + 1 \in 1..n /\ i + 1 \in 0..n /\ i \in 0..n
    BY <1>6, <1>9
  <2>2. a \in Texts
    BY <1>1, <2>1, ItemTextIs
  <2>3. b \in Texts /\ b ++ e \in Texts /\ e \in Texts
    BY <1>3, <1>4, <2>1
  <2>4. m \in Texts
    BY Separators, StartsWith, Alphabets
  <2>5. From(f, i) = (m ++ a) ++ b
    <3>1. From(f, i) = f[i + 1] \o b
      BY <1>4, <1>6, <2>1
    <3>2. f[i + 1] = m ++ a
      BY <1>1, <2>1
    <3> HIDE DEF a, b, m
    <3> QED BY <3>1, <3>2, Zenon DEF ++
  <2> HIDE DEF a, b, e, m
  <2>6. ((m ++ a) ++ b) ++ e = m ++ (a ++ (b ++ e))
    BY <2>2, <2>3, <2>4, JoinFour
  <2>7. Following(l, i) = ((m ++ a) ++ b) ++ e /\ Following(l, i + 1) = b ++ e
    BY <2>5 DEF Following, f, b, e
  <2> QED BY <2>2, <2>3, <2>6, <2>7 DEF a, m
<1>7. ASSUME i = 0 PROVE LineText(l) = Tail(Following(l, i))
  <2> DEFINE a == FlattenSeq(f)
             b == l.end.mark
             c == l.end.pre
             d == l.end.rest
  <2>1. Following(l, 0) = a ++ (b ++ (c ++ d)) /\ a \in Texts
    <3>1. From(f, 0) = a /\ From(f, 0) \in Texts
      BY <1>4, <1>9
    <3> QED BY <3>1 DEF Following, EndText, f
  <2>2. LineText(l) = Tail(((a ++ b) ++ c) ++ d)
    BY DEF LineText, f, ItemTexts, ++
  <2>3. b \in Texts /\ c \in Texts /\ d \in Texts
    BY <1>2
  <2> HIDE DEF a, b, c, d
  <2>4. ((a ++ b) ++ c) ++ d = a ++ (b ++ (c ++ d))
    BY <2>1, <2>3, JoinFour
  <2> QED BY <1>7, <2>1, <2>2, <2>4
<1>8. Following(l, i) \in Texts
  BY <1>4 DEF Following, f, n
<1> QED BY <1>3, <1>5, <1>6, <1>7, <1>8 DEF n

LEMMA KeptIs ==
    ASSUME NEW l \in Lines
    PROVE  /\ DOMAIN Kept(l) = 1 .. Len(Kept(l)) /\ Len(Kept(l)) \in Nat
           /\ \A i \in 1 .. Len(Kept(l)) : Kept(l)[i] = l.items[i] /\ Kept(l)[i] \in Items
           /\ IF l.end.mark = <<";">> \/ (l.end.mark = <<>> /\ l.end.rest # <<>>)
              THEN Len(Kept(l)) = Len(l.items) - 1 ELSE Len(Kept(l)) = Len(l.items)
           /\ l.items = <<>> => l.end.mark = <<",">>
<1> DEFINE n == Len(l.items)
           lost == l.end.mark = <<";">> \/ (l.end.mark = <<>> /\ l.end.rest # <<>>)
<1>1. /\ l.items \in Seq(Items) /\ n \in Nat /\ DOMAIN l.items = 1..n
      /\ \A i \in 1..n : l.items[i] \in Items
      /\ l.items = <<>> => l.end.mark = <<",">>
      /\ n = 0 => l.items = <<>>
  BY LenProperties, ElementOfSeq, EmptySeq DEF Lines
<1>2. CASE ~ lost
  <2>1. Kept(l) = l.items
    BY <1>2 DEF Kept
  <2> QED BY <1>1, <1>2, <2>1
<1>3. CASE lost
  <2>1. n > 0 /\ n - 1 \in 0..n
    <3>1. <<",">> # <<";">> /\ <<",">> # <<>>
      OBVIOUS
    <3>2. l.items # <<>>
      BY <1>1, <1>3, <3>1, Zenon
    <3>3. n # 0
      BY <1>1, <3>2
    <3>4. n \in Nat
      BY <1>1
    <3> HIDE DEF n
    <3> QED BY <3>3, <3>4
  <2>2. Kept(l) = SubSeq(l.items, 1, n - 1)
    BY <1>3 DEF Kept, Front
  <2> DEFINE m == n - 1
  <2>3. m \in Int /\ m \in Nat /\ \A i \in 1..m : l.items[i] \in Items
    <3>1. n \in Nat /\ \A i \in 1..n : l.items[i] \in Items
      BY <1>1
    <3> HIDE DEF n
    <3>2. m \in Int /\ m \in Nat /\ m <= n
      BY <2>1, <3>1
    <3> HIDE DEF m
    <3> QED BY <3>1, <3>2
  <2> HIDE DEF m
  <2>4. /\ SubSeq(l.items, 1, m) \in Seq(Items) /\ Len(SubSeq(l.items, 1, m)) = IF 1 <= m THEN m - 1 + 1 ELSE 0
        /\ \A i \in 1 .. m - 1 + 1 : SubSeq(l.items, 1, m)[i] = l.items[1 + i - 1]
    BY <2>3, SubSeqProperties
  <2>5. Kept(l) = SubSeq(l.items, 1, m)
    BY <2>2 DEF m
  <2>6. Kept(l) \in Seq(Items) /\ Len(Kept(l)) = m /\ \A i \in 1..m : Kept(l)[i] = l.items[i]
    BY <2>3, <2>4, <2>5
  <2>7. DOMAIN Kept(l) = 1..m
    BY <2>6, LenProperties
  <2> QED BY <1>1, <1>3, <2>3, <2>6, <2>7 DEF m
<1> QED BY <1>2, <1>3


(* How a line ends: with a separator and nothing in order behind it, with  *)
(* blanks, or with something out of order.                                 *)
EndsWith(l, x, r, lost) ==
    /\ r \in Texts /\ x \in {",", ";"} /\ EndText(l) = <<x>> ++ r
    /\ nextToken(skipSpace(r)).value = <<>>
    /\ lost <=> x = ";"

EndsPlain(l, lost) ==
    /\ ~ Starts(EndText(l), Token) /\ ~ Starts(skipSpace(EndText(l)), {",", ";", "="})
    /\ lost <=> skipSpace(EndText(l)) # <<>>

LEMMA EndIs ==
    ASSUME NEW l \in Lines
    PROVE  LET lost == l.end.mark = <<";">> \/ (l.end.mark = <<>> /\ l.end.rest # <<>>)
           IN  \/ \E x, r : EndsWith(l, x, r, lost)
               \/ EndsPlain(l, lost) /\ l.end.mark = <<>>
<1> DEFINE m == l.end.mark
           a == l.end.pre
           b == l.end.rest
           lost == m = <<";">> \/ (m = <<>> /\ b # <<>>)
<1>1. /\ m \in {<<>>, <<",">>, <<";">>} /\ a \in Blanks /\ b \in Texts /\ a \in Texts
      /\ IF m # <<>> THEN ~ Starts(b, Token \cup Space)
         ELSE b = <<>> \/ Starts(b, Stray) \/ (a # <<>> /\ Starts(b, Token))
  <2>1. l.end \in Ends
    BY DEF Lines
  <2> QED BY <2>1, Alphabets DEF Ends, Texts
<1>2. EndText(l) = m ++ (a ++ b)
  BY DEF EndText
<1>3. a ++ b \in Texts /\ (~ Starts(b, Space) => skipSpace(a ++ b) = b)
  BY <1>1, SkipMore
<1>4. <<",">> # <<";">> /\ <<",">> # <<>> /\ <<";">> # <<>>
  OBVIOUS
<1> HIDE DEF m, a, b
<1>5. ASSUME NEW x \in {",", ";"}, m = <<x>>
      PROVE  EndsWith(l, x, a ++ b, lost)
  <2>1. ~ Starts(b, Token) /\ ~ Starts(b, Space)
    BY <1>1, <1>5 DEF Starts
  <2>2. nextToken(b).value = <<>>
    <3>1. <<>> ++ b = b /\ nextToken(<<>> ++ b) = [value |-> <<>>, rest |-> b]
      BY <1>1, <2>1, NoBlanks, NothingFirst, TokenIs
    <3>2. nextToken(b) = [value |-> <<>>, rest |-> b]
      BY <3>1, Zenon
    <3>3. [value |-> <<>>, rest |-> b].value = <<>>
      OBVIOUS
    <3> HIDE DEF nextToken
    <3> QED BY <3>2, <3>3, Zenon
  <2>3. lost <=> x = ";"
    BY <1>4, <1>5
  <2> QED BY <1>2, <1>3, <1>5, <2>1, <2>2, <2>3 DEF EndsWith
<1>6. ASSUME m = <<>> PROVE EndsPlain(l, lost)
  <2>1. EndText(l) = a ++ b
    BY <1>2, <1>3, <1>6, NothingFirst
  <2>2. ~ Starts(b, Space) /\ ~ Starts(b, {",", ";", "="}) /\ (a = <<>> => ~ Starts(b, Token))
    <3>1. b = <<>> \/ Starts(b, Stray) \/ Starts(b, Token)
      BY <1>1, <1>6
    <3>2. a = <<>> => b = <<>> \/ Starts(b, Stray)
      BY <1>1, <1>6
    <3>3. \A c \in Stray : c \notin Space /\ c \notin {",", ";", "="} /\ c \notin Token
      BY Marks DEF Stray, Space, Token
    <3>4. \A c \in Token : c \notin Space /\ c \notin {",", ";", "="}
      BY DEF Space, Token
    <3> QED BY <3>1, <3>2, <3>3, <3>4 DEF Starts
  <2>3. skipSpace(EndText(l)) = b
    BY <1>3, <2>1, <2>2
  <2>4. ~ Starts(EndText(l), Token)
    <3>1. Space \cap Token = {}
      BY DEF Space, Token
    <3>2. ~ Starts(a, Token)
      BY <1>1, <3>1, StartsIn DEF Blanks
    <3>3. CASE a = <<>>
      BY <1>1, <2>1, <2>2, <3>3, NothingFirst
    <3>4. CASE a # <<>>
      <4>1. Starts(a ++ b, Token) <=> Starts(a, Token)
        BY <1>1, <3>4, StartsAfter
      <4> QED BY <2>1, <3>2, <4>1
    <3> QED BY <3>3, <3>4
  <2>5. lost <=> b # <<>>
    BY <1>4, <1>6
  <2> HIDE DEF lost
  <2> QED BY <2>2, <2>3, <2>4, <2>5 DEF EndsPlain
<1> QED BY <1>1, <1>5, <1>6 DEF m, b

(* What follows an item decides whether it is kept.                        *)
Goes(l, i)  == Starts(Following(l, i), {","}) /\ skipSpace(Following(l, i)) = Following(l, i) /\ i <= Len(Kept(l))
Stops(l, i) == skipSpace(Following(l, i)) = <<>> /\ i = Len(l.items) /\ Len(Kept(l)) = i
Fails(l, i) ==
    LET c == skipSpace(Following(l, i))
    IN  /\ c # <<>> /\ ~ Starts(c, {","}) /\ i = Len(l.items) /\ Len(Kept(l)) = i - 1
        /\ Starts(c, {";"}) => KeyOf(c).value = <<>>

LEMMA FollowsIs ==
    ASSUME NEW l \in Lines, NEW i \in 0 .. Len(l.items)
    PROVE  /\ MayFollow(Following(l, i))
           /\ Goes(l, i) \/ Stops(l, i) \/ Fails(l, i)
           /\ Goes(l, i) /\ i = Len(l.items) => /\ Len(Kept(l)) = i
                                                /\ nextToken(skipSpace(Tail(Following(l, i)))).value = <<>>
           /\ i = 0 => Goes(l, i)
<1> DEFINE n == Len(l.items)
           K == Len(Kept(l))
           lost == l.end.mark = <<";">> \/ (l.end.mark = <<>> /\ l.end.rest # <<>>)
           t == Following(l, i)
<1>1. /\ n \in Nat /\ K \in Nat /\ i \in 0..n /\ (n = 0 => l.end.mark = <<",">>)
      /\ (lost => K = n - 1) /\ (~ lost => K = n)
  <2>1. n \in Nat /\ (n = 0 => l.items = <<>>)
    BY ItemTextsAre, EmptySeq DEF Lines
  <2>2. /\ K \in Nat /\ (l.items = <<>> => l.end.mark = <<",">>)
        /\ IF lost THEN K = n - 1 ELSE K = n
    BY KeptIs
  <2> HIDE DEF n, K, lost
  <2>3. i \in 0..n
    BY DEF n
  <2> QED BY <2>1, <2>2, <2>3
<1>2. /\ t \in Texts /\ EndText(l) \in Texts
      /\ i = n => t = EndText(l)
      /\ i < n => t = <<",">> ++ (ItemText(l.items[i + 1]) ++ Following(l, i + 1))
                  /\ ItemText(l.items[i + 1]) ++ Following(l, i + 1) \in Texts
  BY FollowingIs, Joins
<1>8. n = 0 => ~ lost
  <2>1. <<",">> # <<";">> /\ <<",">> # <<>>
    OBVIOUS
  <2> HIDE DEF n
  <2> QED BY <1>1, <2>1
<1> HIDE DEF n, K, t, lost
<1>9. n \in Nat /\ i \in 0..n /\ i \in Nat
  <2>1. n \in Nat /\ i \in 0..n
    BY <1>1
  <2> QED BY <2>1
<1>10. (lost => K = n - 1) /\ (~ lost => K = n) /\ K \in Nat /\ (n = 0 => ~ lost)
  BY <1>1, <1>8, Zenon
<1>3. ASSUME NEW x \in {",", ";"}, NEW r \in Texts, t = <<x>> ++ r
      PROVE  MayFollow(t) /\ skipSpace(t) = t /\ t # <<>> /\ Tail(t) = r /\ \A set : Starts(t, set) <=> x \in set
  <2>1. x \in Octets /\ x \notin Token /\ x \notin Space /\ x # "="
    BY Separators
  <2>2. t # <<>> /\ Tail(t) = r /\ \A set : Starts(t, set) <=> x \in set
    BY <1>3, <2>1, StartsWith
  <2>3. skipSpace(t) = t
    BY <1>2, <2>1, <2>2, SkipMore, NoBlanks
  <2> QED BY <1>2, <2>1, <2>2, <2>3 DEF MayFollow
<1>4. CASE i < n
  <2>1. MayFollow(t) /\ skipSpace(t) = t /\ Starts(t, {","})
    BY <1>2, <1>3, <1>4
  <2>2. i <= K /\ i # n
    BY <1>4, <1>9, <1>10
  <2> QED BY <2>1, <2>2 DEF Goes, t, n, K
<1>5. CASE i = n /\ \E x, r : EndsWith(l, x, r, lost)
  <2>1. PICK x, r : EndsWith(l, x, r, lost)
    BY <1>5
  <2>2. x \in {",", ";"} /\ r \in Texts /\ t = <<x>> ++ r /\ nextToken(skipSpace(r)).value = <<>> /\ (lost <=> x = ";")
    BY <1>2, <1>5, <2>1 DEF EndsWith
  <2>3. MayFollow(t) /\ skipSpace(t) = t /\ t # <<>> /\ Tail(t) = r /\ \A set : Starts(t, set) <=> x \in set
    BY <1>3, <2>2
  <2>4. CASE x = ","
    <3>1. Starts(t, {","}) /\ ~ lost
      BY <2>2, <2>3, <2>4
    <3>2. K = n /\ i = n
      BY <1>5, <1>10, <3>1, Zenon
    <3>3. i <= K
      BY <1>9, <3>2
    <3> QED BY <1>5, <3>2, <3>3, <2>2, <2>3, <3>1 DEF Goes, t, n, K
  <2>5. CASE x = ";"
    <3>1. K = n - 1 /\ ~ Starts(t, {","}) /\ i # 0
      <4>1. K = n - 1 /\ n # 0
        BY <1>10, <2>2, <2>5
      <4>2. ~ Starts(t, {","})
        BY <2>3, <2>5
      <4> QED BY <1>5, <4>1, <4>2
    <3>2. KeyOf(t).value = <<>>
      BY <2>2, <2>3 DEF KeyOf
    <3> QED BY <1>5, <2>3, <3>1, <3>2 DEF Goes, Fails, t, n, K
  <2> QED BY <2>2, <2>4, <2>5
<1>6. CASE i = n /\ EndsPlain(l, lost) /\ l.end.mark = <<>>
  <2>1. t = EndText(l)
    BY <1>2, <1>6
  <2>2. ~ Starts(t, Token) /\ ~ Starts(skipSpace(t), {",", ";", "="}) /\ (lost <=> skipSpace(t) # <<>>)
    BY <1>6, <2>1 DEF EndsPlain
  <2>3. MayFollow(t) /\ ~ Starts(skipSpace(t), {","}) /\ ~ Starts(skipSpace(t), {";"})
    BY <1>2, <2>2 DEF MayFollow, Starts
  <2>4. ~ Goes(l, i) /\ i = n /\ (i = 0 => FALSE)
    <3>1. <<",">> # <<>>
      OBVIOUS
    <3>2. ~ Goes(l, i)
      BY <2>3 DEF Goes, t
    <3>3. i = n /\ (n = 0 => FALSE)
      BY <1>1, <1>6, <3>1, Zenon
    <3> QED BY <3>2, <3>3
  <2>5. CASE lost
    <3>1. K = i - 1 /\ skipSpace(t) # <<>>
      <4>1. K = n - 1
        BY <1>10, <2>5, Zenon
      <4> QED BY <2>2, <2>4, <2>5, <4>1
    <3> QED BY <2>3, <2>4, <3>1 DEF Fails, t, n, K
  <2>6. CASE ~ lost
    <3>1. K = i /\ skipSpace(t) = <<>>
      BY <1>10, <2>2, <2>4, <2>6
    <3> QED BY <2>3, <2>4, <3>1 DEF Stops, t, n, K
  <2> QED BY <2>5, <2>6
<1>7. i < n \/ i = n
  BY <1>9
<1> QED BY <1>4, <1>5, <1>6, <1>7, EndIs DEF lost

LEMMA ParamStarts ==
    ASSUME NEW p \in Params, NEW r \in Texts
    PROVE  /\ ParamText(p) ++ r \in Texts
           /\ \A set : Starts(ParamText(p) ++ r, set) <=> ";" \in set
           /\ MayFollow(ParamText(p) ++ r) /\ skipSpace(ParamText(p) ++ r) = ParamText(p) ++ r
<1> DEFINE a == ParamText(p)
<1>1. MayFollow(<<>>)
  <2>1. skipSpace(<<>>) = <<>>
    <3>1. ~ Starts(<<>>, Space)
      BY DEF Starts
    <3> QED BY <3>1, SkipMore, NoBlanks, Alphabets
  <2> QED BY <2>1, Alphabets DEF MayFollow, Starts
<1>2. a \in Texts /\ \A set : Starts(a ++ <<>>, set) <=> ";" \in set
  BY <1>1, ParamIs
<1>3. a # <<>>
  <2>1. Starts(a ++ <<>>, {";"})
    BY <1>2
  <2>2. ~ Starts(<<>>, {";"})
    BY DEF Starts
  <2> HIDE DEF a
  <2> QED BY <1>2, <2>1, <2>2, StartsAfter, Alphabets
<1> HIDE DEF a
<1>4. \A set : Starts(a ++ r, set) <=> Starts(a ++ <<>>, set)
  BY <1>2, <1>3, StartsAfter, Alphabets
<1>5. a ++ r \in Texts /\ \A set : Starts(a ++ r, set) <=> ";" \in set
  BY <1>2, <1>4, Joins
<1>6. ";" \notin Space /\ ";" \notin Token /\ ";" # "="
  BY Separators
<1>7. skipSpace(a ++ r) = a ++ r
  BY <1>5, <1>6, SkipMore, NoBlanks
<1> QED BY <1>5, <1>6, <1>7 DEF MayFollow, a

(* f is how n parameters are written.                                      *)
Written(ps, f, n) ==
    /\ n \in Nat /\ f \in Seq(Texts) /\ Len(f) = n
    /\ \A x \in 1..n : ps[x] \in Params /\ f[x] = ParamText(ps[x])

LEMMA ParamsFrom ==
    ASSUME NEW n, NEW ps, NEW f, Written(ps, f, n), NEW b, MayFollow(b), NEW k \in 0..n
    PROVE  LET t == From(f, k) ++ b
           IN  /\ MayFollow(t)
               /\ k = n => t = b
               /\ k < n => /\ t = ParamText(ps[k + 1]) ++ (From(f, k + 1) ++ b)
                           /\ ps[k + 1] \in Params /\ From(f, k + 1) ++ b \in Texts
<1> DEFINE t == From(f, k) ++ b
<1>1. b \in Texts
  BY DEF MayFollow
<1>0. n \in Nat /\ f \in Seq(Seq(Octets)) /\ Len(f) = n
  BY DEF Written, Texts
<1>2. /\ From(f, k) \in Texts
      /\ k = n => From(f, k) = <<>>
      /\ k < n => From(f, k) = f[k + 1] \o From(f, k + 1)
  BY <1>0, FromNext DEF Texts
<1>3. CASE k = n
  <2>1. t = b
    <3>1. From(f, k) = <<>>
      BY <1>2, <1>3
    <3>2. <<>> ++ b = b
      BY <1>1, NothingFirst
    <3> QED BY <3>1, <3>2
  <2>2. ~(k < n)
    BY <1>3
  <2> QED BY <1>3, <2>1, <2>2
<1>4. CASE k < n
  <2> DEFINE p == ps[k + 1]
             F == From(f, k + 1)
             r == F ++ b
  <2>1. k + 1 \in 1..n /\ k + 1 \in 0..n /\ ~(k = n)
    BY <1>0, <1>4
  <2>2. F \in Texts
    BY <1>0, <2>1, FromNext DEF Texts
  <2>3. p \in Params /\ f[k + 1] = ParamText(p)
    BY <2>1 DEF Written
  <2>4. ParamText(p) \in Texts
    BY <2>3, ParamIs
  <2>5. From(f, k) = ParamText(p) ++ F
    BY <1>2, <1>4, <2>3 DEF ++
  <2> HIDE DEF p, F
  <2>6. r \in Texts /\ (ParamText(p) ++ F) ++ b = ParamText(p) ++ r
    BY <1>1, <2>2, <2>4, Joins
  <2>7. t = ParamText(p) ++ r
    BY <2>5, <2>6
  <2> HIDE DEF t, r
  <2>8. MayFollow(t)
    BY <2>3, <2>6, <2>7, ParamStarts
  <2> QED BY <2>1, <2>3, <2>6, <2>7, <2>8 DEF t, r, p, F
<1>5. k = n \/ k < n
  BY <1>0
<1> QED BY <1>3, <1>4, <1>5

LEMMA FollowingParamIs ==
    ASSUME NEW l \in Lines, NEW i \in 1 .. Len(l.items), NEW k \in 0 .. Len(l.items[i].params)
    PROVE  LET t == FollowingParam(l, i, k)
               p == l.items[i].params[k + 1]
           IN  /\ MayFollow(t)
               /\ k = Len(l.items[i].params) => t = Following(l, i)
               /\ k < Len(l.items[i].params) =>
                     /\ p \in Params /\ skipSpace(t) = t /\ \A set : Starts(t, set) <=> ";" \in set
                     /\ KeyOf(t).value = p.key /\ SetTo(t).value = ValueOf(p.value)
                     /\ AfterParam(t) = skipSpace(FollowingParam(l, i, k + 1))
<1> DEFINE e == l.items[i]
           n == Len(e.params)
           f == ParamTexts(e)
           b == Following(l, i)
           t == FollowingParam(l, i, k)
           r == FollowingParam(l, i, k + 1)
           p == e.params[k + 1]
<1>1. e \in Items /\ i \in 0 .. Len(l.items)
  <2>1. Len(l.items) \in Nat /\ e \in Items
    BY ItemTextsAre
  <2> QED BY <2>1
<1>2. MayFollow(b)
  BY <1>1, FollowsIs
<1>3. Written(e.params, f, n) /\ n \in Nat
  BY <1>1, ParamTextsAre DEF Written
<1>4. k \in 0..n
  OBVIOUS
<1> HIDE DEF n, f, b, e
<1>5. /\ MayFollow(t)
      /\ k = n => t = b
      /\ k < n => p \in Params /\ t = ParamText(p) ++ r /\ r \in Texts
  <2>1. t = From(f, k) ++ b /\ r = From(f, k + 1) ++ b
    BY DEF FollowingParam, f, e, b
  <2> QED BY <1>2, <1>3, <1>4, <2>1, ParamsFrom
<1>6. ASSUME k < n PROVE MayFollow(r)
  <2>1. k + 1 \in 0..n
    BY <1>3, <1>4, <1>6
  <2>2. r = From(f, k + 1) ++ b
    BY DEF FollowingParam, f, e, b
  <2> HIDE DEF r
  <2> QED BY <1>2, <1>3, <2>1, <2>2, ParamsFrom
<1> HIDE DEF t, r, p
<1>7. ASSUME k < n
      PROVE  /\ p \in Params /\ skipSpace(t) = t /\ \A set : Starts(t, set) <=> ";" \in set
             /\ KeyOf(t).value = p.key /\ SetTo(t).value = ValueOf(p.value)
             /\ AfterParam(t) = skipSpace(r)
  <2>1. p \in Params /\ t = ParamText(p) ++ r /\ r \in Texts /\ MayFollow(r)
    BY <1>5, <1>6, <1>7
  <2>2. /\ KeyOf(t).value = p.key /\ SetTo(t).value = ValueOf(p.value) /\ AfterParam(t) = skipSpace(r)
    BY <2>1, ParamIs
  <2>3. skipSpace(t) = t /\ \A set : Starts(t, set) <=> ";" \in set
    BY <2>1, ParamStarts
  <2> QED BY <2>1, <2>2, <2>3
<1>8. /\ MayFollow(t)
      /\ k = n => t = b
      /\ k < n => /\ p \in Params /\ skipSpace(t) = t /\ \A set : Starts(t, set) <=> ";" \in set
                  /\ KeyOf(t).value = p.key /\ SetTo(t).value = ValueOf(p.value)
                  /\ AfterParam(t) = skipSpace(r)
  BY <1>5, <1>7
<1> QED BY <1>8 DEF t, r, p, n, e, b

LEMMA ItemIs ==
    ASSUME NEW e \in Items, NEW B \in Texts, NEW y, MayFollow(y), y = From(ParamTexts(e), 0) ++ B
    PROVE  /\ ItemText(e) ++ B \in Texts /\ e.name # <<>>
           /\ nextToken(skipSpace(ItemText(e) ++ B)).value = e.name
           /\ skipSpace(nextToken(skipSpace(ItemText(e) ++ B)).rest) = skipSpace(y)
<1> DEFINE a == e.pre
           m == e.name
           c == e.post
           F == From(ParamTexts(e), 0)
           T == ItemText(e)
           t == nextToken(skipSpace(T ++ B))
<1>1. /\ T = ((a ++ m) ++ c) ++ F /\ F \in Texts /\ T \in Texts
      /\ a \in Blanks /\ m \in Tokens /\ c \in Blanks
      /\ a \in Texts /\ m \in Texts /\ c \in Texts /\ m \in Seq(Token) /\ m # <<>>
  BY ItemTextIs, Alphabets DEF Tokens
<1>2. y = F ++ B
  OBVIOUS
<1> HIDE DEF a, m, c, F, T
<1>3. T ++ B = a ++ (m ++ (c ++ y)) /\ T ++ B \in Texts
  <2>1. a \in Texts /\ m \in Texts /\ c \in Texts /\ F \in Texts /\ B \in Texts
    BY <1>1
  <2>2. /\ (((a ++ m) ++ c) ++ F) ++ B \in Texts
        /\ (((a ++ m) ++ c) ++ F) ++ B = a ++ (m ++ (c ++ (F ++ B)))
    BY <2>1, JoinFive
  <2> QED BY <1>1, <1>2, <2>2
<1>4. MayFollow(c ++ y) /\ skipSpace(c ++ y) = skipSpace(y) /\ c ++ y \in Texts
  BY <1>1, BlanksFollow DEF MayFollow
<1>5. m ++ (c ++ y) \in Texts /\ ~ Starts(m ++ (c ++ y), Space)
  BY <1>1, <1>4, TokenLeads
<1>6. skipSpace(T ++ B) = m ++ (c ++ y)
  BY <1>1, <1>3, <1>5, SkipMore
<1>7. t = [value |-> m, rest |-> c ++ y]
  BY <1>1, <1>4, <1>6, TokenIs DEF MayFollow
<1> HIDE DEF t
<1>8. t.value = m /\ t.rest = c ++ y
  BY <1>7
<1> QED BY <1>1, <1>3, <1>4, <1>8 DEF m, t, T

LEMMA ItemBegins ==
    ASSUME NEW l \in Lines, NEW i \in 0 .. Len(l.items), i < Len(l.items)
    PROVE  LET t == nextToken(skipSpace(Tail(Following(l, i))))
           IN  /\ l.items[i + 1] \in Items /\ i + 1 \in 1 .. Len(l.items)
               /\ t.value = l.items[i + 1].name /\ t.value # <<>>
               /\ skipSpace(t.rest) = skipSpace(FollowingParam(l, i + 1, 0))
<1> DEFINE n == Len(l.items)
           e == l.items[i + 1]
           B == Following(l, i + 1)
           y == FollowingParam(l, i + 1, 0)
<1>1. i + 1 \in 1..n /\ i + 1 \in 0..n
  <2>1. n \in Nat /\ i \in 0..n /\ i < n
    BY ItemTextsAre
  <2> HIDE DEF n
  <2> QED BY <2>1
<1>2. e \in Items
  BY <1>1, ItemTextsAre
<1>3. /\ ItemText(e) \in Texts /\ B \in Texts /\ Following(l, i) = <<",">> ++ (ItemText(e) ++ B)
  BY FollowingIs
<1>4. y = From(ParamTexts(e), 0) ++ B /\ MayFollow(y)
  <2>1. 0 \in 0 .. Len(e.params)
    BY <1>2, ParamTextsAre
  <2> QED BY <1>1, <2>1, FollowingParamIs DEF FollowingParam
<1> HIDE DEF e, B, y
<1>5. Tail(Following(l, i)) = ItemText(e) ++ B
  <2>1. ItemText(e) ++ B \in Texts /\ "," \in Octets
    BY <1>3, Joins, Separators
  <2> QED BY <1>3, <2>1, StartsWith
<1>6. /\ e.name # <<>>
      /\ nextToken(skipSpace(ItemText(e) ++ B)).value = e.name
      /\ skipSpace(nextToken(skipSpace(ItemText(e) ++ B)).rest) = skipSpace(y)
  BY <1>2, <1>3, <1>4, ItemIs
<1> QED BY <1>1, <1>2, <1>5, <1>6 DEF e, y

(* What the first k parameters of a list give.                             *)
Given(ps, k) == [key \in {ps[x].key : x \in 1..k} |-> ValueOf(ps[Max({x \in 1..k : ps[x].key = key})].value)]

LEMMA GivenIs ==
    ASSUME NEW ps, NEW k \in Nat
    PROVE  /\ Given(ps, 0) = <<>>
           /\ Given(ps, k + 1) = With(Given(ps, k), ps[k + 1].key, ValueOf(ps[k + 1].value))
<1> DEFINE D(n) == {ps[x].key : x \in 1..n}
           I(n, key) == {x \in 1..n : ps[x].key = key}
           V(n, key) == ValueOf(ps[Max(I(n, key))].value)
           c == ps[k + 1].key
           v == ValueOf(ps[k + 1].value)
           g == Given(ps, k)
           h == Given(ps, k + 1)
<1>1. Given(ps, 0) = <<>>
  <2>1. D(0) = {}
    OBVIOUS
  <2>2. Given(ps, 0) = [key \in {} |-> V(0, key)]
    BY <2>1 DEF Given
  <2> HIDE DEF V
  <2> QED BY <2>2
<1>2. DOMAIN g = D(k) /\ \A key \in D(k) : g[key] = V(k, key)
  BY DEF Given
<1>3. h = [key \in D(k + 1) |-> V(k + 1, key)]
  BY DEF Given
<1>4. 1 .. k + 1 = (1..k) \cup {k + 1}
  OBVIOUS
<1>5. D(k + 1) = {c} \cup D(k)
  BY <1>4
<1>6. V(k + 1, c) = v
  <2> DEFINE own == I(k + 1, c)
  <2>1. k + 1 \in own /\ own \subseteq Nat /\ \A y \in own : y <= k + 1
    OBVIOUS
  <2> HIDE DEF own
  <2>2. Max(own) = k + 1
    BY <2>1, MaxIs
  <2> QED BY <2>2 DEF own
<1>7. ASSUME NEW key, key # c PROVE V(k + 1, key) = V(k, key)
  <2>1. I(k + 1, key) = I(k, key)
    BY <1>4, <1>7
  <2> QED BY <2>1
<1>8. With(g, c, v) = [key \in {c} \cup D(k) |-> IF key = c THEN v ELSE g[key]]
  <2>1. With(g, c, v) = [key \in DOMAIN g \cup {c} |-> IF key = c THEN v ELSE g[key]]
    BY DEF With
  <2>2. DOMAIN g \cup {c} = {c} \cup D(k)
    BY <1>2
  <2> HIDE DEF g, v, c, D
  <2> QED BY <2>1, <2>2
<1> HIDE DEF D, V, g, c, v
<1>9. ASSUME NEW key \in {c} \cup D(k)
      PROVE  V(k + 1, key) = IF key = c THEN v ELSE g[key]
  BY <1>2, <1>6, <1>7
<1>10. h = With(g, c, v)
  BY <1>3, <1>5, <1>8, <1>9
<1> QED BY <1>1, <1>10 DEF g, c, v

(* An item whose first k parameters have been read.                        *)
Read(e, k) == [name |-> e.name, params |-> Given(e.params, k)]

LEMMA ReadIs ==
    ASSUME NEW e \in Items, NEW k \in 0 .. Len(e.params)
    PROVE  /\ Read(e, 0) = [name |-> e.name, params |-> <<>>]
           /\ k < Len(e.params) =>
                 Read(e, k + 1) = [Read(e, k) EXCEPT !.params = With(@, e.params[k + 1].key, ValueOf(e.params[k + 1].value))]
           /\ k = Len(e.params) => Read(e, k) = Means(e)
<1> DEFINE n == Len(e.params)
<1>1. n \in Nat /\ k \in 0..n /\ DOMAIN e.params = 1..n
  BY ParamTextsAre, LenProperties DEF Items
<1>2. Read(e, 0) = [name |-> e.name, params |-> <<>>]
  BY GivenIs DEF Read
<1>3. k \in Nat
  <2> HIDE DEF n
  <2> QED BY <1>1
<1>4. Read(e, k + 1) = [Read(e, k) EXCEPT !.params = With(@, e.params[k + 1].key, ValueOf(e.params[k + 1].value))]
  <2> DEFINE new == With(Given(e.params, k), e.params[k + 1].key, ValueOf(e.params[k + 1].value))
             g == Given(e.params, k)
             m == e.name
  <2>1. Given(e.params, k + 1) = new
    BY <1>3, GivenIs
  <2>2. Read(e, k) = [name |-> m, params |-> g] /\ Read(e, k + 1) = [name |-> m, params |-> new]
    BY <2>1 DEF Read
  <2>3. Read(e, k).params = g
    BY <2>2
  <2> HIDE DEF m, g, new, Read
  <2>4. [Read(e, k) EXCEPT !.params = new] = [name |-> m, params |-> new]
    BY <2>2
  <2> QED BY <2>2, <2>3, <2>4 DEF new, g
<1>5. Read(e, n) = Means(e)
  BY <1>1 DEF Read, Given, Means
<1> QED BY <1>2, <1>4, <1>5

LEMMA FoldIs ==
    ASSUME NEW t \in Seq(Token), NEW u \in Seq(Token)
    PROVE  equalASCIIFold(t, u) <=> SameWord(t, u)
<1>1. /\ DOMAIN t = 1 .. Len(t) /\ DOMAIN u = 1 .. Len(u) /\ Len(t) \in Nat /\ Len(u) \in Nat
      /\ \A i \in 1 .. Len(t) : t[i] \in Token
      /\ \A i \in 1 .. Len(u) : u[i] \in Token
  BY LenProperties, ElementOfSeq
<1> DEFINE L(c) == IF c = "A" THEN "a" ELSE c
           m == Len(t)
           n == Len(u)
<1>2. Lower(t) = [i \in 1..m |-> L(t[i])] /\ Lower(u) = [i \in 1..n |-> L(u[i])]
  BY <1>1 DEF Lower
<1>3. \A c, d \in Token : L(c) = L(d) <=> c = d \/ {c, d} = {"a", "A"}
  BY DEF Token
<1> HIDE DEF L
<1>4. CASE m = n
  <2>1. Lower(t) = Lower(u) <=> \A i \in 1..m : L(t[i]) = L(u[i])
    BY <1>2, <1>4
  <2>2. Lower(t) = Lower(u) <=> \A i \in 1..m : t[i] = u[i] \/ {t[i], u[i]} = {"a", "A"}
    BY <1>1, <1>3, <1>4, <2>1
  <2> QED BY <1>1, <1>4, <2>2 DEF equalASCIIFold, SameWord
<1>5. CASE m # n
  <2>1. DOMAIN Lower(t) = 1..m /\ DOMAIN Lower(u) = 1..n
    BY <1>2
  <2>2. 1..m # 1..n
    <3>1. m \in Nat /\ n \in Nat
      BY <1>1
    <3> HIDE DEF m, n
    <3>2. CASE m < n
      <4>1. n \in 1..n /\ n \notin 1..m
        BY <3>1, <3>2
      <4> QED BY <4>1
    <3>3. CASE n < m
      <4>1. m \in 1..m /\ m \notin 1..n
        BY <3>1, <3>3
      <4> QED BY <4>1
    <3> QED BY <1>5, <3>1, <3>2, <3>3
  <2> QED BY <1>5, <2>1, <2>2 DEF equalASCIIFold, SameWord
<1> QED BY <1>4, <1>5

(* What is to be found in the first i items of a line, in the first j lines*)
(* of a header, and in these and the first i items of the next line.       *)
FirstOf(l, i) == [x \in 1..i |-> Means(l.items[x])]
AllOf(h, j)   == [y \in 1..j |-> FirstOf(h.lines[y], Len(Kept(h.lines[y])))]
Differ(h, j, i) ==
    /\ \A y \in 1..j : \A x \in 1 .. Len(Kept(h.lines[y])) : ~ SameWord(h.lines[y].items[x].name, h.value)
    /\ \A x \in 1..i : ~ SameWord(h.lines[j + 1].items[x].name, h.value)
Sofar(h, j, i, f) ==
    IF h.value = None THEN f = FlattenSeq(AllOf(h, j)) \o FirstOf(h.lines[j + 1], i)
    ELSE f = FALSE /\ Differ(h, j, i)

Meanings == {Means(e) : e \in Items}

LEMMA MeaningsJoin ==
    ASSUME NEW x \in Seq(Meanings), NEW y \in Seq(Meanings), NEW z \in Seq(Meanings)
    PROVE  (x \o y) \o z = x \o (y \o z)
BY Associates

LEMMA ListIs ==
    ASSUME NEW h \in Lists
    PROVE  /\ h.lines \in Seq(Lines) /\ Len(h.lines) \in Nat /\ DOMAIN h.lines = 1 .. Len(h.lines)
           /\ \A j \in 1 .. Len(h.lines) : h.lines[j] \in Lines
           /\ h.value = None \/ h.value \in Seq(Token)
           /\ h.value # None => \A j \in 1 .. Len(h.lines) : \A i \in 1 .. Len(h.lines[j].items) :
                                   h.lines[j].items[i].params = <<>>
<1>1. /\ h \in [lines : Seq(Lines), value : {None} \cup Seq(Token)]
      /\ h.value # None => \A j \in DOMAIN h.lines : \A i \in DOMAIN h.lines[j].items : h.lines[j].items[i].params = <<>>
  BY ListsAssumption
<1>2. h.lines \in Seq(Lines) /\ (h.value = None \/ h.value \in Seq(Token))
  BY <1>1
<1>3. Len(h.lines) \in Nat /\ DOMAIN h.lines = 1 .. Len(h.lines) /\ \A j \in 1 .. Len(h.lines) : h.lines[j] \in Lines
  BY <1>2, LenProperties, ElementOfSeq
<1>4. \A j \in 1 .. Len(h.lines) : DOMAIN h.lines[j].items = 1 .. Len(h.lines[j].items)
  BY <1>3, ItemTextsAre
<1> QED BY <1>1, <1>2, <1>3, <1>4

LEMMA FirstOfIs ==
    ASSUME NEW l \in Lines, NEW i \in 0 .. Len(l.items)
    PROVE  /\ FirstOf(l, i) \in Seq(Meanings) /\ FirstOf(l, 0) = <<>>
           /\ i < Len(l.items) => FirstOf(l, i + 1) = Append(FirstOf(l, i), Means(l.items[i + 1]))
<1> DEFINE n == Len(l.items)
           M(x) == Means(l.items[x])
<1>1. n \in Nat /\ \A x \in 1..n : M(x) \in Meanings
  BY ItemTextsAre DEF Meanings
<1>2. i \in 0..n
  OBVIOUS
<1>3. FirstOf(l, 0) = [x \in 1..0 |-> M(x)] /\ FirstOf(l, i) = [x \in 1..i |-> M(x)] /\ FirstOf(l, i + 1) = [x \in 1 .. i + 1 |-> M(x)]
  BY DEF FirstOf
<1> HIDE DEF n, M
<1>4. FirstOf(l, i) \in Seq(Meanings) /\ i \in Nat /\ Len(FirstOf(l, i)) = i
  <2>1. i \in Nat /\ \A x \in 1..i : M(x) \in Meanings
    BY <1>1, <1>2
  <2>2. [x \in 1..i |-> M(x)] \in Seq(Meanings) /\ Len([x \in 1..i |-> M(x)]) = i
    BY <2>1
  <2> QED BY <1>3, <2>1, <2>2
<1>5. FirstOf(l, 0) = <<>>
  BY <1>3
<1>6. ASSUME i < n PROVE FirstOf(l, i + 1) = Append(FirstOf(l, i), M(i + 1))
  <2> DEFINE q == FirstOf(l, i)
  <2>1. M(i + 1) \in Meanings
    BY <1>1, <1>2, <1>6
  <2>2. q \in Seq(Meanings) /\ Len(q) = i /\ i \in Nat /\ q = [x \in 1..i |-> M(x)]
    BY <1>3, <1>4
  <2> HIDE DEF q
  <2>3. Append(q, M(i + 1)) = [x \in 1 .. i + 1 |-> IF x = i + 1 THEN M(i + 1) ELSE q[x]]
    BY <2>1, <2>2
  <2>4. \A x \in 1 .. i + 1 : x # i + 1 => q[x] = M(x)
    BY <2>2
  <2>5. Append(q, M(i + 1)) = [x \in 1 .. i + 1 |-> M(x)]
    BY <2>3, <2>4
  <2> QED BY <1>3, <2>5 DEF q
<1> QED BY <1>4, <1>5, <1>6 DEF n, M

LEMMA KeptAre ==
    ASSUME NEW h \in Lists, NEW j \in 1 .. Len(h.lines)
    PROVE  /\ FirstOf(h.lines[j], Len(Kept(h.lines[j]))) \in Seq(Meanings)
           /\ FirstOf(h.lines[j], 0) = <<>>
           /\ [i \in DOMAIN Kept(h.lines[j]) |-> Means(Kept(h.lines[j])[i])] = FirstOf(h.lines[j], Len(Kept(h.lines[j])))
           /\ Len(Kept(h.lines[j])) \in 0 .. Len(h.lines[j].items)
<1> DEFINE l == h.lines[j]
           K == Len(Kept(l))
           n == Len(l.items)
<1>1. l \in Lines
  BY ListIs
<1> HIDE DEF l
<1>2. /\ DOMAIN Kept(l) = 1..K /\ K \in Nat /\ \A i \in 1..K : Kept(l)[i] = l.items[i]
      /\ K = n - 1 \/ K = n
  BY <1>1, KeptIs
<1>3. K \in 0..n
  <2>1. n \in Nat /\ K \in Nat /\ (K = n - 1 \/ K = n)
    BY <1>1, <1>2, ItemTextsAre
  <2> HIDE DEF n, K
  <2> QED BY <2>1
<1>4. FirstOf(l, K) \in Seq(Meanings) /\ FirstOf(l, 0) = <<>>
  BY <1>1, <1>3, FirstOfIs
<1>5. [i \in DOMAIN Kept(l) |-> Means(Kept(l)[i])] = FirstOf(l, K)
  BY <1>2 DEF FirstOf
<1> QED BY <1>3, <1>4, <1>5 DEF l

LEMMA AllOfIs ==
    ASSUME NEW h \in Lists, NEW j \in 0 .. Len(h.lines)
    PROVE  /\ AllOf(h, j) \in Seq(Seq(Meanings)) /\ FlattenSeq(AllOf(h, j)) \in Seq(Meanings)
           /\ FlattenSeq(AllOf(h, 0)) = <<>>
           /\ j < Len(h.lines) => FlattenSeq(AllOf(h, j + 1)) = FlattenSeq(AllOf(h, j)) \o FirstOf(h.lines[j + 1], Len(Kept(h.lines[j + 1])))
<1> DEFINE n == Len(h.lines)
           M(y) == FirstOf(h.lines[y], Len(Kept(h.lines[y])))
<1>1. n \in Nat /\ \A y \in 1..n : M(y) \in Seq(Meanings)
  BY ListIs, KeptAre
<1>2. j \in 0..n
  OBVIOUS
<1>3. AllOf(h, 0) = [y \in 1..0 |-> M(y)] /\ AllOf(h, j) = [y \in 1..j |-> M(y)] /\ AllOf(h, j + 1) = [y \in 1 .. j + 1 |-> M(y)]
  BY DEF AllOf
<1> HIDE DEF n, M
<1> DEFINE T == Seq(Meanings)
           q == AllOf(h, j)
<1>4. AllOf(h, j) \in Seq(T) /\ j \in Nat /\ Len(AllOf(h, j)) = j
  <2>1. j \in Nat /\ \A y \in 1..j : M(y) \in T
    BY <1>1, <1>2
  <2> HIDE DEF T
  <2>2. [y \in 1..j |-> M(y)] \in Seq(T) /\ Len([y \in 1..j |-> M(y)]) = j
    BY <2>1
  <2> QED BY <1>3, <2>1, <2>2
<1>5. FlattenSeq(AllOf(h, 0)) = <<>>
  <2>1. [y \in 1..0 |-> M(y)] = <<>>
    OBVIOUS
  <2> QED BY <1>3, <2>1, FlatEmpty
<1>6. FlattenSeq(AllOf(h, j)) \in Seq(Meanings)
  BY <1>4, FlatType
<1>7. ASSUME j < n PROVE FlattenSeq(AllOf(h, j + 1)) = FlattenSeq(AllOf(h, j)) \o M(j + 1)
  <2>1. M(j + 1) \in T
    BY <1>1, <1>2, <1>7
  <2>2. q \in Seq(T) /\ Len(q) = j /\ j \in Nat /\ q = [x \in 1..j |-> M(x)]
    BY <1>3, <1>4
  <2> HIDE DEF q, T
  <2>3. Append(q, M(j + 1)) = [x \in 1 .. j + 1 |-> IF x = j + 1 THEN M(j + 1) ELSE q[x]]
    BY <2>1, <2>2
  <2>4. \A x \in 1 .. j + 1 : x # j + 1 => q[x] = M(x)
    BY <2>2
  <2>5. Append(q, M(j + 1)) = [x \in 1 .. j + 1 |-> M(x)]
    BY <2>3, <2>4
  <2>6. FlattenSeq(Append(q, M(j + 1))) = FlattenSeq(q) \o M(j + 1)
    BY <2>1, <2>2, FlatAppend DEF T
  <2> QED BY <1>3, <2>5, <2>6 DEF q
<1> QED BY <1>4, <1>5, <1>6, <1>7 DEF n, M

LEMMA SofarStarts ==
    ASSUME NEW h \in Lists
    PROVE  Sofar(h, 0, 0, IF h.value = None THEN <<>> ELSE FALSE)
<1>1. FlattenSeq(AllOf(h, 0)) = <<>>
  <2>1. 0 \in 0 .. Len(h.lines)
    BY ListIs
  <2> QED BY <2>1, AllOfIs
<1>2. FirstOf(h.lines[0 + 1], 0) = <<>>
  <2> DEFINE M(x) == Means(h.lines[0 + 1].items[x])
  <2>1. FirstOf(h.lines[0 + 1], 0) = [x \in 1..0 |-> M(x)]
    BY DEF FirstOf
  <2> HIDE DEF M
  <2> QED BY <2>1
<1>3. <<>> \o <<>> = <<>>
  OBVIOUS
<1>4. Differ(h, 0, 0)
  BY DEF Differ
<1> QED BY <1>1, <1>2, <1>3, <1>4 DEF Sofar

LEMMA NoneOfIs == \A l : FirstOf(l, 0) = <<>>
<1> TAKE l
<1> DEFINE M(x) == Means(l.items[x])
<1>1. FirstOf(l, 0) = [x \in 1..0 |-> M(x)]
  BY DEF FirstOf
<1> HIDE DEF M
<1> QED BY <1>1

LEMMA SofarLine ==
    ASSUME NEW h \in Lists, NEW j \in 0 .. Len(h.lines) - 1, NEW f,
           Sofar(h, j, Len(Kept(h.lines[j + 1])), f)
    PROVE  Sofar(h, j + 1, 0, f)
<1> DEFINE K == Len(Kept(h.lines[j + 1]))
           a == FlattenSeq(AllOf(h, j))
           b == FirstOf(h.lines[j + 1], K)
           c == FlattenSeq(AllOf(h, j + 1))
<1>1. j \in 0 .. Len(h.lines) /\ j < Len(h.lines) /\ j + 1 \in 0 .. Len(h.lines) /\ j \in Nat
  BY ListIs
<1>2. CASE h.value = None
  <2>1. f = a \o b
    BY <1>2 DEF Sofar
  <2>2. c = a \o b /\ c \in Seq(Meanings)
    BY <1>1, AllOfIs
  <2>3. FirstOf(h.lines[j + 1 + 1], 0) = <<>>
    BY NoneOfIs
  <2> HIDE DEF a, b, c
  <2>4. c \o <<>> = c
    BY <2>2, ConcatEmptySeq
  <2>5. f = c \o FirstOf(h.lines[j + 1 + 1], 0)
    BY <2>1, <2>2, <2>3, <2>4
  <2> QED BY <1>2, <2>5 DEF Sofar, c
<1>3. CASE h.value # None
  <2>1. f = FALSE /\ Differ(h, j, K)
    BY <1>3 DEF Sofar
  <2>2. Differ(h, j + 1, 0)
    <3>1. /\ \A y \in 1..j : \A x \in 1 .. Len(Kept(h.lines[y])) : ~ SameWord(h.lines[y].items[x].name, h.value)
          /\ \A x \in 1..K : ~ SameWord(h.lines[j + 1].items[x].name, h.value)
      BY <2>1 DEF Differ
    <3>2. 1 .. j + 1 = (1..j) \cup {j + 1} /\ 1..0 = {}
      BY <1>1
    <3> QED BY <3>1, <3>2, Zenon DEF Differ
  <2> QED BY <1>3, <2>1, <2>2 DEF Sofar
<1> QED BY <1>2, <1>3

LEMMA SofarItem ==
    ASSUME NEW h \in Lists, NEW j \in 0 .. Len(h.lines) - 1, NEW i \in 0 .. Len(h.lines[j + 1].items) - 1,
           NEW f, Sofar(h, j, i, f)
    PROVE  LET e == h.lines[j + 1].items[i + 1]
           IN  /\ h.value = None => Sofar(h, j, i + 1, Append(f, Means(e)))
               /\ h.value # None /\ ~ SameWord(e.name, h.value) => Sofar(h, j, i + 1, FALSE)
<1> DEFINE l == h.lines[j + 1]
           m == Means(l.items[i + 1])
           a == FlattenSeq(AllOf(h, j))
           b == FirstOf(l, i)
           c == FirstOf(l, i + 1)
<1>1. j \in 0 .. Len(h.lines) /\ j + 1 \in 1 .. Len(h.lines) /\ l \in Lines
  <2>1. Len(h.lines) \in Nat
    BY ListIs
  <2>2. j \in 0 .. Len(h.lines) /\ j + 1 \in 1 .. Len(h.lines)
    BY <2>1
  <2> QED BY <2>2, ListIs
<1>2. i \in 0 .. Len(l.items) /\ i < Len(l.items) /\ i + 1 \in 1 .. Len(l.items) /\ i \in Nat
  <2>1. Len(l.items) \in Nat
    BY <1>1, ItemTextsAre
  <2> QED BY <2>1
<1>3. m \in Meanings
  BY <1>1, <1>2, ItemTextsAre DEF Meanings
<1>4. b \in Seq(Meanings) /\ c = Append(b, m)
  BY <1>1, <1>2, FirstOfIs
<1>5. a \in Seq(Meanings)
  BY <1>1, AllOfIs
<1>6. ASSUME h.value = None PROVE Sofar(h, j, i + 1, Append(f, m))
  <2>1. f = a \o b
    BY <1>6 DEF Sofar
  <2> HIDE DEF a, b, c, m
  <2>2. Append(f, m) = a \o c
    <3>1. Append(b, m) = b \o <<m>> /\ <<m>> \in Seq(Meanings) /\ a \o b \in Seq(Meanings) /\ Append(a \o b, m) = (a \o b) \o <<m>>
      <4>1. a \o b \in Seq(Meanings)
        BY <1>4, <1>5, HeadOfConcat
      <4>2. Append(b, m) = b \o <<m>>
        BY <1>3, <1>4, AppendIsConcat
      <4> DEFINE ab == a \o b
      <4> HIDE DEF ab
      <4>3. Append(ab, m) = ab \o <<m>>
        BY <1>3, <4>1, AppendIsConcat DEF ab
      <4>4. <<m>> \in Seq(Meanings)
        BY <1>3
      <4> QED BY <4>1, <4>2, <4>3, <4>4, Zenon DEF ab
    <3>2. (a \o b) \o <<m>> = a \o (b \o <<m>>)
      <4> DEFINE c1 == <<m>>
      <4>1. a \in Seq(Meanings) /\ b \in Seq(Meanings) /\ c1 \in Seq(Meanings)
        BY <1>4, <1>5, <3>1
      <4> HIDE DEF c1
      <4>2. (a \o b) \o c1 = a \o (b \o c1)
        BY <4>1, MeaningsJoin
      <4> QED BY <4>2 DEF c1
    <3> QED BY <1>4, <2>1, <3>1, <3>2, Zenon
  <2> QED BY <1>6, <2>2 DEF Sofar, a, c, l
<1>7. ASSUME h.value # None, ~ SameWord(l.items[i + 1].name, h.value) PROVE Sofar(h, j, i + 1, FALSE)
  <2>1. Differ(h, j, i)
    BY <1>7 DEF Sofar
  <2>2. 1 .. i + 1 = (1..i) \cup {i + 1}
    BY <1>2
  <2>3. Differ(h, j, i + 1)
    BY <1>7, <2>1, <2>2, Zenon DEF Differ, l
  <2> QED BY <1>7, <2>3 DEF Sofar
<1> QED BY <1>6, <1>7 DEF l, m

LEMMA SofarEnds ==
    ASSUME NEW h \in Lists, NEW f, Sofar(h, Len(h.lines), 0, f)
    PROVE  f = Meant(h)
<1> DEFINE n == Len(h.lines)
           a == FlattenSeq(AllOf(h, n))
<1>1. n \in Nat /\ n \in 0..n /\ DOMAIN h.lines = 1..n
  BY ListIs
<1>2. CASE h.value = None
  <2>1. a \in Seq(Meanings)
    BY <1>1, AllOfIs
  <2>2. f = a \o <<>>
    BY <1>2, NoneOfIs DEF Sofar
  <2>3. f = a
    <3> HIDE DEF a
    <3> QED BY <2>1, <2>2, ConcatEmptySeq
  <2> DEFINE M(j) == [i \in DOMAIN Kept(h.lines[j]) |-> Means(Kept(h.lines[j])[i])]
             N(j) == FirstOf(h.lines[j], Len(Kept(h.lines[j])))
  <2>4. \A j \in 1..n : M(j) = N(j)
    BY KeptAre
  <2>5. Meant(h) = FlattenSeq([j \in 1..n |-> M(j)]) /\ a = FlattenSeq([j \in 1..n |-> N(j)])
    BY <1>1, <1>2 DEF Meant, AllOf
  <2> HIDE DEF M, N
  <2>6. [j \in 1..n |-> M(j)] = [j \in 1..n |-> N(j)]
    BY <2>4
  <2> QED BY <2>3, <2>5, <2>6
<1>3. CASE h.value # None
  <2>1. f = FALSE /\ Differ(h, n, 0)
    BY <1>3 DEF Sofar
  <2>2. \A j \in 1..n : DOMAIN Kept(h.lines[j]) = 1 .. Len(Kept(h.lines[j])) /\ \A i \in DOMAIN Kept(h.lines[j]) : Kept(h.lines[j])[i] = h.lines[j].items[i]
    BY ListIs, KeptIs
  <2>3. ~ \E j \in DOMAIN h.lines : \E i \in DOMAIN Kept(h.lines[j]) : SameWord(Kept(h.lines[j])[i].name, h.value)
    BY <1>1, <2>1, <2>2 DEF Differ
  <2>4. Meant(h) = FALSE
    BY <1>3, <2>3 DEF Meant
  <2> QED BY <2>1, <2>4
<1> QED BY <1>2, <1>3

LEMMA WordFound ==
    ASSUME NEW h \in Lists, h.value # None, NEW j \in 1 .. Len(h.lines),
           NEW i \in 1 .. Len(Kept(h.lines[j])), SameWord(h.lines[j].items[i].name, h.value)
    PROVE  Meant(h) = TRUE
<1>1. DOMAIN h.lines = 1 .. Len(h.lines) /\ h.lines[j] \in Lines
  BY ListIs
<1>2. DOMAIN Kept(h.lines[j]) = 1 .. Len(Kept(h.lines[j])) /\ Kept(h.lines[j])[i] = h.lines[j].items[i]
  BY <1>1, KeptIs
<1>3. \E y \in DOMAIN h.lines : \E x \in DOMAIN Kept(h.lines[y]) : SameWord(Kept(h.lines[y])[x].name, h.value)
  BY <1>1, <1>2
<1> QED BY <1>3 DEF Meant

LineTexts(h) == [j \in DOMAIN h.lines |-> LineText(h.lines[j])]

(* The lines behind the j-th are still to come.                            *)
Remain(j) == lines = SubSeq(LineTexts(list), j + 1, Len(list.lines))

(* Between two lines, behind j of them; in the next line behind i items;   *)
(* and in the next item behind k parameters.                               *)
AtLine(j) == at = "line" /\ Remain(j) /\ Sofar(list, j, 0, found)
AtItem(j, i) ==
    LET l == list.lines[j + 1]
    IN  /\ at = IF list.value = None THEN "ext" ELSE "token"
        /\ Remain(j + 1) /\ Sofar(list, j, i, found)
        /\ Goes(l, i) /\ s = Tail(Following(l, i))
AtParam(j, i, k) ==
    LET l == list.lines[j + 1]
    IN  /\ at = "param" /\ list.value = None
        /\ Remain(j + 1) /\ Sofar(list, j, i, found)
        /\ s = skipSpace(FollowingParam(l, i + 1, k)) /\ ext = Read(l.items[i + 1], k)

HeadersInv ==
    /\ list \in Lists
    /\ \/ at = "done" /\ found = Meant(list)
       \/ \E j \in 0 .. Len(list.lines) : AtLine(j)
       \/ \E j \in 0 .. Len(list.lines) - 1 : \E i \in 0 .. Len(list.lines[j + 1].items) : AtItem(j, i)
       \/ \E j \in 0 .. Len(list.lines) - 1 : \E i \in 0 .. Len(list.lines[j + 1].items) - 1 :
             \E k \in 0 .. Len(list.lines[j + 1].items[i + 1].params) : AtParam(j, i, k)

LEMMA LinesRemain ==
    ASSUME NEW h \in Lists, NEW j \in 0 .. Len(h.lines)
    PROVE  LET n == Len(h.lines)
               q == SubSeq(LineTexts(h), j + 1, n)
           IN  /\ j = 0 => LineTexts(h) = q
               /\ j = n => q = <<>>
               /\ j < n => /\ q # <<>> /\ Head(q) = LineText(h.lines[j + 1])
                           /\ Tail(q) = SubSeq(LineTexts(h), j + 1 + 1, n)
<1> DEFINE n == Len(h.lines)
           t == LineTexts(h)
           q == SubSeq(t, j + 1, n)
           T(x) == LineText(h.lines[x])
<1>1. n \in Nat /\ DOMAIN h.lines = 1..n /\ \A x \in 1..n : T(x) \in Texts
  <2>1. \A x \in 1..n : h.lines[x] \in Lines
    BY ListIs
  <2>2. ASSUME NEW l \in Lines PROVE LineText(l) \in Texts
    <3>1. 0 \in 0 .. Len(l.items)
      <4>1. Len(l.items) \in Nat
        BY ItemTextsAre
      <4> QED BY <4>1
    <3>2. Following(l, 0) \in Texts /\ Starts(Following(l, 0), {","}) /\ LineText(l) = Tail(Following(l, 0))
      BY <3>1, FollowingIs, FollowsIs DEF Goes
    <3> QED BY <3>2, HeadTailProperties DEF Texts, Starts
  <2> QED BY <2>1, <2>2, ListIs
<1>2. t = [x \in 1..n |-> T(x)]
  BY <1>1 DEF LineTexts
<1>3. j \in 0..n
  OBVIOUS
<1> HIDE DEF n, T
<1>4. t \in Seq(Texts) /\ Len(t) = n /\ \A x \in 1..n : t[x] = T(x)
  BY <1>1, <1>2
<1> HIDE DEF t, q
<1>5. ASSUME j = 0 PROVE t = q
  <2>1. SubSeq(t, 1, Len(t)) = t
    BY <1>4, SubSeqFull
  <2> QED BY <1>4, <1>5, <2>1 DEF q
<1>6. ASSUME j = n PROVE q = <<>>
  <2>1. j + 1 > n
    BY <1>1, <1>6
  <2> QED BY <1>1, <1>4, <1>6, <2>1, SubSeqEmpty DEF q
<1>7. ASSUME j < n
      PROVE  q # <<>> /\ Head(q) = T(j + 1) /\ Tail(q) = SubSeq(t, j + 1 + 1, n)
  <2>1. j + 1 \in 1 .. Len(t) /\ n \in j + 1 .. Len(t) /\ j + 1 \in 1..n /\ j + 1 + 1 \in Int /\ n \in Int
    BY <1>1, <1>3, <1>4, <1>7
  <2>2. q = <<t[j + 1]>> \o SubSeq(t, j + 1 + 1, n)
    BY <1>4, <2>1, SubSeqRecursiveFirst DEF q
  <2> DEFINE m == j + 1 + 1
  <2>3. \A x \in m .. n : t[x] \in Texts
    BY <1>1, <1>3, <1>4
  <2>4. m \in Int /\ n \in Int
    BY <2>1
  <2> HIDE DEF m
  <2>5. SubSeq(t, m, n) \in Seq(Texts)
    BY <1>4, <2>3, <2>4, SubSeqProperties
  <2>6. t[j + 1] \in Texts /\ t[j + 1] = T(j + 1)
    BY <1>1, <1>4, <2>1
  <2> QED BY <2>2, <2>5, <2>6, OneFirst DEF m
<1> QED BY <1>5, <1>6, <1>7 DEF n, T, t, q

LEMMA HeadersStart ==
    ASSUME NEW inputs, HeadersInit(inputs), inputs \subseteq Lists
    PROVE  HeadersInv
<1>1. list \in Lists /\ at = "line" /\ found = (IF list.value = None THEN <<>> ELSE FALSE) /\ lines = LineTexts(list)
  BY DEF HeadersInit, LineTexts
<1>2. 0 \in 0 .. Len(list.lines)
  BY <1>1, ListIs
<1>3. Remain(0)
  BY <1>1, <1>2, LinesRemain DEF Remain
<1>4. Sofar(list, 0, 0, found)
  BY <1>1, SofarStarts
<1>5. AtLine(0)
  BY <1>1, <1>3, <1>4 DEF AtLine
<1> QED BY <1>1, <1>2, <1>5 DEF HeadersInv

LEMMA Places ==
    ASSUME HeadersInv
    PROVE  /\ at = "line" => \E j \in 0 .. Len(list.lines) : AtLine(j)
           /\ at \in {"ext", "token"} =>
                 \E j \in 0 .. Len(list.lines) - 1 : \E i \in 0 .. Len(list.lines[j + 1].items) : AtItem(j, i)
           /\ at = "param" =>
                 \E j \in 0 .. Len(list.lines) - 1 : \E i \in 0 .. Len(list.lines[j + 1].items) - 1 :
                    \E k \in 0 .. Len(list.lines[j + 1].items[i + 1].params) : AtParam(j, i, k)
<1>1. \A j : AtLine(j) => at = "line"
  BY DEF AtLine
<1>2. \A j, i : AtItem(j, i) => at = "ext" \/ at = "token"
  BY DEF AtItem
<1>3. \A j, i, k : AtParam(j, i, k) => at = "param"
  BY DEF AtParam
<1> QED BY <1>1, <1>2, <1>3 DEF HeadersInv

LEMMA LineOf ==
    ASSUME NEW h \in Lists, NEW j \in 0 .. Len(h.lines) - 1
    PROVE  /\ h.lines[j + 1] \in Lines /\ j + 1 \in 1 .. Len(h.lines) /\ j + 1 \in 0 .. Len(h.lines)
           /\ j \in 0 .. Len(h.lines) /\ j < Len(h.lines)
           /\ Len(h.lines[j + 1].items) \in Nat
<1>1. Len(h.lines) \in Nat
  BY ListIs
<1>2. j + 1 \in 1 .. Len(h.lines) /\ j + 1 \in 0 .. Len(h.lines) /\ j \in 0 .. Len(h.lines) /\ j < Len(h.lines)
  BY <1>1
<1>3. h.lines[j + 1] \in Lines
  BY <1>2, ListIs
<1> QED BY <1>2, <1>3, ItemTextsAre

LEMMA LineIsLeft ==
    ASSUME list \in Lists, NEW j \in 0 .. Len(list.lines) - 1, Remain(j + 1), Abandon,
           Sofar(list, j, Len(Kept(list.lines[j + 1])), found)
    PROVE  HeadersInv'
<1>1. at' = "line" /\ list' = list /\ lines' = lines /\ found' = found
  BY DEF Abandon
<1>2. j + 1 \in 0 .. Len(list.lines) /\ Sofar(list, j + 1, 0, found)
  BY LineOf, SofarLine
<1>3. AtLine(j + 1)'
  BY <1>1, <1>2 DEF AtLine, Remain
<1> QED BY <1>1, <1>2, <1>3 DEF HeadersInv

LEMMA NextLineStep ==
    ASSUME HeadersInv, NextLine
    PROVE  HeadersInv'
<1>1. list \in Lists /\ at = "line" /\ list' = list /\ found' = found
  BY DEF HeadersInv, NextLine
<1>2. PICK j \in 0 .. Len(list.lines) : AtLine(j)
  BY <1>1, Places
<1>3. Remain(j) /\ Sofar(list, j, 0, found)
  BY <1>2 DEF AtLine
<1>4. Len(list.lines) \in Nat
  BY <1>1, ListIs
<1>5. CASE j = Len(list.lines)
  <2>1. lines = <<>>
    BY <1>1, <1>3, <1>5, LinesRemain DEF Remain
  <2>2. at' = "done"
    BY <2>1 DEF NextLine
  <2>3. found = Meant(list)
    BY <1>1, <1>3, <1>5, SofarEnds
  <2> QED BY <1>1, <2>2, <2>3 DEF HeadersInv
<1>6. CASE j < Len(list.lines)
  <2> DEFINE l == list.lines[j + 1]
  <2>1. j \in 0 .. Len(list.lines) - 1
    BY <1>4, <1>6
  <2>2. l \in Lines /\ 0 \in 0 .. Len(l.items)
    BY <1>1, <2>1, LineOf
  <2>3. lines # <<>> /\ Head(lines) = LineText(l) /\ Tail(lines) = SubSeq(LineTexts(list), j + 1 + 1, Len(list.lines))
    BY <1>1, <1>3, <1>6, LinesRemain DEF Remain
  <2>4. s' = LineText(l) /\ lines' = SubSeq(LineTexts(list), j + 1 + 1, Len(list.lines)) /\ at' = IF list.value = None THEN "ext" ELSE "token"
    BY <2>3 DEF NextLine
  <2>5. Goes(l, 0) /\ LineText(l) = Tail(Following(l, 0))
    BY <2>2, FollowsIs, FollowingIs
  <2> HIDE DEF l
  <2>6. AtItem(j, 0)'
    BY <1>1, <1>3, <2>4, <2>5 DEF AtItem, Remain, l
  <2> QED BY <1>1, <2>1, <2>2, <2>6 DEF HeadersInv, l
<1> QED BY <1>4, <1>5, <1>6

LEMMA NameStep ==
    ASSUME HeadersInv, Name
    PROVE  HeadersInv'
<1>1. list \in Lists /\ at = "ext"
  BY DEF HeadersInv, Name
<1>2. PICK j \in 0 .. Len(list.lines) - 1 : \E i \in 0 .. Len(list.lines[j + 1].items) : AtItem(j, i)
  BY <1>1, Places
<1> DEFINE l == list.lines[j + 1]
<1>3. PICK i \in 0 .. Len(l.items) : AtItem(j, i)
  BY <1>2
<1>4. l \in Lines /\ Len(l.items) \in Nat
  BY <1>1, LineOf
<1> DEFINE t == nextToken(skipSpace(s))
           e == l.items[i + 1]
<1>5. /\ Remain(j + 1) /\ Sofar(list, j, i, found) /\ Goes(l, i) /\ s = Tail(Following(l, i)) /\ list.value = None
  <2>1. at = IF list.value = None THEN "ext" ELSE "token"
    BY <1>3 DEF AtItem
  <2> QED BY <1>1, <1>3, <2>1 DEF AtItem
<1>6. \/ t.value = <<>> /\ Abandon
      \/ /\ t.value # <<>> /\ ext' = [name |-> t.value, params |-> <<>>] /\ s' = skipSpace(t.rest) /\ at' = "param"
         /\ list' = list /\ lines' = lines /\ found' = found
  BY DEF Name
<1>7. CASE i = Len(l.items)
  <2>1. t.value = <<>> /\ Len(Kept(l)) = i
    BY <1>4, <1>5, <1>7, FollowsIs
  <2>2. Abandon
    BY <1>6, <2>1
  <2> QED BY <1>1, <1>5, <2>1, <2>2, LineIsLeft
<1>8. CASE i < Len(l.items)
  <2>1. /\ e \in Items /\ t.value = e.name /\ t.value # <<>>
        /\ skipSpace(t.rest) = skipSpace(FollowingParam(l, i + 1, 0))
    BY <1>4, <1>5, <1>8, ItemBegins
  <2>2. i \in 0 .. Len(l.items) - 1 /\ 0 \in 0 .. Len(e.params)
    <3>1. Len(e.params) \in Nat
      BY <2>1, ParamTextsAre
    <3>2. 0 \in 0 .. Len(e.params)
      BY <3>1
    <3> QED BY <1>4, <1>8, <3>2
  <2>3. ext' = Read(e, 0) /\ s' = skipSpace(FollowingParam(l, i + 1, 0)) /\ at' = "param" /\ list' = list /\ lines' = lines /\ found' = found
    <3>1. Read(e, 0) = [name |-> e.name, params |-> <<>>]
      BY <2>1, <2>2, ReadIs
    <3> HIDE DEF t, e
    <3> QED BY <1>6, <2>1, <3>1
  <2> HIDE DEF t, e, l
  <2>4. AtParam(j, i, 0)'
    BY <1>5, <2>3 DEF AtParam, Remain, e, l
  <2> QED BY <1>1, <2>2, <2>3, <2>4 DEF HeadersInv, e, l
<1> QED BY <1>4, <1>7, <1>8

(* The state behind the k-th parameter of the item behind the i-th one.    *)
LEMMA InItem ==
    ASSUME HeadersInv, at = "param"
    PROVE  \E j \in 0 .. Len(list.lines) - 1, i \in Nat, k \in Nat :
              LET l == list.lines[j + 1]
                  e == l.items[i + 1]
              IN  /\ list \in Lists /\ l \in Lines /\ e \in Items
                  /\ i \in 0 .. Len(l.items) - 1 /\ i + 1 \in 1 .. Len(l.items) /\ i + 1 \in 0 .. Len(l.items)
                  /\ k \in 0 .. Len(e.params) /\ Len(e.params) \in Nat
                  /\ AtParam(j, i, k)
<1>1. list \in Lists
  BY DEF HeadersInv
<1>2. PICK j \in 0 .. Len(list.lines) - 1 :
         \E i \in 0 .. Len(list.lines[j + 1].items) - 1 :
            \E k \in 0 .. Len(list.lines[j + 1].items[i + 1].params) : AtParam(j, i, k)
  BY Places
<1> DEFINE l == list.lines[j + 1]
<1>3. PICK i \in 0 .. Len(l.items) - 1 : \E k \in 0 .. Len(l.items[i + 1].params) : AtParam(j, i, k)
  BY <1>2
<1> DEFINE e == l.items[i + 1]
<1>4. PICK k \in 0 .. Len(e.params) : AtParam(j, i, k)
  BY <1>3
<1>5. l \in Lines /\ Len(l.items) \in Nat
  BY <1>1, LineOf
<1>6. i \in Nat /\ i + 1 \in 1 .. Len(l.items) /\ i + 1 \in 0 .. Len(l.items)
  BY <1>5
<1>7. e \in Items
  BY <1>5, <1>6, ItemTextsAre
<1>8. Len(e.params) \in Nat
  BY <1>7, ParamTextsAre
<1>9. k \in Nat
  BY <1>8
<1> QED BY <1>1, <1>4, <1>5, <1>6, <1>7, <1>8, <1>9

(* The parser reads a parameter and is at the next one.                    *)
Reads(l, i, k) ==
    LET t == FollowingParam(l, i, k)
        p == l.items[i].params[k + 1]
    IN  /\ p \in Params /\ skipSpace(t) = t /\ \A set : Starts(t, set) <=> ";" \in set
        /\ KeyOf(t).value = p.key /\ SetTo(t).value = ValueOf(p.value)
        /\ AfterParam(t) = skipSpace(FollowingParam(l, i, k + 1))

LEMMA ReadsIs ==
    ASSUME NEW l \in Lines, NEW i \in 1 .. Len(l.items), NEW k \in 0 .. Len(l.items[i].params),
           k < Len(l.items[i].params)
    PROVE  Reads(l, i, k)
BY FollowingParamIs DEF Reads

LEMMA ParamsEnd ==
    ASSUME NEW l \in Lines, NEW i \in 1 .. Len(l.items), NEW k \in 0 .. Len(l.items[i].params),
           k = Len(l.items[i].params)
    PROVE  FollowingParam(l, i, k) = Following(l, i)
BY FollowingParamIs

LEMMA FailsIs ==
    ASSUME NEW l, NEW i \in Nat, Fails(l, i + 1)
    PROVE  Len(Kept(l)) = i /\ skipSpace(Following(l, i + 1)) # <<>> /\ ~ Starts(skipSpace(Following(l, i + 1)), {","})
<1>1. skipSpace(Following(l, i + 1)) # <<>>
  BY DEF Fails
<1>2. ~ Starts(skipSpace(Following(l, i + 1)), {","})
  BY DEF Fails
<1>3. Len(Kept(l)) = (i + 1) - 1
  BY DEF Fails
<1>4. Len(Kept(l)) = i
  BY <1>3
<1> QED BY <1>1, <1>2, <1>4

LEMMA ParamStep ==
    ASSUME HeadersInv, Param
    PROVE  HeadersInv'
<1>1. at = "param" /\ Starts(s, {";"}) /\ list \in Lists
  BY DEF HeadersInv, Param
<1>2. PICK j \in 0 .. Len(list.lines) - 1, i \in Nat, k \in Nat :
              LET l == list.lines[j + 1]
                  e == l.items[i + 1]
              IN  /\ list \in Lists /\ l \in Lines /\ e \in Items
                  /\ i \in 0 .. Len(l.items) - 1 /\ i + 1 \in 1 .. Len(l.items) /\ i + 1 \in 0 .. Len(l.items)
                  /\ k \in 0 .. Len(e.params) /\ Len(e.params) \in Nat
                  /\ AtParam(j, i, k)
  BY <1>1, InItem
<1> DEFINE l == list.lines[j + 1]
           e == l.items[i + 1]
           n == Len(e.params)
           w == AfterParam(s)
           p == e.params[k + 1]
<1>3. /\ list \in Lists /\ l \in Lines /\ e \in Items /\ i \in 0 .. Len(l.items) - 1
      /\ i + 1 \in 1 .. Len(l.items) /\ i + 1 \in 0 .. Len(l.items)
      /\ k \in 0..n /\ n \in Nat
  BY <1>2
<1>4. /\ Remain(j + 1) /\ Sofar(list, j, i, found) /\ list.value = None
      /\ s = skipSpace(FollowingParam(l, i + 1, k)) /\ ext = Read(e, k)
  BY <1>2 DEF AtParam
<1>5. \/ (KeyOf(s).value = <<>> \/ (w # <<>> /\ ~ Starts(w, {",", ";"}))) /\ Abandon
      \/ /\ KeyOf(s).value # <<>> /\ (w = <<>> \/ Starts(w, {",", ";"}))
         /\ ext' = [ext EXCEPT !.params = With(@, KeyOf(s).value, SetTo(s).value)]
         /\ s' = w
         /\ list' = list /\ lines' = lines /\ at' = at /\ found' = found
  BY DEF Param, KeyOf, GivenTo, SetTo, AfterParam
<1>6. Goes(l, i + 1) \/ Stops(l, i + 1) \/ Fails(l, i + 1)
  BY <1>3, FollowsIs
<1>7. ASSUME Fails(l, i + 1), Abandon PROVE HeadersInv'
  <2>1. Len(Kept(l)) = i
    BY <1>7, FailsIs
  <2> QED BY <1>3, <1>4, <1>7, <2>1, LineIsLeft
<1>8. CASE k = n
  <2>1. s = skipSpace(Following(l, i + 1))
    <3>1. FollowingParam(l, i + 1, k) = Following(l, i + 1)
      BY <1>3, <1>8, ParamsEnd
    <3> QED BY <1>4, <3>1
  <2>2. ~ Goes(l, i + 1) /\ ~ Stops(l, i + 1)
    BY <1>1, <2>1 DEF Goes, Stops, Starts
  <2>3. Fails(l, i + 1) /\ KeyOf(s).value = <<>>
    <3>1. Fails(l, i + 1)
      BY <1>6, <2>2
    <3> QED BY <1>1, <2>1, <3>1 DEF Fails
  <2>4. Abandon
    BY <1>5, <2>3
  <2> QED BY <1>7, <2>3, <2>4
<1>9. CASE k < n
  <2>1. /\ p \in Params /\ KeyOf(s).value = p.key /\ SetTo(s).value = ValueOf(p.value)
        /\ w = skipSpace(FollowingParam(l, i + 1, k + 1))
    <3>1. Reads(l, i + 1, k)
      BY <1>3, <1>9, ReadsIs
    <3> QED BY <1>4, <3>1 DEF Reads
  <2>2. p.key # <<>>
    BY <2>1 DEF Params, Tokens
  <2>3. k + 1 \in 0..n
    <3> HIDE DEF n
    <3> QED BY <1>3, <1>9
  <2>4. CASE w # <<>> /\ ~ Starts(w, {",", ";"})
    <3>1. Abandon
      BY <1>5, <2>4
    <3>2. k + 1 = n
      <4>1. CASE k + 1 < n
        <5>1. Reads(l, i + 1, k + 1)
          BY <1>3, <2>3, <4>1, ReadsIs
        <5>2. Starts(w, {",", ";"})
          BY <2>1, <5>1 DEF Reads
        <5> QED BY <2>4, <5>2
      <4>2. k + 1 = n \/ k + 1 < n
        <5> HIDE DEF n
        <5> QED BY <1>3, <2>3
      <4> QED BY <4>1, <4>2
    <3>3. w = skipSpace(Following(l, i + 1))
      BY <1>3, <2>1, <2>3, <3>2, ParamsEnd
    <3>4. ~ Goes(l, i + 1) /\ ~ Stops(l, i + 1)
      BY <2>4, <3>3 DEF Goes, Stops, Starts
    <3> QED BY <1>6, <1>7, <3>1, <3>4
  <2>5. CASE ~ (w # <<>> /\ ~ Starts(w, {",", ";"}))
    <3>1. /\ ext' = [ext EXCEPT !.params = With(@, p.key, ValueOf(p.value))]
          /\ s' = w /\ list' = list /\ lines' = lines /\ at' = "param" /\ found' = found
      BY <1>1, <1>5, <2>1, <2>2, <2>5
    <3>2. ext' = Read(e, k + 1)
      BY <1>3, <1>4, <1>9, <3>1, ReadIs
    <3> HIDE DEF l, e, n, w, p
    <3>3. AtParam(j, i, k + 1)'
      BY <1>4, <2>1, <3>1, <3>2 DEF AtParam, Remain, l, e
    <3> QED BY <1>3, <2>3, <3>1, <3>3 DEF HeadersInv, l, e, n
  <2> QED BY <2>4, <2>5
<1>10. k = n \/ k < n
  <2> HIDE DEF n
  <2> QED BY <1>3
<1> QED BY <1>8, <1>9, <1>10

LEMMA ExtensionStep ==
    ASSUME HeadersInv, Extension
    PROVE  HeadersInv'
<1>1. at = "param" /\ ~ Starts(s, {";"}) /\ list \in Lists
  BY DEF HeadersInv, Extension
<1>2. PICK j \in 0 .. Len(list.lines) - 1, i \in Nat, k \in Nat :
              LET l == list.lines[j + 1]
                  e == l.items[i + 1]
              IN  /\ list \in Lists /\ l \in Lines /\ e \in Items
                  /\ i \in 0 .. Len(l.items) - 1 /\ i + 1 \in 1 .. Len(l.items) /\ i + 1 \in 0 .. Len(l.items)
                  /\ k \in 0 .. Len(e.params) /\ Len(e.params) \in Nat
                  /\ AtParam(j, i, k)
  BY <1>1, InItem
<1> DEFINE l == list.lines[j + 1]
           e == l.items[i + 1]
           n == Len(e.params)
<1>3. /\ list \in Lists /\ l \in Lines /\ e \in Items /\ i \in 0 .. Len(l.items) - 1
      /\ i + 1 \in 1 .. Len(l.items) /\ i + 1 \in 0 .. Len(l.items)
      /\ k \in 0..n /\ n \in Nat
  BY <1>2
<1>4. /\ Remain(j + 1) /\ Sofar(list, j, i, found) /\ list.value = None
      /\ s = skipSpace(FollowingParam(l, i + 1, k)) /\ ext = Read(e, k)
  BY <1>2 DEF AtParam
<1>5. \/ s # <<>> /\ ~ Starts(s, {","}) /\ Abandon
      \/ /\ s = <<>> \/ Starts(s, {","})
         /\ found' = Append(found, ext)
         /\ at' = IF s = <<>> THEN "line" ELSE "ext"
         /\ s' = IF s = <<>> THEN s ELSE Tail(s)
         /\ list' = list /\ lines' = lines
  BY DEF Extension
<1>6. Goes(l, i + 1) \/ Stops(l, i + 1) \/ Fails(l, i + 1)
  BY <1>3, FollowsIs
<1>7. k = n
  <2>1. CASE k < n
    <3>1. Reads(l, i + 1, k)
      BY <1>3, <2>1, ReadsIs
    <3>2. Starts(s, {";"})
      BY <1>4, <3>1 DEF Reads
    <3> QED BY <1>1, <3>2
  <2>2. k = n \/ k < n
    <3> HIDE DEF n
    <3> QED BY <1>3
  <2> QED BY <2>1, <2>2
<1>8. s = skipSpace(Following(l, i + 1)) /\ ext = Means(e)
  <2>1. s = skipSpace(Following(l, i + 1))
    <3>1. FollowingParam(l, i + 1, k) = Following(l, i + 1)
      BY <1>3, <1>7, ParamsEnd
    <3> QED BY <1>4, <3>1
  <2>2. ext = Means(e)
    BY <1>3, <1>4, <1>7, ReadIs
  <2> QED BY <2>1, <2>2
<1>9. Sofar(list, j, i + 1, Append(found, ext))
  BY <1>3, <1>4, <1>8, SofarItem
<1>10. CASE Fails(l, i + 1)
  <2>1. s # <<>> /\ ~ Starts(s, {","}) /\ Len(Kept(l)) = i
    BY <1>8, <1>10, FailsIs
  <2>2. Abandon
    BY <1>5, <2>1
  <2> QED BY <1>3, <1>4, <2>1, <2>2, LineIsLeft
<1>11. CASE Stops(l, i + 1)
  <2>1. s = <<>> /\ Len(Kept(l)) = i + 1
    BY <1>8, <1>11 DEF Stops
  <2>2. found' = Append(found, ext) /\ at' = "line" /\ list' = list /\ lines' = lines
    BY <1>5, <2>1
  <2>3. Sofar(list, j + 1, 0, found') /\ j + 1 \in 0 .. Len(list.lines)
    BY <1>3, <1>9, <2>1, <2>2, LineOf, SofarLine
  <2>4. AtLine(j + 1)'
    BY <1>4, <2>2, <2>3 DEF AtLine, Remain
  <2> QED BY <1>3, <2>2, <2>3, <2>4 DEF HeadersInv
<1>12. CASE Goes(l, i + 1)
  <2>1. Starts(s, {","}) /\ s # <<>> /\ s = Following(l, i + 1)
    BY <1>8, <1>12 DEF Goes, Starts
  <2>2. found' = Append(found, ext) /\ at' = "ext" /\ s' = Tail(s) /\ list' = list /\ lines' = lines
    BY <1>5, <2>1
  <2> HIDE DEF l, e, n
  <2>3. AtItem(j, i + 1)'
    BY <1>4, <1>9, <1>12, <2>1, <2>2 DEF AtItem, Remain, l
  <2> QED BY <1>3, <2>2, <2>3 DEF HeadersInv, l
<1> QED BY <1>6, <1>10, <1>11, <1>12

LEMMA ContainsValueStep ==
    ASSUME HeadersInv, ContainsValue
    PROVE  HeadersInv'
<1>1. list \in Lists /\ at = "token"
  BY DEF HeadersInv, ContainsValue
<1>2. PICK j \in 0 .. Len(list.lines) - 1 : \E i \in 0 .. Len(list.lines[j + 1].items) : AtItem(j, i)
  BY <1>1, Places
<1> DEFINE l == list.lines[j + 1]
<1>3. PICK i \in 0 .. Len(l.items) : AtItem(j, i)
  BY <1>2
<1>4. l \in Lines /\ Len(l.items) \in Nat /\ j + 1 \in 1 .. Len(list.lines)
  BY <1>1, LineOf
<1> DEFINE t == nextToken(skipSpace(s))
           u == skipSpace(t.rest)
           e == l.items[i + 1]
<1>5. /\ Remain(j + 1) /\ Sofar(list, j, i, found) /\ Goes(l, i) /\ s = Tail(Following(l, i)) /\ list.value # None
  <2>1. at = IF list.value = None THEN "ext" ELSE "token"
    BY <1>3 DEF AtItem
  <2> QED BY <1>1, <1>3, <2>1 DEF AtItem
<1>6. \/ (t.value = <<>> \/ (u # <<>> /\ ~ Starts(u, {","}))) /\ Abandon
      \/ /\ t.value # <<>> /\ (u = <<>> \/ Starts(u, {","}))
         /\ found' = equalASCIIFold(t.value, list.value)
         /\ at' = IF found' THEN "done" ELSE IF u = <<>> THEN "line" ELSE "token"
         /\ s' = IF u = <<>> THEN u ELSE Tail(u)
         /\ list' = list /\ lines' = lines
  BY DEF ContainsValue
<1>7. CASE i = Len(l.items)
  <2>1. t.value = <<>> /\ Len(Kept(l)) = i
    BY <1>4, <1>5, <1>7, FollowsIs
  <2>2. Abandon
    BY <1>6, <2>1
  <2> QED BY <1>1, <1>5, <2>1, <2>2, LineIsLeft
<1>8. CASE i < Len(l.items)
  <2>1. i \in 0 .. Len(l.items) - 1 /\ i + 1 \in 0 .. Len(l.items) /\ i \in Nat
    BY <1>4, <1>8
  <2>2. /\ e \in Items /\ i + 1 \in 1 .. Len(l.items) /\ t.value = e.name /\ t.value # <<>>
        /\ skipSpace(t.rest) = skipSpace(FollowingParam(l, i + 1, 0))
    BY <1>4, <1>5, <1>8, ItemBegins
  <2>3. u = skipSpace(Following(l, i + 1))
    <3>1. e.params = <<>>
      BY <1>1, <1>4, <1>5, <2>2, ListIs
    <3>2. 0 \in 0 .. Len(e.params) /\ 0 = Len(e.params)
      BY <3>1
    <3> QED BY <1>4, <2>2, <3>2, ParamsEnd
  <2>4. Goes(l, i + 1) \/ Stops(l, i + 1) \/ Fails(l, i + 1)
    BY <1>4, <2>1, FollowsIs
  <2>5. equalASCIIFold(t.value, list.value) <=> SameWord(e.name, list.value)
    <3>1. e.name \in Seq(Token) /\ list.value \in Seq(Token)
      BY <1>1, <1>5, <2>2, ListIs DEF Items, Tokens
    <3> QED BY <2>2, <3>1, FoldIs
  <2> DEFINE same == equalASCIIFold(t.value, list.value)
  <2>6. CASE Fails(l, i + 1)
    <3>1. u # <<>> /\ ~ Starts(u, {","}) /\ Len(Kept(l)) = i
      BY <2>1, <2>3, <2>6, FailsIs
    <3>2. Abandon
      BY <1>6, <3>1
    <3> QED BY <1>1, <1>5, <3>1, <3>2, LineIsLeft
  <2>7. ASSUME Goes(l, i + 1) \/ Stops(l, i + 1)
        PROVE  /\ u = <<>> \/ Starts(u, {","})
               /\ found' = same /\ at' = (IF same THEN "done" ELSE IF u = <<>> THEN "line" ELSE "token")
               /\ s' = (IF u = <<>> THEN u ELSE Tail(u)) /\ list' = list /\ lines' = lines
    <3>1. u = <<>> \/ Starts(u, {","})
      BY <2>3, <2>7 DEF Goes, Stops
    <3> HIDE DEF same, t, u
    <3> QED BY <1>6, <2>2, <3>1 DEF same
  <2>8. ASSUME same, Goes(l, i + 1) \/ Stops(l, i + 1) PROVE HeadersInv'
    <3> DEFINE K == Len(Kept(l))
    <3>1. (i + 1 <= K \/ K = i + 1) /\ K \in Nat
      BY <1>4, <2>8, KeptIs DEF Goes, Stops
    <3>2. i + 1 \in 1..K
      <4> HIDE DEF K
      <4> QED BY <2>1, <3>1
    <3>3. Meant(list) = TRUE
      BY <1>1, <1>4, <1>5, <2>5, <2>8, <3>2, WordFound
    <3>4. found' = same /\ at' = "done" /\ list' = list
      BY <2>7, <2>8
    <3>5. same = TRUE
      BY <2>8 DEF equalASCIIFold
    <3> HIDE DEF same
    <3> QED BY <1>1, <3>3, <3>4, <3>5 DEF HeadersInv
  <2>9. ASSUME ~ same, Goes(l, i + 1) \/ Stops(l, i + 1)
        PROVE  /\ found' = FALSE /\ Sofar(list, j, i + 1, found')
               /\ at' = (IF u = <<>> THEN "line" ELSE "token")
    <3>1. found' = same /\ at' = (IF u = <<>> THEN "line" ELSE "token")
      BY <2>7, <2>9
    <3>2. same = FALSE
      BY <2>9 DEF equalASCIIFold
    <3>3. ~ SameWord(e.name, list.value)
      BY <2>5, <2>9
    <3>4. Sofar(list, j, i + 1, FALSE)
      BY <1>1, <1>5, <2>1, <3>3, SofarItem
    <3> HIDE DEF same
    <3>5. found' = FALSE
      BY <3>1, <3>2
    <3> QED BY <3>1, <3>4, <3>5
  <2>10. CASE ~ same /\ Stops(l, i + 1)
    <3>1. u = <<>> /\ Len(Kept(l)) = i + 1
      BY <2>3, <2>10 DEF Stops
    <3>2. at' = "line" /\ list' = list /\ lines' = lines
      BY <2>7, <2>9, <2>10, <3>1
    <3>3. Sofar(list, j + 1, 0, found') /\ j + 1 \in 0 .. Len(list.lines)
      BY <1>1, <2>9, <2>10, <3>1, LineOf, SofarLine
    <3>4. AtLine(j + 1)'
      BY <1>5, <3>2, <3>3 DEF AtLine, Remain
    <3> QED BY <1>1, <3>2, <3>3, <3>4 DEF HeadersInv
  <2>11. CASE ~ same /\ Goes(l, i + 1)
    <3>1. Starts(u, {","}) /\ u # <<>> /\ u = Following(l, i + 1)
      BY <2>3, <2>11 DEF Goes, Starts
    <3>2. at' = "token" /\ s' = Tail(u) /\ list' = list /\ lines' = lines /\ Sofar(list, j, i + 1, found')
      BY <2>7, <2>9, <2>11, <3>1
    <3> HIDE DEF l, e, t, u, same
    <3>3. AtItem(j, i + 1)'
      BY <1>5, <2>11, <3>1, <3>2 DEF AtItem, Remain, l
    <3> QED BY <1>1, <2>1, <3>2, <3>3 DEF HeadersInv, l
  <2> QED BY <2>4, <2>6, <2>8, <2>10, <2>11
<1> QED BY <1>4, <1>7, <1>8

LEMMA HeadersStepInv ==
    ASSUME HeadersInv, HeadersStep
    PROVE  HeadersInv'
BY NextLineStep, NameStep, ParamStep, ExtensionStep, ContainsValueStep DEF HeadersStep

LEMMA HeadersRest ==
    ASSUME HeadersInv, UNCHANGED lvars
    PROVE  HeadersInv'
BY DEF HeadersInv, AtLine, AtItem, AtParam, Remain, lvars

LEMMA HeadersParsed ==
    ASSUME HeadersInv
    PROVE  ParsesLists
<1>1. \A j : AtLine(j) => at = "line"
  BY DEF AtLine
<1>2. \A j, i : AtItem(j, i) => at = "ext" \/ at = "token"
  BY DEF AtItem
<1>3. \A j, i, k : AtParam(j, i, k) => at = "param"
  BY DEF AtParam
<1> QED BY <1>1, <1>2, <1>3 DEF HeadersInv, ParsesLists

(* parseExtensions and tokenListContainsValue find in a header what its    *)
(* sender means, whatever blanks, quotes, case and lines it is written     *)
(* with, and lose only what comes behind something out of order in a line. *)
THEOREM ListsAreParsed == CodecSpec => []ParsesLists
<1> DEFINE Inv == IF job = "parse" THEN HeadersInv ELSE at = "line"
<1>1. CodecInit => Inv
  <2> SUFFICES ASSUME CodecInit PROVE Inv
    OBVIOUS
  <2>1. CASE job = "parse"
    <3>1. HeadersInit(Lists)
      BY <2>1 DEF CodecInit
    <3> QED BY <2>1, <3>1, HeadersStart
  <2>2. CASE job # "parse"
    <3>1. at = "line"
      BY DEF CodecInit, HeadersInit
    <3> QED BY <2>2, <3>1
  <2> QED BY <2>1, <2>2
<1>2. Inv /\ [CodecNext]_codecVars => Inv'
  <2> SUFFICES ASSUME Inv, [CodecNext]_codecVars PROVE Inv'
    OBVIOUS
  <2>1. job' = job
    BY DEF CodecNext, codecVars
  <2>2. CASE UNCHANGED lvars
    <3>1. CASE job = "parse"
      BY <2>1, <2>2, <3>1, HeadersRest
    <3>2. CASE job # "parse"
      BY <2>1, <2>2, <3>2 DEF lvars
    <3> QED BY <3>1, <3>2
  <2>3. CASE job = "parse" /\ HeadersStep
    BY <2>1, <2>3, HeadersStepInv
  <2> QED BY <2>2, <2>3 DEF CodecNext, codecVars
<1>3. Inv => ParsesLists
  <2>1. HeadersInv => ParsesLists
    BY HeadersParsed
  <2> QED BY <2>1 DEF ParsesLists
<1> QED BY <1>1, <1>2, <1>3, PTL DEF CodecSpec
=============================================================================
