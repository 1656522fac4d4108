------------------------------ MODULE SessionProofs ------------------------------
(***************************************************************************)
(* The pools of compressors and decompressors, for any number of them, any *)
(* directions, payloads and configurations of the handshake: what is in a  *)
(* pool is in no message, and no two messages share it.  And the opening   *)
(* handshake: what it leaves behind, and that its two ends agree.  At last *)
(* the windows of the two sides of a direction, which stay in step.        *)
(***************************************************************************)
EXTENDS Session, TextProofs, FiniteSetTheorems, SequenceTheorems, TLAPS

Writers(f) == {d \in Dirs : writing[d] # None /\ writing[d].flate = f}
Readers(f) == {d \in Dirs : reading[d] # None /\ reading[d].flate = f}

(* Messages are records; None is no compressor.                            *)
Holders ==
    /\ DOMAIN writing = Dirs /\ DOMAIN reading = Dirs
    /\ pool \in [Flates -> Nat]
    /\ \A d \in Dirs : /\ writing[d] # None => "flate" \in DOMAIN writing[d]
                       /\ reading[d] # None => "flate" \in DOMAIN reading[d]

PoolInv == Holders /\ OwnedOnce

(* Owners of a compressor are counted: fewer are never more than one, and  *)
(* one that had none may get one.                                          *)
LEMMA Fewer ==
    ASSUME NEW S \in SUBSET Dirs, NEW T \in SUBSET S
    PROVE  /\ Cardinality(S) \in Nat /\ Cardinality(T) \in Nat
           /\ Cardinality(T) <= Cardinality(S)
<1>1. IsFiniteSet(S)
  BY DirsAssumption, FS_Subset
<1>2. IsFiniteSet(T)
  BY <1>1, FS_Subset
<1> QED BY <1>1, <1>2, FS_Subset, FS_CardinalityType

LEMMA OneMore ==
    ASSUME NEW S \in SUBSET Dirs, NEW d \in Dirs, NEW T, T \subseteq S \cup {d}
    PROVE  Cardinality(T) <= Cardinality(S) + 1
<1>1. IsFiniteSet(S)
  BY DirsAssumption, FS_Subset
<1>2. Cardinality(S) \in Nat /\ Cardinality(S \cup {d}) <= Cardinality(S) + 1
  <2>1. Cardinality(S) \in Nat
    BY <1>1, FS_CardinalityType
  <2>2. Cardinality(S \cup {d}) = IF d \in S THEN Cardinality(S) ELSE Cardinality(S) + 1
    BY <1>1, FS_AddElement
  <2> QED BY <2>1, <2>2
<1>3. Cardinality(T) <= Cardinality(S \cup {d}) /\ Cardinality(T) \in Nat /\ Cardinality(S \cup {d}) \in Nat
  BY <1>1, FS_AddElement, FS_Subset, FS_CardinalityType
<1> QED BY <1>2, <1>3

LEMMA OneLess ==
    ASSUME NEW S \in SUBSET Dirs, NEW d \in S, NEW T, T \subseteq S \ {d}
    PROVE  Cardinality(T) <= Cardinality(S) - 1
<1>1. IsFiniteSet(S)
  BY DirsAssumption, FS_Subset
<1>2. Cardinality(S) \in Nat /\ Cardinality(S \ {d}) = Cardinality(S) - 1
  BY <1>1, FS_RemoveElement, FS_CardinalityType
<1>3. Cardinality(T) <= Cardinality(S \ {d}) /\ Cardinality(T) \in Nat
  BY <1>1, FS_RemoveElement, FS_Subset, FS_CardinalityType
<1> QED BY <1>2, <1>3

Keeps(f) == pool'[f] <= pool[f] /\ Writers(f)' \subseteq Writers(f) /\ Readers(f)' \subseteq Readers(f)

(* d takes f from its pool, or d is the first to have it.                  *)
Gets(f, d) ==
    /\ \/ pool[f] > 0 /\ pool'[f] = pool[f] - 1
       \/ pool[f] = 0 /\ pool'[f] = 0 /\ Writers(f) = {} /\ Readers(f) = {}
    /\ \/ Writers(f)' \subseteq Writers(f) \cup {d} /\ Readers(f)' \subseteq Readers(f)
       \/ Writers(f)' \subseteq Writers(f) /\ Readers(f)' \subseteq Readers(f) \cup {d}

Puts(f, d) ==
    /\ pool'[f] = pool[f] + 1
    /\ \/ d \in Writers(f) /\ Writers(f)' \subseteq Writers(f) \ {d} /\ Readers(f)' \subseteq Readers(f)
       \/ d \in Readers(f) /\ Readers(f)' \subseteq Readers(f) \ {d} /\ Writers(f)' \subseteq Writers(f)

(* A frame is prepared with f, which is in its pool before or after.       *)
Uses(f) ==
    /\ pool[f] = 0 /\ pool'[f] = 1 /\ Writers(f) = {} /\ Readers(f) = {}
    /\ Writers(f)' \subseteq Writers(f) /\ Readers(f)' \subseteq Readers(f)

LEMMA Balance ==
    ASSUME PoolInv, Holders',
           \A f \in Flates : Keeps(f) \/ Uses(f) \/ \E d \in Dirs : Gets(f, d) \/ Puts(f, d)
    PROVE  PoolInv'
<1> SUFFICES ASSUME NEW f \in Flates
             PROVE  pool'[f] + Cardinality(Writers(f)') + Cardinality(Readers(f)') <= 1
  BY DEF PoolInv, OwnedOnce, Writers, Readers
<1> DEFINE W == Writers(f)
           R == Readers(f)
           V == Writers(f)'
           S == Readers(f)'
<1>1. W \in SUBSET Dirs /\ R \in SUBSET Dirs /\ V \in SUBSET Dirs /\ S \in SUBSET Dirs
  BY DEF Writers, Readers
<1>2. pool[f] \in Nat /\ pool'[f] \in Nat /\ pool[f] + Cardinality(W) + Cardinality(R) <= 1
  BY DEF PoolInv, Holders, OwnedOnce, Writers, Readers
<1>3. /\ Cardinality(W) \in Nat /\ Cardinality(R) \in Nat
      /\ Cardinality(V) \in Nat /\ Cardinality(S) \in Nat
  BY <1>1, Fewer
<1>4. Cardinality({}) = 0
  BY FS_EmptySet
<1>5. ASSUME Keeps(f) PROVE pool'[f] + Cardinality(V) + Cardinality(S) <= 1
  <2>1. Cardinality(V) <= Cardinality(W) /\ Cardinality(S) <= Cardinality(R) /\ pool'[f] <= pool[f]
    BY <1>1, <1>5, Fewer DEF Keeps
  <2> HIDE DEF W, R, V, S
  <2> QED BY <1>2, <1>3, <2>1
<1>6. ASSUME Uses(f) PROVE pool'[f] + Cardinality(V) + Cardinality(S) <= 1
  <2>1. Cardinality(V) <= 0 /\ Cardinality(S) <= 0 /\ pool'[f] = 1
    BY <1>1, <1>4, <1>6, Fewer DEF Uses
  <2> HIDE DEF W, R, V, S
  <2> QED BY <1>2, <1>3, <2>1
<1>7. ASSUME NEW d \in Dirs, Gets(f, d) PROVE pool'[f] + Cardinality(V) + Cardinality(S) <= 1
  <2>1. Cardinality(V) + Cardinality(S) <= Cardinality(W) + Cardinality(R) + 1
    <3>1. CASE V \subseteq W \cup {d} /\ S \subseteq R
      <4>1. Cardinality(V) <= Cardinality(W) + 1 /\ Cardinality(S) <= Cardinality(R)
        BY <1>1, <3>1, Fewer, OneMore
      <4> HIDE DEF W, R, V, S
      <4> QED BY <1>3, <4>1
    <3>2. CASE V \subseteq W /\ S \subseteq R \cup {d}
      <4>1. Cardinality(V) <= Cardinality(W) /\ Cardinality(S) <= Cardinality(R) + 1
        BY <1>1, <3>2, Fewer, OneMore
      <4> HIDE DEF W, R, V, S
      <4> QED BY <1>3, <4>1
    <3> QED BY <1>7, <3>1, <3>2 DEF Gets
  <2>2. CASE pool[f] > 0 /\ pool'[f] = pool[f] - 1
    <3> HIDE DEF W, R, V, S
    <3> QED BY <1>2, <1>3, <2>1, <2>2
  <2>3. CASE pool'[f] = 0 /\ W = {} /\ R = {}
    <3>1. Cardinality(W) = 0 /\ Cardinality(R) = 0
      BY <1>4, <2>3
    <3> HIDE DEF W, R, V, S
    <3> QED BY <1>3, <2>1, <2>3, <3>1
  <2> QED BY <1>7, <2>2, <2>3 DEF Gets
<1>8. ASSUME NEW d \in Dirs, Puts(f, d) PROVE pool'[f] + Cardinality(V) + Cardinality(S) <= 1
  <2>1. Cardinality(V) + Cardinality(S) <= Cardinality(W) + Cardinality(R) - 1
    <3>1. CASE d \in W /\ V \subseteq W \ {d} /\ S \subseteq R
      <4>1. Cardinality(V) <= Cardinality(W) - 1 /\ Cardinality(S) <= Cardinality(R)
        BY <1>1, <3>1, Fewer, OneLess
      <4> HIDE DEF W, R, V, S
      <4> QED BY <1>3, <4>1
    <3>2. CASE d \in R /\ S \subseteq R \ {d} /\ V \subseteq W
      <4>1. Cardinality(V) <= Cardinality(W) /\ Cardinality(S) <= Cardinality(R) - 1
        BY <1>1, <3>2, Fewer, OneLess
      <4> HIDE DEF W, R, V, S
      <4> QED BY <1>3, <4>1
    <3> QED BY <1>8, <3>1, <3>2 DEF Puts
  <2>2. pool'[f] = pool[f] + 1
    BY <1>8 DEF Puts
  <2> HIDE DEF W, R, V, S
  <2> QED BY <1>2, <1>3, <2>1, <2>2
<1> QED BY <1>5, <1>6, <1>7, <1>8
-----------------------------------------------------------------------------
(* A step of direction d leaves the holders of the other as they are.      *)
Local(d) ==
    \A e \in Dirs \ {d} : writing'[e] = writing[e] /\ reading'[e] = reading[e]

LEMMA Elsewhere ==
    ASSUME NEW d \in Dirs, NEW f, Local(d)
    PROVE  /\ Writers(f)' \subseteq Writers(f) \cup {d}
           /\ Readers(f)' \subseteq Readers(f) \cup {d}
           /\ (writing'[d] # None => writing'[d].flate # f) => Writers(f)' \subseteq Writers(f) \ {d}
           /\ (reading'[d] # None => reading'[d].flate # f) => Readers(f)' \subseteq Readers(f) \ {d}
           /\ writing'[d] = writing[d] => Writers(f)' \subseteq Writers(f)
           /\ reading'[d] = reading[d] => Readers(f)' \subseteq Readers(f)
BY DEF Local, Writers, Readers

LEMMA UnusedHasNone ==
    ASSUME NEW f, Unused(f)
    PROVE  pool[f] = 0 /\ Writers(f) = {} /\ Readers(f) = {}
BY DEF Unused, Holds, Writers, Readers

LEMMA PutAdds ==
    ASSUME pool \in [Flates -> Nat], NEW f
    PROVE  /\ PoolPut(pool, f) \in [Flates -> Nat]
           /\ \A g \in Flates : PoolPut(pool, f)[g] = IF g = f THEN pool[g] + 1 ELSE pool[g]
<1>1. CASE f = None
  BY <1>1, PoolAssumption DEF PoolPut
<1>2. CASE f # None
  <2>1. PoolPut(pool, f) = [pool EXCEPT ![f] = @ + 1]
    BY <1>2 DEF PoolPut
  <2>2. ASSUME NEW g \in Flates PROVE PoolPut(pool, f)[g] = IF g = f THEN pool[g] + 1 ELSE pool[g]
    BY <2>1
  <2>3. CASE f \in Flates
    BY <2>1, <2>2, <2>3
  <2>4. CASE f \notin Flates
    BY <2>1, <2>2, <2>4
  <2> QED BY <2>3, <2>4
<1> QED BY <1>1, <1>2

LEMMA NextWriterKeeps ==
    ASSUME PoolInv, NEW d \in Dirs, NextWriter(d)
    PROVE  PoolInv'
<1>1. Local(d) /\ reading' = reading /\ writing[d] = None
  BY DEF PoolInv, Holders, Local, NextWriter, rvars
<1>2. ASSUME NEW f \in Compressors, GetReset(f),
             writing' = [writing EXCEPT ![d] = [compress |-> TRUE, flate |-> f, plain |-> <<>>, tokens |-> <<>>]]
      PROVE  PoolInv'
  <2>1. Holders'
    BY <1>1, <1>2, PoolAssumption DEF PoolInv, Holders, GetReset, Flates
  <2>2. Gets(f, d)
    <3>1. f \in Flates /\ pool \in [Flates -> Nat]
      BY DEF Flates, PoolInv, Holders
    <3>2. \/ pool[f] > 0 /\ pool' = [pool EXCEPT ![f] = pool[f] - 1]
          \/ Unused(f) /\ pool' = pool
      BY <1>2 DEF GetReset
    <3>3. \/ pool[f] > 0 /\ pool'[f] = pool[f] - 1
          \/ Unused(f) /\ pool' = pool
      BY <3>1, <3>2
    <3> QED BY <1>1, <3>3, Elsewhere, UnusedHasNone DEF Gets
  <2>3. ASSUME NEW g \in Flates \ {f} PROVE Keeps(g)
    <3>1. pool'[g] = pool[g] /\ writing'[d].flate # g
      BY <1>2 DEF PoolInv, Holders, GetReset
    <3>2. Writers(g)' \subseteq Writers(g) /\ Readers(g)' \subseteq Readers(g)
      BY <1>1, <3>1, Elsewhere
    <3> QED BY <3>1, <3>2 DEF Keeps, PoolInv, Holders
  <2> QED BY <2>1, <2>2, <2>3, Balance
<1>3. ASSUME NEW compress,
             writing' = [writing EXCEPT ![d] = [compress |-> compress, flate |-> None, plain |-> <<>>, tokens |-> <<>>]],
             pool' = pool
      PROVE  PoolInv'
  <2>1. Holders'
    BY <1>1, <1>3 DEF PoolInv, Holders
  <2>2. ASSUME NEW g \in Flates PROVE Keeps(g)
    <3>1. writing'[d].flate # g
      BY <1>3, PoolAssumption DEF PoolInv, Holders
    <3>2. Writers(g)' \subseteq Writers(g) /\ Readers(g)' \subseteq Readers(g)
      BY <1>1, <3>1, Elsewhere
    <3> QED BY <1>3, <3>2 DEF Keeps, PoolInv, Holders
  <2> QED BY <2>1, <2>2, Balance
<1> QED BY <1>2, <1>3 DEF NextWriter

LEMMA WriteKeeps ==
    ASSUME PoolInv, NEW d \in Dirs, NEW data, Write(d, data)
    PROVE  PoolInv'
<1>1. Local(d) /\ reading' = reading /\ pool' = pool /\ writing[d] # None
  BY DEF PoolInv, Holders, Local, Write, rvars
<1>2. writing'[d].flate = writing[d].flate /\ "flate" \in DOMAIN writing'[d] /\ DOMAIN writing' = Dirs
  BY <1>1 DEF PoolInv, Holders, Write
<1>3. Holders'
  BY <1>1, <1>2 DEF PoolInv, Holders, Local
<1>4. ASSUME NEW g \in Flates PROVE Keeps(g)
  <2>1. Writers(g)' \subseteq Writers(g) /\ Readers(g)' \subseteq Readers(g)
    BY <1>1, <1>2 DEF Local, Writers, Readers
  <2> QED BY <1>1, <2>1 DEF Keeps, PoolInv, Holders
<1> QED BY <1>3, <1>4, Balance

LEMMA CloseWriterKeeps ==
    ASSUME PoolInv, NEW d \in Dirs, CloseWriter(d)
    PROVE  PoolInv'
<1>1. Local(d) /\ reading' = reading /\ writing[d] # None /\ writing'[d] = None
  BY DEF PoolInv, Holders, Local, CloseWriter, rvars
<1>2. pool' = PoolPut(pool, writing[d].flate)
  BY DEF CloseWriter
<1>3. Holders'
  <2>1. pool' \in [Flates -> Nat] /\ DOMAIN writing' = Dirs
    BY <1>2, PutAdds DEF PoolInv, Holders, CloseWriter
  <2> QED BY <1>1, <2>1 DEF PoolInv, Holders, Local
<1>4. ASSUME NEW g \in Flates PROVE Keeps(g) \/ Puts(g, d)
  <2>1. Writers(g)' \subseteq Writers(g) \ {d} /\ Readers(g)' \subseteq Readers(g)
    BY <1>1, Elsewhere
  <2>2. CASE writing[d].flate = g
    <3>1. pool'[g] = pool[g] + 1 /\ d \in Writers(g)
      BY <1>1, <1>2, <2>2, PutAdds DEF PoolInv, Holders, Writers
    <3> QED BY <2>1, <3>1 DEF Puts
  <2>3. CASE writing[d].flate # g
    <3>1. pool'[g] = pool[g]
      BY <1>2, <2>3, PutAdds DEF PoolInv, Holders
    <3> QED BY <2>1, <3>1 DEF Keeps, PoolInv, Holders
  <2> QED BY <2>2, <2>3
<1> QED BY <1>3, <1>4, Balance

(* What is put back by closing the reader before may be taken out again at *)
(* once.                                                                   *)
LEMMA NextReaderKeeps ==
    ASSUME PoolInv, NEW d \in Dirs, NextReader(d)
    PROVE  PoolInv'
<1> DEFINE closed == IF reading[d] = None THEN pool ELSE PoolPut(pool, reading[d].flate)
<1>1. Local(d) /\ writing' = writing /\ DOMAIN reading' = Dirs
  BY DEF PoolInv, Holders, Local, NextReader, wvars
<1>2. /\ closed \in [Flates -> Nat]
      /\ \A g \in Flates : closed[g] = IF d \in Readers(g) THEN pool[g] + 1 ELSE pool[g]
  <2>1. CASE reading[d] = None
    BY <2>1 DEF PoolInv, Holders, Readers
  <2>2. CASE reading[d] # None
    BY <2>2, PutAdds DEF PoolInv, Holders, Readers
  <2> QED BY <2>1, <2>2
<1>3. ASSUME NEW f \in Decompressors, closed[f] > 0 \/ (Unused(f) /\ closed[f] = 0),
             pool' = [closed EXCEPT ![f] = IF @ > 0 THEN @ - 1 ELSE @],
             "flate" \in DOMAIN reading'[d], reading'[d].flate = f
      PROVE  PoolInv'
  <2>1. f \in Flates /\ pool' \in [Flates -> Nat]
    BY <1>2, <1>3 DEF Flates
  <2>2. Holders'
    BY <1>1, <1>3, <2>1 DEF PoolInv, Holders, Local
  <2>3. Keeps(f) \/ Gets(f, d)
    <3>1. CASE d \in Readers(f)
      <4>1. pool'[f] = pool[f]
        BY <1>2, <1>3, <2>1, <3>1 DEF PoolInv, Holders
      <4>2. Writers(f)' \subseteq Writers(f) /\ Readers(f)' \subseteq Readers(f)
        BY <1>1, <3>1, Elsewhere
      <4> QED BY <2>1, <4>1, <4>2 DEF Keeps, PoolInv, Holders
    <3>2. CASE d \notin Readers(f)
      <4>1. \/ pool[f] > 0 /\ pool'[f] = pool[f] - 1
            \/ Unused(f) /\ pool'[f] = 0
        BY <1>2, <1>3, <2>1, <3>2 DEF PoolInv, Holders, Unused
      <4> QED BY <1>1, <4>1, Elsewhere, UnusedHasNone DEF Gets
    <3> QED BY <3>1, <3>2
  <2>4. ASSUME NEW g \in Flates \ {f} PROVE Keeps(g) \/ Puts(g, d)
    <3>1. Writers(g)' \subseteq Writers(g) /\ Readers(g)' \subseteq Readers(g) \ {d}
      BY <1>1, <1>3, Elsewhere
    <3>2. pool'[g] = IF d \in Readers(g) THEN pool[g] + 1 ELSE pool[g]
      BY <1>2, <1>3
    <3> QED BY <3>1, <3>2 DEF Keeps, Puts, PoolInv, Holders
  <2> QED BY <2>2, <2>3, <2>4, Balance
<1>4. ASSUME pool' = closed, "flate" \in DOMAIN reading'[d], reading'[d].flate = None
      PROVE  PoolInv'
  <2>1. Holders'
    BY <1>1, <1>2, <1>4 DEF PoolInv, Holders, Local
  <2>2. ASSUME NEW g \in Flates PROVE Keeps(g) \/ Puts(g, d)
    <3>1. Writers(g)' \subseteq Writers(g) /\ Readers(g)' \subseteq Readers(g) \ {d}
      BY <1>1, <1>4, Elsewhere, PoolAssumption
    <3>2. pool'[g] = IF d \in Readers(g) THEN pool[g] + 1 ELSE pool[g]
      BY <1>2, <1>4
    <3> QED BY <3>1, <3>2 DEF Keeps, Puts, PoolInv, Holders
  <2> QED BY <2>1, <2>2, Balance
<1> HIDE DEF closed
<1>5. \/ \E f \in Decompressors :
            /\ closed[f] > 0 \/ (Unused(f) /\ closed[f] = 0)
            /\ pool' = [closed EXCEPT ![f] = IF @ > 0 THEN @ - 1 ELSE @]
            /\ "flate" \in DOMAIN reading'[d] /\ reading'[d].flate = f
      \/ pool' = closed /\ "flate" \in DOMAIN reading'[d] /\ reading'[d].flate = None
  <2> DEFINE m == Head(wire[d])
             h == IF m.rsv1 THEN window[d] ELSE <<>>
  <2>1. \/ \E f \in Decompressors :
              /\ closed[f] > 0 \/ (Unused(f) /\ closed[f] = 0)
              /\ pool' = [closed EXCEPT ![f] = IF @ > 0 THEN @ - 1 ELSE @]
              /\ reading' = [reading EXCEPT ![d] =
                               [msg |-> m, flate |-> f, pos |-> 0, hist |-> <<>>, ended |-> FALSE]]
        \/ /\ pool' = closed
           /\ reading' = [reading EXCEPT ![d] =
                               [msg |-> m, flate |-> None, pos |-> 0, ended |-> FALSE, hist |-> h]]
    BY DEF NextReader, closed
  <2>2. DOMAIN reading = Dirs
    BY DEF PoolInv, Holders
  <2> HIDE DEF closed, m, h
  <2> QED BY <2>1, <2>2
<1> QED BY <1>3, <1>4, <1>5

LEMMA ReadKeeps ==
    ASSUME PoolInv, NEW d \in Dirs, Read(d)
    PROVE  PoolInv'
<1>1. Local(d) /\ writing' = writing /\ pool' = pool /\ reading[d] # None
  BY DEF PoolInv, Holders, Local, Read, wvars
<1>2. reading'[d].flate = reading[d].flate /\ "flate" \in DOMAIN reading'[d] /\ DOMAIN reading' = Dirs
  BY <1>1 DEF PoolInv, Holders, Read
<1>3. Holders'
  BY <1>1, <1>2 DEF PoolInv, Holders, Local
<1>4. ASSUME NEW g \in Flates PROVE Keeps(g)
  <2>1. Writers(g)' \subseteq Writers(g) /\ Readers(g)' \subseteq Readers(g)
    BY <1>1, <1>2 DEF Local, Writers, Readers
  <2> QED BY <1>1, <2>1 DEF Keeps, PoolInv, Holders
<1> QED BY <1>3, <1>4, Balance

LEMMA ReadEndKeeps ==
    ASSUME PoolInv, NEW d \in Dirs, ReadEnd(d)
    PROVE  PoolInv'
<1>1. Local(d) /\ writing' = writing /\ reading[d] # None
  BY DEF PoolInv, Holders, Local, ReadEnd, wvars
<1>2. "flate" \in DOMAIN reading'[d] /\ reading'[d].flate = None /\ DOMAIN reading' = Dirs
  BY <1>1 DEF PoolInv, Holders, ReadEnd
<1>3. pool' = PoolPut(pool, reading[d].flate)
  BY DEF ReadEnd
<1>4. Holders'
  <2>1. pool' \in [Flates -> Nat]
    BY <1>3, PutAdds DEF PoolInv, Holders
  <2> QED BY <1>1, <1>2, <2>1 DEF PoolInv, Holders, Local
<1>5. ASSUME NEW g \in Flates PROVE Keeps(g) \/ Puts(g, d)
  <2>1. Writers(g)' \subseteq Writers(g) /\ Readers(g)' \subseteq Readers(g) \ {d}
    BY <1>1, <1>2, Elsewhere, PoolAssumption
  <2>2. CASE reading[d].flate = g
    <3>1. pool'[g] = pool[g] + 1 /\ d \in Readers(g)
      BY <1>1, <1>3, <2>2, PutAdds DEF PoolInv, Holders, Readers
    <3> QED BY <2>1, <3>1 DEF Puts
  <2>3. CASE reading[d].flate # g
    <3>1. pool'[g] = pool[g]
      BY <1>3, <2>3, PutAdds DEF PoolInv, Holders
    <3> QED BY <2>1, <3>1 DEF Keeps, PoolInv, Holders
  <2> QED BY <2>2, <2>3
<1> QED BY <1>4, <1>5, Balance

LEMMA FillFrameKeeps ==
    ASSUME PoolInv, NEW d \in Dirs, FillFrame(d)
    PROVE  PoolInv'
<1>1. writing' = writing /\ reading' = reading
  BY DEF FillFrame, wvars, rvars
<1>2. ASSUME NEW g PROVE Writers(g)' \subseteq Writers(g) /\ Readers(g)' \subseteq Readers(g)
  BY <1>1 DEF Writers, Readers
<1>3. CASE UNCHANGED pool
  <2>1. Holders'
    BY <1>1, <1>3 DEF PoolInv, Holders
  <2>2. \A g \in Flates : Keeps(g)
    BY <1>2, <1>3 DEF Keeps, PoolInv, Holders
  <2> QED BY <2>1, <2>2, Balance
<1>4. ASSUME NEW f \in Compressors, pool[f] > 0 \/ Unused(f),
             pool' = [pool EXCEPT ![f] = IF @ = 0 THEN 1 ELSE @]
      PROVE  PoolInv'
  <2>1. Holders' /\ f \in Flates
    BY <1>1, <1>4 DEF PoolInv, Holders, Flates
  <2>2. Keeps(f) \/ Uses(f)
    <3>1. CASE pool[f] > 0
      BY <1>2, <1>4, <2>1, <3>1 DEF Keeps, PoolInv, Holders
    <3>2. CASE Unused(f)
      BY <1>2, <1>4, <2>1, <3>2, UnusedHasNone DEF Uses, PoolInv, Holders
    <3> QED BY <1>4, <3>1, <3>2
  <2>3. ASSUME NEW g \in Flates \ {f} PROVE Keeps(g)
    BY <1>2, <1>4 DEF Keeps, PoolInv, Holders
  <2> QED BY <2>1, <2>2, <2>3, Balance
<1> QED BY <1>3, <1>4 DEF FillFrame

LEMMA OthersKeep ==
    ASSUME PoolInv, UNCHANGED <<writing, reading, pool>>
    PROVE  PoolInv'
BY DEF PoolInv, Holders, OwnedOnce

LEMMA PoolStep ==
    ASSUME PoolInv, [Next]_vars
    PROVE  PoolInv'
<1>1. CASE UNCHANGED zvars
  BY <1>1, OthersKeep DEF zvars, wvars, rvars
<1>2. CASE Connect
  BY <1>2, OthersKeep DEF Connect, wvars, rvars
<1>3. ASSUME NEW d \in Dirs, WritePrepared(d) PROVE PoolInv'
  BY <1>3, OthersKeep DEF WritePrepared, rvars
<1>4. ASSUME NEW d \in Dirs, SendFrame(d) PROVE PoolInv'
  BY <1>4, OthersKeep DEF SendFrame, wvars, rvars
<1>5. CASE DeflateNext
  BY <1>3, <1>4, <1>5, NextWriterKeeps, WriteKeeps, CloseWriterKeeps, NextReaderKeeps, ReadKeeps,
     ReadEndKeeps, FillFrameKeeps DEF DeflateNext
<1> QED BY <1>1, <1>2, <1>5 DEF Next, vars

LEMMA PoolInvariant == Spec => []PoolInv
<1>1. Init => PoolInv
  <2> SUFFICES ASSUME Init PROVE PoolInv
    OBVIOUS
  <2>1. Holders
    BY DEF Init, DeflateInit, Holders
  <2>2. ASSUME NEW f \in Flates PROVE pool[f] = 0 /\ Writers(f) = {} /\ Readers(f) = {}
    BY <2>2 DEF Init, DeflateInit, Writers, Readers
  <2>3. OwnedOnce
    <3>1. \A f \in Flates : pool[f] + Cardinality(Writers(f)) + Cardinality(Readers(f)) = 0
      BY <2>2, FS_EmptySet
    <3>2. \A f \in Flates : pool[f] + Cardinality(Writers(f)) + Cardinality(Readers(f)) <= 1
      BY <3>1
    <3> QED BY <3>2, Zenon DEF OwnedOnce, Writers, Readers
  <2> QED BY <2>1, <2>3 DEF PoolInv
<1> QED BY <1>1, PoolStep, PTL DEF Spec

(* A compressor or decompressor is in its pool or in one message, never in *)
(* two places (compression.go:269).                                        *)
THEOREM PooledHasOneOwner == Spec => []OwnedOnce
<1>1. PoolInv => OwnedOnce
  BY DEF PoolInv
<1> QED BY <1>1, PoolInvariant, PTL
-----------------------------------------------------------------------------
(* A header with one entry of permessage-deflate, or none.                 *)
LEMMA OneEntry ==
    ASSUME NEW serverNo \in BOOLEAN, NEW clientNo \in BOOLEAN
    PROVE  /\ Deflates(<<PMD(serverNo, clientNo)>>) # {}
           /\ First(<<PMD(serverNo, clientNo)>>) = PMD(serverNo, clientNo)
<1> DEFINE e == PMD(serverNo, clientNo)
<1>1. Deflates(<<e>>) = {1}
  BY DEF Deflates, PMD
<1>2. (CHOOSE i \in {1} : \A j \in {1} : i <= j) = 1
  OBVIOUS
<1>3. First(<<e>>) = <<e>>[1]
  BY <1>1, <1>2 DEF First
<1> QED BY <1>1, <1>3

LEMMA NoEntry == Deflates(<<>>) = {}
BY DEF Deflates

LEMMA AcceptIsBoolean ==
    ASSUME NEW mode, NEW exts
    PROVE  \/ Accept(mode, exts) = NoCompression
           \/ \E w, r \in BOOLEAN : Accept(mode, exts) = [compress |-> TRUE, write |-> w, read |-> r]
BY DEF Accept

(* What the client takes from the answer is what the server has accepted,  *)
(* provided that it lets itself be told about takeover.                    *)
LEMMA AnswerTells ==
    ASSUME NEW t, NEW mode, NEW a,
           \/ a = NoCompression
           \/ \E w, r \in BOOLEAN : a = [compress |-> TRUE, write |-> w, read |-> r]
    PROVE  /\ a = NoCompression => Answer(a) = <<>> /\ Adopt(t, mode, Answer(a)) = Mirror(a)
           /\ a # NoCompression => Answer(a) = <<PMD(~ a.write, ~ a.read)>>
           /\ a # NoCompression /\ mode = "takeover" => Adopt(t, mode, Answer(a)) = Mirror(a)
<1>1. CASE a = NoCompression
  <2>1. Answer(a) = <<>>
    BY <1>1 DEF Answer, NoCompression
  <2>2. Adopt(t, mode, <<>>) = NoCompression
    BY NoEntry DEF Adopt, Ignores
  <2>3. Mirror(a) = a
    BY <1>1 DEF Mirror, NoCompression
  <2> QED BY <1>1, <2>1, <2>2, <2>3
<1>2. ASSUME NEW w \in BOOLEAN, NEW r \in BOOLEAN, a = [compress |-> TRUE, write |-> w, read |-> r]
      PROVE  /\ Answer(a) = <<PMD(~ w, ~ r)>> /\ a # NoCompression
             /\ mode = "takeover" => Adopt(t, mode, Answer(a)) = Mirror(a)
  <2>1. Answer(a) = <<PMD(~ w, ~ r)>> /\ a # NoCompression
    BY <1>2 DEF Answer, NoCompression
  <2>2. ASSUME mode = "takeover" PROVE Adopt(t, mode, Answer(a)) = [compress |-> TRUE, write |-> r, read |-> w]
    <3>1. First(Answer(a)) = PMD(~ w, ~ r) /\ Deflates(Answer(a)) # {}
      BY <2>1, OneEntry
    <3> DEFINE wr == mode = "takeover" /\ ~ First(Answer(a)).clientNo
               rd == mode = "takeover" /\ ~ First(Answer(a)).serverNo
    <3>2. Adopt(t, mode, Answer(a)) = [compress |-> TRUE, write |-> wr, read |-> rd]
      BY <2>2, <3>1 DEF Adopt, Ignores
    <3>3. First(Answer(a)).serverNo = (~ w) /\ First(Answer(a)).clientNo = (~ r)
      BY <3>1, SMT DEF PMD
    <3>4. wr = r /\ rd = w
      <4>1. CASE w /\ r
        BY <2>2, <3>3, <4>1
      <4>2. CASE w /\ ~ r
        BY <2>2, <3>3, <4>2
      <4>3. CASE ~ w /\ r
        BY <2>2, <3>3, <4>3
      <4>4. CASE ~ w /\ ~ r
        BY <2>2, <3>3, <4>4
      <4> QED BY <4>1, <4>2, <4>3, <4>4
    <3> HIDE DEF wr, rd
    <3> QED BY <3>2, <3>4
  <2>3. Mirror(a) = [compress |-> TRUE, write |-> r, read |-> w]
    BY <1>2 DEF Mirror
  <2> QED BY <2>1, <2>2, <2>3
<1> QED BY <1>1, <1>2

LEMMA SameCompression ==
    ASSUME NEW t, NEW c \in Modes, NEW s
    PROVE  LET accepted == Accept(s, Offer(c))
           IN  /\ Ignores(t, c, Answer(accepted)) \/ AnswerValid(c, Answer(accepted))
               /\ Adopt(t, c, Answer(accepted)) = Mirror(accepted)
<1> DEFINE accepted == Accept(s, Offer(c))
<1>1. CASE accepted = NoCompression
  <2>1. Answer(accepted) = <<>> /\ Adopt(t, c, Answer(accepted)) = Mirror(accepted)
    BY <1>1, AnswerTells
  <2> QED BY <2>1, NoEntry DEF Ignores
<1>2. CASE accepted # NoCompression
  <2>1. Deflates(Offer(c)) # {}
    BY <1>2 DEF Accept
  <2>2. CASE c = "takeover"
    <3>1. Adopt(t, c, Answer(accepted)) = Mirror(accepted) /\ Answer(accepted) = <<PMD(~ accepted.write, ~ accepted.read)>>
      BY <1>2, <2>2, AnswerTells, AcceptIsBoolean
    <3>2. First(Answer(accepted)) = PMD(~ accepted.write, ~ accepted.read)
      BY <3>1, OneEntry
    <3> QED BY <2>2, <3>1, <3>2 DEF AnswerValid, PMD
  <2>3. CASE c = "noTakeover"
    <3>1. First(Offer(c)) = PMD(TRUE, TRUE)
      BY <2>3, OneEntry DEF Offer
    <3> DEFINE wr == s = "takeover" /\ ~ First(Offer(c)).serverNo
               rd == s = "takeover" /\ ~ First(Offer(c)).clientNo
    <3>2. accepted = [compress |-> TRUE, write |-> FALSE, read |-> FALSE]
      <4>1. accepted = [compress |-> TRUE, write |-> wr, read |-> rd]
        BY <1>2 DEF Accept
      <4>2. wr = FALSE /\ rd = FALSE
        BY <3>1 DEF PMD
      <4> HIDE DEF wr, rd, accepted
      <4> QED BY <4>1, <4>2
    <3>3. Answer(accepted) = <<PMD(TRUE, TRUE)>> /\ Mirror(accepted) = accepted
      <4> HIDE DEF accepted
      <4>1. Mirror(accepted) = accepted /\ Answer(accepted) = <<PMD(~ FALSE, ~ FALSE)>>
        BY <3>2 DEF Answer, Mirror
      <4>2. (~ FALSE) = TRUE
        OBVIOUS
      <4> QED BY <4>1, <4>2
    <3>4. First(Answer(accepted)) = PMD(TRUE, TRUE) /\ Deflates(Answer(accepted)) # {}
      BY <3>3, OneEntry
    <3>5. Adopt(t, c, Answer(accepted)) = [compress |-> TRUE, write |-> FALSE, read |-> FALSE]
      BY <2>3, <3>4 DEF Adopt, Ignores
    <3> QED BY <3>2, <3>3, <3>4, <3>5 DEF AnswerValid, PMD
  <2>4. CASE c \in {"default", "disabled"}
    <3>1. Offer(c) = <<>>
      BY <2>4 DEF Offer
    <3> QED BY <2>1, <3>1, NoEntry
  <2> QED BY <2>2, <2>3, <2>4 DEF Modes
<1> QED BY <1>1, <1>2
-----------------------------------------------------------------------------
(* Where the client is: what is left to do, and what is true of the        *)
(* connection and the response by then.                                    *)
Preparing == {"dialTLS", "deadline", "connect", "proxyTLS"}
Steps     == Preparing \cup {"request", "dial", "send", "await", "adopt", "clear"}

Prepares(left) ==
    \E m \in Seq(Preparing) : left = m \o Rest /\ (conf.transport = "h2" => m = <<>>)

Answered == resp # None /\ resp.is = "good"
Adopted  == cparams = [deflate |-> Adopt(conf.transport, CMode, resp.exts), proto |-> resp.proto]

Stage ==
    \/ cconn = "none" /\ \E s \in Seq(Steps) :
          Prepares(s) /\ (todo = <<"request", "dial">> \o s \/ todo = <<"dial">> \o s)
    \/ cconn = "open" /\ (Prepares(todo) \/ todo = Tail(Rest))
    \/ cconn = "open" /\ Answered /\ todo = Tail(Tail(Rest))
    \/ cconn = "open" /\ Answered /\ Adopted /\ conf.transport # "h2" /\ todo = <<"clear">>

ClientInv ==
    /\ cres = "pending" => Stage
    /\ cres = "ok" => Answered /\ Adopted /\ cconn = "open"
    /\ cres = "ok" \/ conf.transport = "h2" => cdl = FALSE
    /\ cres \in Errors => cconn # "open"
    /\ conf.peer = "none" =>
          /\ cres # "badCompression"
          /\ cres = "badHandshake" =>
                resp # None /\ (resp.is = "refusal" \/ (conf.transport = "h2" /\ ~ KnownProto))

NoDeadlines == [read |-> "none", write |-> "none"]

ServerInv ==
    /\ conf \in Confs
    /\ conf.peer = "server" => spc = "check"
    /\ spc \in {"check", "hijack", "deadline", "write", "clear", "ok", "error", "connected"}
    /\ spc \in {"hijack", "deadline", "write", "clear", "ok", "error"} => req # None
    /\ conf.peer # "client" /\ req # None => req = OurRequest
    /\ conf.peer # "server" /\ spc \in {"check", "hijack", "deadline", "write", "connected"} => resp = None
    /\ spc \in {"hijack", "deadline", "write", "clear", "ok"} => sparams.deflate = Accept(SMode, req.exts)
    /\ conf.peer # "server" /\ resp # None /\ resp.is = "good" =>
          resp.exts = Answer(Accept(SMode, req.exts))
    /\ spc \in {"clear", "ok"} => resp.exts = Answer(sparams.deflate) /\ resp.proto = sparams.proto

UpgradeInv ==
    /\ spc \in {"check", "hijack"} => sconn = "http" /\ sdl = NoDeadlines
    /\ spc = "error" => sconn # "open"
    /\ conf.transport = "h2" =>
          /\ spc \notin {"hijack", "deadline", "clear"}
          /\ spc \in {"write", "ok"} => sdl = NoDeadlines
          /\ spc = "write" => sconn # "open"
          /\ spc = "ok" => sconn = "open"
    /\ conf.transport = "h1" /\ spc \in {"deadline", "write", "clear", "ok"} =>
          sconn = "open" /\ (req.early => early)
    /\ conf.transport = "h1" /\ ~ Server.timeout /\ spc \in {"write", "clear", "ok"} => sdl = NoDeadlines
    /\ DOMAIN sdl = {"read", "write"}
    /\ spc = "ok" => sdl.write = "none"

LEMMA RestSteps ==
    /\ Rest \in Seq(Steps) /\ Tail(Rest) \in Seq(Steps) /\ Tail(Tail(Rest)) \in Seq(Steps)
    /\ Rest # <<>>
    /\ Head(Rest) = "send" /\ Head(Tail(Rest)) = "await" /\ Head(Tail(Tail(Rest))) = "adopt"
    /\ Tail(Tail(Tail(Rest))) = IF conf.transport = "h2" THEN <<>> ELSE <<"clear">>
<1>1. CASE conf.transport = "h2"
  <2>1. Rest = <<"send", "await", "adopt">>
    BY <1>1 DEF Rest
  <2> QED BY <1>1, <2>1 DEF Steps
<1>2. CASE conf.transport # "h2"
  <2>1. Rest = <<"send", "await", "adopt", "clear">>
    BY <1>2 DEF Rest
  <2> QED BY <1>2, <2>1 DEF Steps
<1> QED BY <1>1, <1>2

LEMMA PreparesStep ==
    ASSUME NEW left, Prepares(left)
    PROVE  /\ left \in Seq(Steps)
           /\ \/ Head(left) = "send" /\ Tail(left) = Tail(Rest)
              \/ Head(left) \in Preparing /\ conf.transport # "h2" /\ Prepares(Tail(left))
<1>1. PICK m \in Seq(Preparing) : left = m \o Rest /\ (conf.transport = "h2" => m = <<>>)
  BY DEF Prepares
<1>2. m \in Seq(Steps) /\ left \in Seq(Steps)
  BY <1>1, RestSteps, ConcatProperties DEF Steps
<1>3. CASE m = <<>>
  <2>1. left = Rest
    BY <1>1, <1>3, RestSteps, ConcatEmptySeq
  <2> QED BY <1>2, <2>1, RestSteps
<1>4. CASE m # <<>>
  <2>1. Head(left) = Head(m) /\ Tail(left) = Tail(m) \o Rest
    BY <1>1, <1>2, <1>4, RestSteps
  <2>2. Head(m) \in Preparing /\ Tail(m) \in Seq(Preparing)
    BY <1>4, HeadTailProperties
  <2> QED BY <1>1, <1>2, <1>4, <2>1, <2>2 DEF Prepares
<1> QED BY <1>3, <1>4

(* What the next step says of the state, and what is left after it.        *)
LEMMA StageStep ==
    ASSUME Stage
    PROVE  /\ Head(todo) = "request" => cconn = "none" /\ \E s \in Seq(Steps) : Prepares(s) /\ Tail(todo) = <<"dial">> \o s
           /\ Head(todo) = "dial" => cconn = "none" /\ Prepares(Tail(todo))
           /\ Head(todo) \in Preparing => cconn = "open" /\ conf.transport # "h2" /\ Prepares(Tail(todo))
           /\ Head(todo) = "send" => cconn = "open" /\ Tail(todo) = Tail(Rest)
           /\ Head(todo) = "await" => cconn = "open" /\ Tail(todo) = Tail(Tail(Rest))
           /\ Head(todo) = "adopt" => /\ cconn = "open" /\ Answered
                                      /\ Tail(todo) = IF conf.transport = "h2" THEN <<>> ELSE <<"clear">>
           /\ Head(todo) = "clear" => cconn = "open" /\ Answered /\ Adopted
<1>1. ASSUME cconn = "none", NEW s \in Seq(Steps), Prepares(s), todo = <<"request", "dial">> \o s
      PROVE  Head(todo) = "request" /\ Tail(todo) = <<"dial">> \o s
  BY <1>1
<1>2. ASSUME cconn = "none", NEW s \in Seq(Steps), Prepares(s), todo = <<"dial">> \o s
      PROVE  Head(todo) = "dial" /\ Tail(todo) = s
  BY <1>2
<1>3. CASE cconn = "open" /\ Prepares(todo)
  BY <1>3, PreparesStep DEF Preparing
<1>4. CASE cconn = "open" /\ todo = Tail(Rest)
  BY <1>4, RestSteps DEF Preparing
<1>5. CASE cconn = "open" /\ Answered /\ todo = Tail(Tail(Rest))
  BY <1>5, RestSteps DEF Preparing
<1>6. CASE cconn = "open" /\ Answered /\ Adopted /\ todo = <<"clear">>
  <2>1. Head(todo) = "clear"
    BY <1>6
  <2> QED BY <1>6, <2>1 DEF Preparing
<1> QED BY <1>1, <1>2, <1>3, <1>4, <1>5, <1>6 DEF Stage, Preparing
-----------------------------------------------------------------------------
HInv == ClientInv /\ ServerInv /\ UpgradeInv

LEMMA StepsAssociate ==
    ASSUME NEW a \in Seq(Steps), NEW b \in Seq(Steps), NEW c \in Seq(Steps)
    PROVE  (a \o b) \o c = a \o (b \o c)
BY ConcatAssociative, SMT

LEMMA HInvInit == HandshakeInit => HInv
<1> SUFFICES ASSUME HandshakeInit PROVE HInv
  OBVIOUS
<1>1. Stage
  <2> DEFINE prep == IF conf.transport = "h2" THEN <<>>
                     ELSE FirstTLS(Client) \o <<"deadline">> \o Tunnel(Client) \o SecondTLS(Client)
  <2>1. prep \in Seq(Preparing)
    <3>1. /\ <<>> \in Seq(Preparing) /\ <<"dialTLS">> \in Seq(Preparing)
          /\ <<"deadline">> \in Seq(Preparing) /\ <<"connect">> \in Seq(Preparing)
          /\ <<"proxyTLS">> \in Seq(Preparing)
      BY DEF Preparing
    <3>2. FirstTLS(Client) \in Seq(Preparing)
      BY <3>1 DEF FirstTLS
    <3>3. Tunnel(Client) \in Seq(Preparing)
      BY <3>1 DEF Tunnel
    <3>4. SecondTLS(Client) \in Seq(Preparing)
      BY <3>1 DEF SecondTLS
    <3> QED BY <3>1, <3>2, <3>3, <3>4, ConcatProperties
  <2>2. Prepares(prep \o Rest)
    BY <2>1 DEF Prepares
  <2>3. todo = (<<"request", "dial">> \o prep) \o Rest /\ cconn = "none"
    BY DEF HandshakeInit, DialSteps
  <2>4. todo = <<"request", "dial">> \o (prep \o Rest)
    <3> HIDE DEF prep
    <3> DEFINE first == <<"request", "dial">>
    <3>1. prep \in Seq(Steps) /\ first \in Seq(Steps) /\ Rest \in Seq(Steps)
      BY <2>1, RestSteps DEF Steps
    <3> HIDE DEF first
    <3>2. (first \o prep) \o Rest = first \o (prep \o Rest)
      BY <3>1, StepsAssociate
    <3> QED BY <2>3, <3>2, Zenon DEF first
  <2> HIDE DEF prep
  <2> QED BY <2>2, <2>3, <2>4, PreparesStep DEF Stage
<1>2. ClientInv
  BY <1>1 DEF HandshakeInit, ClientInv, Errors
<1>3. ServerInv /\ UpgradeInv
  BY DEF HandshakeInit, ServerInv, UpgradeInv, NoDeadlines
<1> QED BY <1>2, <1>3 DEF HInv

(* The request comes once, and the response too.                           *)
LEMMA ServerRests ==
    ASSUME ServerInv, UpgradeInv, UNCHANGED <<conf, svars, resp>>,
           \/ req' = req
           \/ req = None /\ conf.peer = "client"
           \/ conf.peer # "client" /\ req' = OurRequest
    PROVE  ServerInv' /\ UpgradeInv'
<1>1. UNCHANGED <<conf, spc, sconn, sdl, early, sparams, resp>> /\ OurRequest' = OurRequest
  BY DEF svars, OurRequest, Server, Client, CMode
<1>2. spc \in {"hijack", "deadline", "write", "clear", "ok", "error"} => req' = req /\ req # None
  BY DEF ServerInv
<1>3. SMode' = SMode /\ Server' = Server
  BY <1>1 DEF SMode, Server
<1>4. conf.peer # "server" /\ resp # None => spc \in {"clear", "ok", "error"}
  BY DEF ServerInv
<1>5. ServerInv'
  BY <1>1, <1>2, <1>3, <1>4 DEF ServerInv
<1>6. UpgradeInv'
  BY <1>1, <1>2, <1>3 DEF UpgradeInv
<1> QED BY <1>5, <1>6

LEMMA ClientRests ==
    ASSUME ClientInv, UNCHANGED <<conf, cvars>>, resp # None => resp' = resp
    PROVE  ClientInv'
<1>1. UNCHANGED <<conf, todo, cres, cconn, cdl, cparams>>
  BY DEF cvars
<1>2. Answered => Answered' /\ (Adopted => Adopted')
  BY <1>1 DEF Answered, Adopted, CMode, Client
<1>3. Stage => Stage'
  BY <1>1, <1>2 DEF Stage, Prepares, Rest
<1>4. resp # None => KnownProto' = KnownProto
  BY <1>1 DEF KnownProto, Client
<1> QED BY <1>1, <1>2, <1>3, <1>4 DEF ClientInv

LEMMA DialFails ==
    ASSUME HInv, NEW e \in Errors, FailDial(e),
           conf.peer = "none" =>
               /\ e # "badCompression"
               /\ e = "badHandshake" => resp # None /\ (resp.is = "refusal" \/ (conf.transport = "h2" /\ ~ KnownProto))
    PROVE  HInv'
<1>1. UNCHANGED <<conf, resp>> /\ cres' = e /\ cdl' = cdl /\ cconn' # "open"
  BY DEF FailDial
<1>2. KnownProto' = KnownProto
  BY <1>1 DEF KnownProto, Client
<1>3. ClientInv'
  BY <1>1, <1>2 DEF HInv, ClientInv, Errors
<1>4. ServerInv' /\ UpgradeInv'
  BY ServerRests DEF HInv, FailDial
<1> QED BY <1>3, <1>4 DEF HInv

(* A step that is made leaves the rest to do, and tells no one.            *)
LEMMA DialGoesOn ==
    ASSUME HInv, cres = "pending", UNCHANGED <<conf, cres, svars, resp>>, Stage',
           req' = req \/ (conf.peer # "client" /\ req' = OurRequest),
           conf.transport = "h2" => cdl' = cdl
    PROVE  HInv'
<1>1. ServerInv' /\ UpgradeInv'
  BY ServerRests DEF HInv
<1>2. ClientInv'
  BY DEF HInv, ClientInv, Errors
<1> QED BY <1>1, <1>2 DEF HInv

LEMMA PreparationKeeps ==
    ASSUME HInv, BuildRequest \/ Dial \/ SetDeadline \/ Exchange
    PROVE  HInv'
<1>1. cres = "pending" /\ Stage
  BY DEF HInv, ClientInv, BuildRequest, Dial, SetDeadline, Exchange, At
<1>2. ASSUME BuildRequest, FailDial("config") PROVE HInv'
  BY <1>2, DialFails DEF Errors
<1>3. ASSUME BuildRequest, Proceed, UNCHANGED <<conf, cconn, cdl, cparams, req, svars, resp, silent>>
      PROVE  HInv'
  <2>1. Head(todo) = "request" /\ todo' = Tail(todo) /\ cconn' = cconn /\ conf' = conf
    BY <1>3 DEF BuildRequest, At, Proceed
  <2>2. Stage'
    BY <1>1, <2>1, StageStep DEF Stage, Prepares, Rest
  <2> QED BY <1>1, <1>3, <2>2, DialGoesOn DEF Proceed
<1>4. CASE Dial
  <2>1. Head(todo) = "dial" /\ todo' = Tail(todo) /\ cconn' = "open" /\ conf' = conf
    BY <1>4 DEF Dial, At, Proceed
  <2>2. Stage'
    BY <1>1, <2>1, StageStep DEF Stage, Prepares, Rest
  <2> QED BY <1>1, <1>4, <2>2, DialGoesOn DEF Dial, Proceed
<1>5. CASE SetDeadline \/ Exchange
  <2>1. Head(todo) \in Preparing /\ todo' = Tail(todo) /\ cconn' = cconn /\ conf' = conf
    BY <1>5 DEF SetDeadline, Exchange, At, Proceed, Preparing
  <2>2. Stage' /\ conf.transport # "h2"
    BY <1>1, <2>1, StageStep DEF Stage, Prepares, Rest
  <2> QED BY <1>1, <1>5, <2>2, DialGoesOn DEF SetDeadline, Exchange, Proceed
<1> QED BY <1>2, <1>3, <1>4, <1>5 DEF BuildRequest

LEMMA SendKeeps ==
    ASSUME HInv, Send
    PROVE  HInv'
<1>1. cres = "pending" /\ Stage /\ Head(todo) = "send" /\ todo' = Tail(todo) /\ cconn' = cconn /\ conf' = conf
  BY DEF HInv, ClientInv, Send, At, Proceed
<1>2. Stage'
  BY <1>1, StageStep DEF Stage, Rest
<1>3. req' = req \/ (conf.peer # "client" /\ req' = OurRequest)
  BY DEF Send
<1> QED BY <1>1, <1>2, <1>3, DialGoesOn DEF Send, Proceed

LEMMA AwaitKeeps ==
    ASSUME HInv, Await
    PROVE  HInv'
<1>1. cres = "pending" /\ Stage /\ Head(todo) = "await" /\ resp # None
  BY DEF HInv, ClientInv, Await, At
<1>2. ASSUME FailDial("io") PROVE HInv'
  BY <1>2, DialFails DEF Errors
<1>3. ASSUME resp.is = "refusal", FailDial("badHandshake") PROVE HInv'
  BY <1>1, <1>3, DialFails DEF Errors
<1>4. ASSUME resp.is = "good", Proceed, UNCHANGED <<conf, cconn, cdl, cparams, req, svars, resp, silent>>
      PROVE  HInv'
  <2>1. Stage'
    BY <1>1, <1>4, StageStep DEF Stage, Rest, Answered, Proceed
  <2> QED BY <1>1, <1>4, <2>1, DialGoesOn DEF Proceed
<1> QED BY <1>2, <1>3, <1>4 DEF Await

(* What another end of this library answers is always valid.               *)
LEMMA NeverBad ==
    ASSUME ServerInv, Answered, conf.peer = "none"
    PROVE  Ignores(conf.transport, CMode, resp.exts) \/ AnswerValid(CMode, resp.exts)
<1>1. CMode \in Modes /\ resp.exts = Answer(Accept(SMode, Offer(CMode)))
  <2>1. req # None /\ req = OurRequest
    BY DEF ServerInv, Answered
  <2>2. req.exts = Offer(CMode)
    BY <2>1 DEF OurRequest
  <2>3. CMode \in Modes
    BY ConfsAssumption DEF ServerInv, CMode, Client, EffectiveMode, Modes
  <2> QED BY <2>2, <2>3 DEF ServerInv, Answered
<1> QED BY <1>1, SameCompression

LEMMA AdoptKeeps ==
    ASSUME HInv, AdoptResponse
    PROVE  HInv'
<1>1. cres = "pending" /\ Stage /\ Head(todo) = "adopt" /\ Answered /\ cconn = "open"
  BY StageStep DEF HInv, ClientInv, AdoptResponse, At
<1>2. ASSUME ~ KnownProto, FailDial("badHandshake") PROVE HInv'
  <2>1. conf.transport = "h2"
    BY <1>2 DEF KnownProto
  <2> QED BY <1>1, <1>2, <2>1, DialFails DEF Errors, Answered
<1>3. ASSUME ~ Ignores(conf.transport, CMode, resp.exts), ~ AnswerValid(CMode, resp.exts),
             FailDial("badCompression")
      PROVE  HInv'
  BY <1>1, <1>3, NeverBad, DialFails DEF HInv, Errors
<1>4. ASSUME cparams' = [deflate |-> Adopt(conf.transport, CMode, resp.exts), proto |-> resp.proto],
             todo' = Tail(todo), cres' = IF Tail(todo) = <<>> THEN "ok" ELSE cres,
             UNCHANGED <<conf, cconn, cdl, req, svars, resp, silent>>
      PROVE  HInv'
  <2>1. Answered' /\ Adopted' /\ cconn' = "open"
    BY <1>1, <1>4 DEF Answered, Adopted, CMode, Client
  <2>2. ServerInv' /\ UpgradeInv'
    BY <1>4, ServerRests DEF HInv
  <2>3. CASE conf.transport = "h2"
    <3>1. cres' = "ok" /\ cdl' = FALSE
      BY <1>1, <1>4, <2>3, StageStep DEF HInv, ClientInv
    <3>2. ClientInv'
      BY <2>1, <3>1 DEF ClientInv, Errors
    <3> QED BY <2>2, <3>2 DEF HInv
  <2>4. CASE conf.transport # "h2"
    <3>1. todo' = <<"clear">> /\ cres' = "pending" /\ conf' = conf
      BY <1>1, <1>4, <2>4, StageStep
    <3>2. Stage'
      BY <2>1, <2>4, <3>1 DEF Stage
    <3>3. ClientInv'
      BY <2>4, <3>1, <3>2 DEF ClientInv, Errors
    <3> QED BY <2>2, <3>3 DEF HInv
  <2> QED BY <2>3, <2>4
<1> QED BY <1>2, <1>3, <1>4 DEF AdoptResponse

LEMMA ClearKeeps ==
    ASSUME HInv, ClearDeadline
    PROVE  HInv'
<1>1. Answered /\ Adopted /\ cconn = "open"
  BY StageStep DEF HInv, ClientInv, ClearDeadline, At
<1>2. UNCHANGED <<conf, cconn, cparams, resp>> /\ cres' = "ok" /\ cdl' = FALSE
  BY DEF ClearDeadline
<1>3. Answered' /\ Adopted'
  BY <1>1, <1>2 DEF Answered, Adopted, CMode, Client
<1>4. ClientInv'
  BY <1>1, <1>2, <1>3 DEF ClientInv, Errors
<1>5. ServerInv' /\ UpgradeInv'
  BY ServerRests DEF HInv, ClearDeadline
<1> QED BY <1>4, <1>5 DEF HInv

LEMMA FaultsKeep ==
    ASSUME HInv, DialFault \/ DialTimeout
    PROVE  HInv'
BY DialFails DEF DialFault, DialTimeout, Errors

LEMMA OthersKeepHandshake ==
    ASSUME HInv, OtherClient \/ OtherServer \/ Silence
    PROVE  HInv'
<1>1. CASE OtherClient \/ Silence
  <2>1. ServerInv' /\ UpgradeInv'
    BY <1>1, ServerRests DEF HInv, OtherClient, Silence
  <2>2. ClientInv'
    BY <1>1, ClientRests DEF HInv, OtherClient, Silence
  <2> QED BY <2>1, <2>2 DEF HInv
<1>2. CASE OtherServer
  <2>1. UNCHANGED <<conf, cvars, req, spc, sconn, sdl, early, sparams>> /\ resp = None
    BY <1>2 DEF OtherServer, svars
  <2>2. ClientInv'
    BY <2>1, ClientRests DEF HInv
  <2>3. spc = "check" /\ conf.peer = "server"
    BY <1>2 DEF HInv, ServerInv, OtherServer
  <2>4. ServerInv' /\ UpgradeInv'
    BY <2>1, <2>3 DEF HInv, ServerInv, UpgradeInv, OurRequest, Server, Client, CMode
  <2> QED BY <2>2, <2>4 DEF HInv
<1> QED BY <1>1, <1>2

(* A step of the server that has not answered, or does not answer.         *)
LEMMA ClientWaits ==
    ASSUME HInv, UNCHANGED <<conf, cvars>>,
           \/ resp' = resp
           \/ conf.peer # "server" /\ spc \in {"check", "hijack", "deadline", "write"}
    PROVE  ClientInv'
<1>1. resp # None => resp' = resp
  BY DEF HInv, ServerInv
<1> QED BY <1>1, ClientRests DEF HInv

LEMMA CheckKeeps ==
    ASSUME HInv, Check
    PROVE  HInv'
<1>1. /\ UNCHANGED <<conf, cvars, req, sconn, sdl, early, silent>>
      /\ spc = "check" /\ req # None /\ conf.peer # "server"
  BY DEF Check
<1>2. ClientInv'
  BY <1>1, ClientWaits
<1>3. /\ OurRequest' = OurRequest /\ SMode' = SMode /\ Server' = Server
      /\ conf' = conf /\ req' = req /\ sconn' = sconn /\ sdl' = sdl
  BY <1>1 DEF OurRequest, SMode, Server, Client, CMode
<1>4. CASE resp' = Response("refusal") /\ spc' = "error" /\ UNCHANGED sparams
  <2>1. ServerInv'
    BY <1>1, <1>3, <1>4 DEF HInv, ServerInv, Response
  <2>2. UpgradeInv'
    BY <1>1, <1>3, <1>4 DEF HInv, UpgradeInv
  <2> QED BY <1>2, <2>1, <2>2 DEF HInv
<1>5. CASE /\ sparams' = [deflate |-> Accept(SMode, req.exts),
                          proto   |-> SelectSubprotocol(Server.selector, req.protos)]
           /\ spc' = IF conf.transport = "h1" THEN "hijack" ELSE "write"
           /\ UNCHANGED resp
  <2>1. ServerInv'
    BY <1>1, <1>3, <1>5 DEF HInv, ServerInv
  <2>2. conf.transport \in {"h1", "h2"}
    BY ConfsAssumption DEF HInv, ServerInv
  <2>3. UpgradeInv'
    BY <1>1, <1>3, <1>5, <2>2 DEF HInv, UpgradeInv
  <2> QED BY <1>2, <2>1, <2>3 DEF HInv
<1> QED BY <1>4, <1>5 DEF Check

LEMMA HijackKeeps ==
    ASSUME HInv, Hijack
    PROVE  HInv'
<1>1. /\ conf' = conf /\ req' = req /\ sparams' = sparams /\ spc = "hijack"
      /\ OurRequest' = OurRequest /\ SMode' = SMode /\ Server' = Server
  BY DEF Hijack, OurRequest, SMode, Server, Client, CMode
<1>2. conf.peer # "server" /\ resp = None /\ req # None /\ conf.transport = "h1"
  BY <1>1, ConfsAssumption DEF HInv, ServerInv, UpgradeInv
<1>3. ClientInv'
  BY <1>1, <1>2, ClientWaits DEF Hijack
<1>4. ASSUME sconn' = "open", spc' = "deadline", resp' = resp, early' = (Server.ownBuffer => req.early),
             NEW d, sdl' = [read |-> d, write |-> d]
      PROVE  HInv'
  <2>1. ServerInv'
    BY <1>1, <1>2, <1>4 DEF HInv, ServerInv
  <2>2. UpgradeInv'
    BY <1>1, <1>2, <1>4 DEF UpgradeInv
  <2> QED BY <1>3, <2>1, <2>2 DEF HInv
<1>5. ASSUME spc' = "error", resp' = Response("refusal"), UNCHANGED <<sconn, sdl, early>>
      PROVE  HInv'
  <2>1. ServerInv'
    BY <1>1, <1>2, <1>5 DEF HInv, ServerInv, Response
  <2>2. UpgradeInv'
    BY <1>1, <1>2, <1>5 DEF HInv, UpgradeInv
  <2> QED BY <1>3, <2>1, <2>2 DEF HInv
<1> QED BY <1>4, <1>5 DEF Hijack

LEMMA DeadlinesKeep ==
    ASSUME HInv, ServerDeadline \/ ServerClear
    PROVE  HInv'
<1>1. /\ UNCHANGED <<conf, cvars, req, sconn, early, sparams, resp>>
      /\ OurRequest' = OurRequest /\ SMode' = SMode /\ Server' = Server
  BY DEF ServerDeadline, ServerClear, OurRequest, SMode, Server, Client, CMode
<1>2. ClientInv'
  BY <1>1, ClientWaits
<1>3. conf.transport = "h1"
  BY ConfsAssumption DEF HInv, ServerInv, UpgradeInv, ServerDeadline, ServerClear
<1>4. ServerInv'
  BY <1>1 DEF HInv, ServerInv, ServerDeadline, ServerClear
<1>5. CASE ServerDeadline
  <2>1. sdl' = IF Server.timeout THEN [sdl EXCEPT !.write = "handshake"] ELSE NoDeadlines
    BY <1>5 DEF ServerDeadline, NoDeadlines
  <2>2. DOMAIN sdl' = {"read", "write"} /\ (~ Server.timeout => sdl' = NoDeadlines)
    BY <2>1 DEF HInv, UpgradeInv, NoDeadlines
  <2>3. UpgradeInv'
    BY <1>1, <1>3, <1>5, <2>2 DEF HInv, UpgradeInv, ServerDeadline, NoDeadlines
  <2> QED BY <1>2, <1>4, <2>3 DEF HInv
<1>6. CASE ServerClear
  <2>1. DOMAIN sdl' = {"read", "write"} /\ sdl'.write = "none" /\ (~ Server.timeout => sdl' = NoDeadlines)
    BY <1>3, <1>6 DEF HInv, UpgradeInv, ServerClear, NoDeadlines
  <2>2. UpgradeInv'
    BY <1>1, <1>3, <1>6, <2>1 DEF HInv, UpgradeInv, ServerClear, NoDeadlines
  <2> QED BY <1>2, <1>4, <2>2 DEF HInv
<1> QED BY <1>5, <1>6

LEMMA WriteResponseKeeps ==
    ASSUME HInv, WriteResponse
    PROVE  HInv'
<1>1. /\ UNCHANGED <<conf, cvars, req, sdl, early, sparams>> /\ spc = "write" /\ sconn' = "open"
      /\ resp' = [is |-> "good", exts |-> Answer(sparams.deflate), proto |-> sparams.proto]
      /\ spc' = IF conf.transport = "h2" THEN "ok" ELSE "clear"
      /\ OurRequest' = OurRequest /\ SMode' = SMode /\ Server' = Server
  BY DEF WriteResponse, OurRequest, SMode, Server, Client, CMode
<1>2. conf.peer # "server" /\ req # None
  BY <1>1 DEF HInv, ServerInv
<1>3. ClientInv'
  BY <1>1, <1>2, ClientWaits
<1>4. ServerInv'
  BY <1>1, <1>2 DEF HInv, ServerInv
<1>5. UpgradeInv'
  BY <1>1, <1>2 DEF HInv, UpgradeInv, NoDeadlines
<1> QED BY <1>3, <1>4, <1>5 DEF HInv

LEMMA UpgradeFaultKeeps ==
    ASSUME HInv, UpgradeFault
    PROVE  HInv'
<1>1. /\ UNCHANGED <<conf, cvars, req, sdl, early, sparams>> /\ spc \in {"deadline", "write", "clear"}
      /\ spc' = "error" /\ sconn' = (IF conf.transport = "h1" THEN "closed" ELSE sconn)
      /\ resp' = (IF resp = None THEN Response("torn") ELSE resp)
      /\ OurRequest' = OurRequest /\ SMode' = SMode /\ Server' = Server
  BY DEF UpgradeFault, OurRequest, SMode, Server, Client, CMode
<1>2. conf.peer # "server" /\ req # None /\ conf.transport \in {"h1", "h2"}
  BY <1>1, ConfsAssumption DEF HInv, ServerInv
<1>3. ClientInv'
  BY <1>1, ClientRests DEF HInv
<1>4. ServerInv'
  BY <1>1, <1>2 DEF HInv, ServerInv, Response
<1>5. UpgradeInv'
  BY <1>1, <1>2 DEF HInv, UpgradeInv
<1> QED BY <1>3, <1>4, <1>5 DEF HInv

(* Once connected, the handshake rests.                                    *)
LEMMA ConnectKeeps ==
    ASSUME HInv, Connect
    PROVE  HInv'
<1>1. conf \in Confs /\ conf.peer = "none"
  BY DEF Connect, HInv, ServerInv
<1>2. conf' \in Confs /\ conf'.peer = "none"
  BY <1>1 DEF Connect
<1>3. /\ cres' = "connected" /\ spc' = "connected" /\ req' = None /\ resp' = None
      /\ cdl' = FALSE /\ sdl' = NoDeadlines
  BY DEF Connect, HInv, ClientInv, NoDeadlines
<1>4. ClientInv'
  BY <1>3 DEF ClientInv, Errors
<1>5. ServerInv'
  BY <1>2, <1>3 DEF ServerInv
<1>6. UpgradeInv'
  BY <1>3 DEF UpgradeInv, NoDeadlines
<1> QED BY <1>4, <1>5, <1>6 DEF HInv

LEMMA HInvStep ==
    ASSUME HInv, [Next]_vars
    PROVE  HInv'
<1>1. CASE UNCHANGED hvars
  <2>1. UNCHANGED <<conf, cvars, req, svars, resp>>
    BY <1>1 DEF hvars
  <2> QED BY <2>1, ClientRests, ServerRests DEF HInv
<1>2. CASE DialStep
  BY <1>2, PreparationKeeps, SendKeeps, AwaitKeeps, AdoptKeeps, ClearKeeps, FaultsKeep DEF DialStep
<1>3. CASE UpgradeStep
  BY <1>3, CheckKeeps, HijackKeeps, DeadlinesKeep, WriteResponseKeeps, UpgradeFaultKeeps DEF UpgradeStep
<1>4. CASE HandshakeNext
  BY <1>2, <1>3, <1>4, FaultsKeep, OthersKeepHandshake DEF HandshakeNext
<1> QED BY <1>1, <1>4, ConnectKeeps DEF Next, vars

LEMMA HandshakeInvariant == Spec => []HInv
<1>1. Init => HInv
  BY HInvInit DEF Init
<1> QED BY <1>1, HInvStep, PTL DEF Spec

(* Whatever fails, whoever is silent: a call that fails leaves nothing     *)
(* open, one that succeeds hands over a connection without deadlines       *)
(* (client.go:517, server.go:303).                                         *)
THEOREM NothingLeaks == Spec => []HandsOver
<1>1. HInv => HandsOver
  BY ConfsAssumption DEF HInv, ClientInv, ServerInv, UpgradeInv, HandsOver, NoDeadlines
<1> QED BY <1>1, HandshakeInvariant, PTL

LEMMA HInvAgrees ==
    ASSUME HInv
    PROVE  Agreed
<1>1. ASSUME conf.peer = "none", cres = "ok", spc = "ok"
      PROVE  cparams.deflate = Mirror(sparams.deflate) /\ cparams.proto = sparams.proto
  <2>1. /\ cparams.deflate = Adopt(conf.transport, CMode, Answer(sparams.deflate))
        /\ cparams.proto = sparams.proto
    BY <1>1 DEF HInv, ClientInv, ServerInv, Adopted
  <2>2. sparams.deflate = Accept(SMode, Offer(CMode))
    BY <1>1 DEF HInv, ServerInv, OurRequest
  <2>3. CMode \in Modes
    BY ConfsAssumption DEF HInv, ServerInv, CMode, Client, EffectiveMode, Modes
  <2> QED BY <2>1, <2>2, <2>3, SameCompression
<1>2. ASSUME conf.peer = "client", spc = "ok"
      PROVE  Adopt(conf.transport, "takeover", resp.exts) = Mirror(sparams.deflate)
  BY <1>2, AcceptIsBoolean, AnswerTells DEF HInv, ServerInv
<1> QED BY <1>1, <1>2 DEF HInv, ClientInv, Agreed

(* For every pair of modes, every list of subprotocols and every client of *)
(* another make the two ends agree (server.go:341, client.go:484).         *)
THEOREM EndsAgree == Spec => []Agreed
<1>1. HInv => Agreed
  BY HInvAgrees
<1> QED BY <1>1, HandshakeInvariant, PTL
-----------------------------------------------------------------------------
(* A compressor or decompressor goes through these tokens: from window w   *)
(* after p symbols of the data to window v at its end.                     *)
Goes(w, data, toks, p, v) ==
    \E ws \in [0..Len(data) -> Seq(Symbols)] :
        /\ ws[p] = w /\ ws[Len(data)] = v /\ Len(toks) = Len(data)
        /\ \A i \in 1..Len(data) : /\ ws[i] = Slide(Append(ws[i - 1], data[i]))
                                   /\ toks[i] = Token(ws[i - 1], data[i])

LEMMA SlideIs ==
    ASSUME NEW w \in Seq(Symbols), NEW s \in Symbols
    PROVE  Slide(w) \in Seq(Symbols) /\ Append(w, s) \in Seq(Symbols) /\ Slide(Append(w, s)) \in Seq(Symbols)
<1>1. ASSUME NEW u \in Seq(Symbols) PROVE Slide(u) \in Seq(Symbols)
  <2> DEFINE from == IF Len(u) > WindowSize THEN Len(u) - WindowSize + 1 ELSE 1
  <2>1. Len(u) \in Nat /\ WindowSize \in Nat
    BY CountAssumption
  <2>2. from \in 1 .. Len(u) + 1
    BY <2>1
  <2> HIDE DEF from
  <2>3. SubSeq(u, from, Len(u)) \in Seq(Symbols)
    <3>1. CASE from = Len(u) + 1
      <4>1. SubSeq(u, from, Len(u)) = <<>>
        BY <2>1, <3>1
      <4> QED BY <4>1
    <3>2. CASE from \in 1..Len(u)
      BY <2>1, <3>2, SubSeqProperties
    <3> QED BY <2>1, <2>2, <3>1, <3>2
  <2> QED BY <2>3 DEF Slide, from
<1>2. Append(w, s) \in Seq(Symbols)
  OBVIOUS
<1> QED BY <1>1, <1>2

(* What a token stands for in the window it was made with.                 *)
LEMMA TokenTells ==
    ASSUME NEW w \in Seq(Symbols), NEW s \in Symbols
    PROVE  Token(w, s) \in Tokens /\ Symbol(w, Token(w, s)) = s
<1> DEFINE O == Occurrences(w, s)
<1>1. CASE O = {}
  <2>1. Token(w, s) = Literal(s)
    BY <1>1 DEF Token
  <2>2. Literal(s) \in Tokens /\ Symbol(w, Literal(s)) = s
    BY DEF Literal, Tokens, Symbol
  <2> QED BY <2>1, <2>2
<1>2. CASE O # {}
  <2>1. O \subseteq Nat
    BY DEF Occurrences
  <2>2. \E n \in O : \A m \in O : n <= m
    BY <1>2, <2>1, LeastNat
  <2>3. Least(O) \in O
    BY <2>2 DEF Least
  <2> DEFINE n == Least(O)
  <2>4. Token(w, s) = Distance(n)
    BY <1>2 DEF Token
  <2>5. n \in 1..Len(w) /\ w[Len(w) - n + 1] = s
    BY <2>3 DEF Occurrences
  <2> HIDE DEF n
  <2>6. Distance(n) \in Tokens
    <3>1. None \in Symbols
      BY Zenon DEF Symbols
    <3>2. n \in Nat /\ n # 0
      BY <2>5
    <3> QED BY <3>1, <3>2 DEF Distance, Tokens
  <2>7. Symbol(w, Distance(n)) = s
    <3>1. n <= Len(w)
      BY <2>5
    <3> QED BY <2>5, <3>1 DEF Distance, Symbol
  <2> QED BY <2>4, <2>6, <2>7
<1> QED BY <1>1, <1>2

(* A token of any kind in any window is a symbol.                          *)
LEMMA SymbolIs ==
    ASSUME NEW w \in Seq(Symbols), NEW t \in Tokens
    PROVE  Symbol(w, t) \in Symbols
<1>1. t.sym \in Symbols /\ t.back \in Nat /\ (t.literal \/ t.back # 0)
  <2>1. t \in [literal : BOOLEAN, sym : Symbols, back : Nat] /\ (t.literal \/ t.back # 0)
    BY DEF Tokens
  <2> QED BY <2>1
<1>2. None \in Symbols
  BY Zenon DEF Symbols
<1>3. ASSUME t.back <= Len(w), t.back # 0 PROVE w[Len(w) - t.back + 1] \in Symbols
  <2>1. Len(w) - t.back + 1 \in 1..Len(w)
    BY <1>1, <1>3
  <2> QED BY <2>1, ElementOfSeq
<1>4. CASE t.literal
  BY <1>1, <1>4 DEF Symbol
<1>5. CASE ~ t.literal
  BY <1>1, <1>2, <1>3, <1>5 DEF Symbol
<1> QED BY <1>4, <1>5

Packed == [w : Seq(Symbols), out : Seq(Tokens)]

PackStep(q, n) == [p \in Packed \X (1..n) |-> [w   |-> Slide(Append(p[1].w, q[p[2]])),
                                              out |-> Append(p[1].out, Token(p[1].w, q[p[2]]))]]

(* Compress is a run over the symbols.                                     *)
LEMMA CompressRuns ==
    ASSUME NEW w \in Seq(Symbols), NEW q \in Seq(Symbols), NEW n, n = Len(q)
    PROVE  \E run : Runs(run, n, Packed, [w |-> w, out |-> <<>>], PackStep(q, n)) /\ run[n] = Compress(w, q)
<1> DEFINE base == [w |-> w, out |-> <<>>]
           op(acc, s) == [w |-> Slide(Append(acc.w, s)), out |-> Append(acc.out, Token(acc.w, s))]
           Eq(h) == h = [S \in SUBSET (1..n) |-> IF S = {} THEN base ELSE op(h[S \ {Max(S)}], q[Max(S)])]
           it == CHOOSE h : Eq(h)
           d  == PackStep(q, n)
<1>0. n \in Nat /\ DOMAIN q = 1..n /\ \A k \in 1..n : q[k] \in Symbols
  BY ElementOfSeq
<1>1. Compress(w, q) = it[1..n]
  BY <1>0 DEF Compress, FoldLeft, MapThenFoldSet
<1>2. /\ base \in Packed /\ d \in [Packed \X (1..n) -> Packed]
      /\ \A v \in Packed, k \in 1..n : d[<<v, k>>] = op(v, q[k])
  <2>1. base \in Packed
    BY DEF Packed
  <2>2. ASSUME NEW v \in Packed, NEW k \in 1..n PROVE op(v, q[k]) \in Packed
    <3>1. v.w \in Seq(Symbols) /\ v.out \in Seq(Tokens) /\ q[k] \in Symbols
      BY <1>0 DEF Packed
    <3>2. Slide(Append(v.w, q[k])) \in Seq(Symbols) /\ Token(v.w, q[k]) \in Tokens
      BY <3>1, SlideIs, TokenTells
    <3>3. Append(v.out, Token(v.w, q[k])) \in Seq(Tokens)
      BY <3>1, <3>2, AppendProperties
    <3> QED BY <3>2, <3>3 DEF Packed
  <2>3. d = [p \in Packed \X (1..n) |-> op(p[1], q[p[2]])]
    BY DEF PackStep
  <2> HIDE DEF op, d
  <2> QED BY <2>1, <2>2, <2>3
<1> HIDE DEF d, op, base
<1>3. PICK h \in [SUBSET (1..n) -> Packed] : Table(h, n, base, d)
  BY <1>0, <1>2, TableExists
<1>4. Eq(h)
  <2> SUFFICES ASSUME NEW S \in SUBSET (1..n)
               PROVE  h[S] = IF S = {} THEN base ELSE op(h[S \ {Max(S)}], q[Max(S)])
    OBVIOUS
  <2>1. CASE S = {}
    BY <1>3, <2>1 DEF Table
  <2>2. CASE S # {}
    <3>1. Max(S) \in 1..n
      BY <1>0, <2>2, MaxOfSome
    <3>2. h[S \ {Max(S)}] \in Packed
      BY <1>3
    <3>3. h[S] = d[<<h[S \ {Max(S)}], Max(S)>>]
      BY <1>3, <2>2 DEF Table
    <3> QED BY <1>2, <2>2, <3>1, <3>2, <3>3
  <2> QED BY <2>1, <2>2
<1>5. Eq(it)
  <2> HIDE DEF Eq
  <2> QED BY <1>4, Zenon
<1>6. it[{}] = base
  <2>1. {} \in SUBSET (1..n)
    OBVIOUS
  <2> HIDE DEF it
  <2> QED BY <1>5, <2>1
<1>7. ASSUME NEW S \in SUBSET (1..n), S # {}, it[S \ {Max(S)}] \in Packed
      PROVE  it[S] = d[<<it[S \ {Max(S)}], Max(S)>>]
  <2> HIDE DEF it
  <2>1. Max(S) \in 1..n
    BY <1>0, <1>7, MaxOfSome
  <2>2. it[S] = op(it[S \ {Max(S)}], q[Max(S)])
    BY <1>5, <1>7
  <2> QED BY <1>2, <1>7, <2>1, <2>2
<1> HIDE DEF it
<1>8. \E run : Runs(run, n, Packed, base, d) /\ run[n] = it[1..n]
  <2>1. Iterates(it, n, Packed, base, d)
    BY <1>0, <1>2, <1>6, <1>7 DEF Iterates
  <2> QED BY <1>0, <2>1, TableRuns
<1> QED BY <1>1, <1>8 DEF d, base

LEMMA CompressGoes ==
    ASSUME NEW w \in Seq(Symbols), NEW q \in Seq(Symbols)
    PROVE  LET c == Compress(w, q)
           IN  c.w \in Seq(Symbols) /\ c.out \in Seq(Tokens) /\ Goes(w, q, c.out, 0, c.w)
<1> DEFINE n == Len(q)
           d == PackStep(q, n)
           c == Compress(w, q)
<1>0. n \in Nat /\ n = Len(q)
  OBVIOUS
<1>1. PICK run : Runs(run, n, Packed, [w |-> w, out |-> <<>>], d) /\ run[n] = c
  BY <1>0, CompressRuns
<1>2. \A v \in Packed, k \in 1..n : d[<<v, k>>] = [w   |-> Slide(Append(v.w, q[k])),
                                                out |-> Append(v.out, Token(v.w, q[k]))]
  BY DEF PackStep
<1> HIDE DEF n, d, c
<1>3. /\ run \in [0..n -> Packed] /\ run[0].w = w /\ run[0].out = <<>>
      /\ \A k \in 1..n : run[k].w = Slide(Append(run[k - 1].w, q[k]))
                         /\ run[k].out = Append(run[k - 1].out, Token(run[k - 1].w, q[k]))
  <2>1. run \in [0..n -> Packed] /\ run[0] = [w |-> w, out |-> <<>>]
    BY <1>1 DEF Runs
  <2>2. ASSUME NEW k \in 1..n
        PROVE  /\ run[k].w = Slide(Append(run[k - 1].w, q[k]))
               /\ run[k].out = Append(run[k - 1].out, Token(run[k - 1].w, q[k]))
    <3>1. k - 1 \in 0 .. n - 1 /\ k - 1 \in 0..n /\ (k - 1) + 1 = k
      BY <1>0
    <3>2. run[k] = d[<<run[k - 1], k>>] /\ run[k - 1] \in Packed
      <4> DEFINE j == k - 1
      <4>1. j \in 0 .. n - 1 /\ j + 1 = k
        BY <3>1
      <4> HIDE DEF j
      <4>2. run[j + 1] = d[<<run[j], j + 1>>]
        BY <1>1, <4>1 DEF Runs
      <4>3. run[k] = d[<<run[j], k>>]
        BY <4>1, <4>2
      <4>4. run[k - 1] \in Packed
        BY <2>1, <3>1
      <4> QED BY <4>3, <4>4 DEF j
    <3> DEFINE v == run[k - 1]
    <3>3. v \in Packed /\ run[k] = d[<<v, k>>]
      BY <3>2
    <3> HIDE DEF v
    <3>4. run[k] = [w |-> Slide(Append(v.w, q[k])), out |-> Append(v.out, Token(v.w, q[k]))]
      BY <1>2, <3>3
    <3>5. run[k].w = Slide(Append(v.w, q[k])) /\ run[k].out = Append(v.out, Token(v.w, q[k]))
      BY <3>4
    <3> QED BY <3>5 DEF v
  <2> QED BY <2>1, <2>2
<1> DEFINE ws == [k \in 0..n |-> run[k].w]
           T  == {k \in Nat : k <= n => /\ Len(run[k].out) = k
                                        /\ \A i \in 1..k : run[k].out[i] = Token(run[i - 1].w, q[i])}
<1>4. \A k \in 0..n : run[k].w \in Seq(Symbols) /\ run[k].out \in Seq(Tokens)
  BY <1>3 DEF Packed
<1>5. \A k \in Nat : k \in T
  <2>1. 0 \in T
    BY <1>3
  <2>2. ASSUME NEW k \in Nat, k \in T PROVE k + 1 \in T
    <3> SUFFICES ASSUME k + 1 <= n
                 PROVE  /\ Len(run[k + 1].out) = k + 1
                        /\ \A i \in 1 .. k + 1 : run[k + 1].out[i] = Token(run[i - 1].w, q[i])
      BY <1>0
    <3> DEFINE o == run[k].out
               t == Token(run[k].w, q[k + 1])
    <3>1. k \in 0..n /\ k + 1 \in 1..n /\ k <= n /\ (k + 1) - 1 = k
      BY <1>0
    <3>2. /\ o \in Seq(Tokens) /\ Len(o) = k /\ \A i \in 1..k : o[i] = Token(run[i - 1].w, q[i])
          /\ run[k + 1].out = Append(o, t)
      BY <1>3, <1>4, <2>2, <3>1
    <3> HIDE DEF o
    <3>3. t \in Tokens
      <4>1. q[k + 1] \in Symbols
        BY <3>1, ElementOfSeq DEF n
      <4> QED BY <1>4, <3>1, <4>1, TokenTells
    <3> DEFINE a == Append(o, t)
    <3>4. Len(a) = k + 1 /\ a[k + 1] = t /\ \A i \in 1..k : a[i] = o[i]
      <4> HIDE DEF t
      <4> QED BY <3>2, <3>3, AppendProperties
    <3>5. \A i \in 1 .. k + 1 : a[i] = Token(run[i - 1].w, q[i])
      <4> SUFFICES ASSUME NEW i \in 1 .. k + 1 PROVE a[i] = Token(run[i - 1].w, q[i])
        OBVIOUS
      <4> HIDE DEF a
      <4>1. CASE i = k + 1
        BY <3>1, <3>4, <4>1
      <4>2. CASE i # k + 1
        <5>1. i \in 1..k
          BY <4>2
        <5> QED BY <3>2, <3>4, <5>1
      <4> QED BY <4>1, <4>2
    <3> HIDE DEF a
    <3>6. run[k + 1].out = a
      BY <3>2 DEF a
    <3> QED BY <3>4, <3>5, <3>6
  <2> HIDE DEF T
  <2> QED BY <2>1, <2>2, InductNat
<1>6. Len(c.out) = n /\ \A i \in 1..n : c.out[i] = Token(run[i - 1].w, q[i])
  <2>1. n \in T /\ n <= n
    <3> HIDE DEF T
    <3> QED BY <1>0, <1>5
  <2> QED BY <1>1, <2>1
<1>7. ws \in [0..n -> Seq(Symbols)] /\ ws[0] = w /\ ws[n] = c.w
  BY <1>0, <1>1, <1>3, <1>4
<1>8. \A i \in 1..n : ws[i] = Slide(Append(ws[i - 1], q[i])) /\ c.out[i] = Token(ws[i - 1], q[i])
  <2> SUFFICES ASSUME NEW i \in 1..n
               PROVE  ws[i] = Slide(Append(ws[i - 1], q[i])) /\ c.out[i] = Token(ws[i - 1], q[i])
    OBVIOUS
  <2>1. i \in 0..n /\ i - 1 \in 0..n
    BY <1>0
  <2>2. ws[i] = run[i].w /\ ws[i - 1] = run[i - 1].w
    BY <2>1
  <2> QED BY <1>3, <1>6, <2>2
<1> HIDE DEF ws
<1>9. Goes(w, q, c.out, 0, c.w)
  BY <1>6, <1>7, <1>8 DEF Goes, n
<1>10. c.w \in Seq(Symbols) /\ c.out \in Seq(Tokens)
  BY <1>0, <1>1, <1>4
<1> QED BY <1>9, <1>10 DEF c

(* One token further.                                                      *)
LEMMA GoesOn ==
    ASSUME NEW w, NEW v, NEW q \in Seq(Symbols), NEW toks, NEW p \in Nat, p < Len(q), Goes(w, q, toks, p, v)
    PROVE  /\ Symbol(w, toks[p + 1]) = q[p + 1]
           /\ Goes(Slide(Append(w, q[p + 1])), q, toks, p + 1, v)
<1>1. PICK ws \in [0..Len(q) -> Seq(Symbols)] :
         /\ ws[p] = w /\ ws[Len(q)] = v /\ Len(toks) = Len(q)
         /\ \A i \in 1..Len(q) : /\ ws[i] = Slide(Append(ws[i - 1], q[i]))
                                  /\ toks[i] = Token(ws[i - 1], q[i])
  BY DEF Goes
<1>2. p + 1 \in 1..Len(q) /\ (p + 1) - 1 = p /\ p \in 0..Len(q) /\ q[p + 1] \in Symbols
  <2>1. p + 1 \in 1..Len(q) /\ (p + 1) - 1 = p /\ p \in 0..Len(q)
    OBVIOUS
  <2> QED BY <2>1, ElementOfSeq
<1>3. ws[p + 1] = Slide(Append(w, q[p + 1])) /\ toks[p + 1] = Token(w, q[p + 1]) /\ w \in Seq(Symbols)
  BY <1>1, <1>2
<1>4. Symbol(w, toks[p + 1]) = q[p + 1]
  BY <1>2, <1>3, TokenTells
<1>5. Goes(ws[p + 1], q, toks, p + 1, v)
  BY <1>1 DEF Goes
<1> QED BY <1>3, <1>4, <1>5

LEMMA GoesNowhere ==
    ASSUME NEW w, NEW v, NEW q, NEW toks
    PROVE  /\ Goes(w, q, toks, Len(q), v) => w = v
           /\ w \in Seq(Symbols) => Goes(w, <<>>, <<>>, 0, w)
           /\ Goes(w, q, toks, 0, v) /\ q = <<>> => w = v
<1>1. ASSUME w \in Seq(Symbols) PROVE Goes(w, <<>>, <<>>, 0, w)
  <2> DEFINE ws == [i \in 0..0 |-> w]
  <2>1. ws \in [0..Len(<<>>) -> Seq(Symbols)] /\ ws[0] = w /\ ws[Len(<<>>)] = w
    BY <1>1
  <2>2. \A i \in 1..Len(<<>>) : FALSE
    OBVIOUS
  <2> HIDE DEF ws
  <2> QED BY <2>1, <2>2 DEF Goes
<1>2. Goes(w, q, toks, Len(q), v) => w = v
  BY DEF Goes
<1>3. q = <<>> => Len(q) = 0
  OBVIOUS
<1> QED BY <1>1, <1>2, <1>3

(* What the writer has compressed so far, and with what.                   *)
Fresh(d, compressed) == compressed /\ wmode[d] = "fresh"

WriteInv(d) == writing[d] # None =>
    LET m == writing[d]
    IN  /\ m \in Writings
        /\ m.compress => wmode[d] # "off" /\ Len(m.tokens) = Len(m.plain)
        /\ Fresh(d, m.compress) =>
               m.flate \in Compressors /\ Goes(<<>>, m.plain, m.tokens, 0, dict[m.flate])
        /\ ~ Fresh(d, m.compress) => m.flate = None

(* A message on its way, and one that is being read.                       *)
Standalone(m) == \E v \in Seq(Symbols) : Goes(<<>>, m.plain, m.tokens, 0, v)

Sendable(d, m) ==
    /\ m.masked = (d \notin Servers)
    /\ m.rsv1 => wmode[d] # "off" /\ Len(m.tokens) = Len(m.plain)
    /\ Fresh(d, m.rsv1) => Standalone(m)

WireInv(d) == \A i \in 1..Len(wire[d]) : Sendable(d, wire[d][i])

ReadInv(d) == reading[d] # None =>
    LET r == reading[d]
        m == r.msg
    IN  /\ r \in Readings /\ r.pos <= Len(m.plain) /\ Sendable(d, m)
        /\ Fresh(d, m.rsv1) /\ ~ r.ended =>
               /\ r.flate \in Decompressors
               /\ \E v \in Seq(Symbols) : Goes(dict[r.flate], m.plain, m.tokens, r.pos, v)
        /\ ~ Fresh(d, m.rsv1) => r.flate = None
        /\ m.rsv1 /\ wmode[d] = "takeover" => r.hist = window[d]

SendInv(d) == send[d] # None =>
    /\ send[d] \in [key : Keys, fills : BOOLEAN]
    /\ send[d].key.isServer = (d \in Servers)
    /\ send[d].key.compress => wmode[d] = "fresh"
    /\ writing[d] = None

FrameInv(k) == frames[k] # None =>
    LET m == frames[k]
    IN  /\ m \in Messages /\ m.masked = ~ k.isServer /\ m.rsv1 = k.compress
        /\ m.rsv1 => Len(m.tokens) = Len(m.plain) /\ Standalone(m)

(* With the context taken over: from the window of the reader a run of     *)
(* windows leads through the rest of its message, the messages on the wire *)
(* and the one being written to the window of the writer.                  *)
Leads(w, compressed, data, toks, p, v) == IF compressed THEN Goes(w, data, toks, p, v) ELSE v = w

Chained(d, kw) ==
    /\ IF reading[d] = None THEN kw[0] = window[d]
       ELSE Leads(window[d], reading[d].msg.rsv1, reading[d].msg.plain, reading[d].msg.tokens,
                  reading[d].pos, kw[0])
    /\ \A i \in 1..Len(wire[d]) :
           Leads(kw[i - 1], wire[d][i].rsv1, wire[d][i].plain, wire[d][i].tokens, 0, kw[i])
    /\ IF writing[d] = None THEN kept[d] = kw[Len(wire[d])]
       ELSE Leads(kw[Len(wire[d])], writing[d].compress, writing[d].plain, writing[d].tokens, 0, kept[d])

ChainInv(d) == wmode[d] = "takeover" /\ ~ skipped[d] =>
    \E kw \in [0..Len(wire[d]) -> Seq(Symbols)] : Chained(d, kw)

StepInv(d) == wrong[d] => wmode[d] = "takeover" /\ skipped[d]

DirInv(d) == WriteInv(d) /\ WireInv(d) /\ ReadInv(d) /\ SendInv(d) /\ ChainInv(d) /\ StepInv(d)

Compressing == {"off", "fresh", "takeover"}

DeflateTypes ==
    /\ wmode \in [Dirs -> Compressing] /\ rmode = wmode
    /\ wire \in [Dirs -> Seq(Messages)]
    /\ kept \in [Dirs -> Seq(Symbols)] /\ window \in [Dirs -> Seq(Symbols)]
    /\ dict \in [Flates -> Seq(Symbols)]
    /\ DOMAIN writing = Dirs /\ DOMAIN reading = Dirs /\ DOMAIN wrong = Dirs /\ DOMAIN skipped = Dirs
    /\ DOMAIN send = Dirs /\ DOMAIN frames = Keys

DeflateInv == DeflateTypes /\ (\A d \in Dirs : DirInv(d)) /\ (\A k \in Keys : FrameInv(k))

(* What holds a compressor or a decompressor holds it alone.               *)
LEMMA Sole ==
    ASSUME PoolInv, NEW f \in Flates, NEW e \in Writers(f) \cup Readers(f)
    PROVE  /\ pool[f] = 0 /\ ~ Unused(f)
           /\ Writers(f) \cup Readers(f) = {e}
           /\ Writers(f) = {} \/ Readers(f) = {}
<1>1. /\ IsFiniteSet(Writers(f)) /\ IsFiniteSet(Readers(f))
      /\ Cardinality(Writers(f)) \in Nat /\ Cardinality(Readers(f)) \in Nat
  <2>1. Writers(f) \in SUBSET Dirs /\ Readers(f) \in SUBSET Dirs
    BY DEF Writers, Readers
  <2> QED BY <2>1, DirsAssumption, FS_Subset, FS_CardinalityType
<1>2. pool[f] \in Nat /\ pool[f] + Cardinality(Writers(f)) + Cardinality(Readers(f)) <= 1
  <2>1. pool[f] \in Nat
    BY DEF PoolInv, Holders
  <2>2. pool[f] + Cardinality(Writers(f)) + Cardinality(Readers(f)) <= 1
    BY Zenon DEF PoolInv, OwnedOnce, Writers, Readers
  <2> QED BY <2>1, <2>2
<1>3. ASSUME NEW S, IsFiniteSet(S), NEW x \in S
      PROVE  Cardinality(S) >= 1 /\ (Cardinality(S) <= 1 => S = {x})
  <2>1. /\ Cardinality(S) \in Nat /\ Cardinality(S \ {x}) = Cardinality(S) - 1
        /\ IsFiniteSet(S \ {x}) /\ Cardinality(S \ {x}) \in Nat
    BY <1>3, FS_RemoveElement, FS_CardinalityType
  <2>2. Cardinality(S) <= 1 => S \ {x} = {}
    BY <2>1, FS_EmptySet
  <2> QED BY <2>1, <2>2
<1>4. ASSUME Writers(f) # {}, Readers(f) # {} PROVE FALSE
  <2>1. Cardinality(Writers(f)) >= 1 /\ Cardinality(Readers(f)) >= 1
    BY <1>1, <1>3, <1>4
  <2> QED BY <1>1, <1>2, <2>1
<1>5. CASE e \in Writers(f)
  <2>1. Readers(f) = {} /\ Cardinality(Writers(f)) >= 1 /\ (Cardinality(Writers(f)) <= 1 => Writers(f) = {e})
    BY <1>1, <1>3, <1>4, <1>5
  <2>2. pool[f] = 0 /\ Writers(f) = {e}
    BY <1>1, <1>2, <2>1
  <2> QED BY <2>1, <2>2, UnusedHasNone
<1>6. CASE e \in Readers(f)
  <2>1. Writers(f) = {} /\ Cardinality(Readers(f)) >= 1 /\ (Cardinality(Readers(f)) <= 1 => Readers(f) = {e})
    BY <1>1, <1>3, <1>4, <1>6
  <2>2. pool[f] = 0 /\ Readers(f) = {e}
    BY <1>1, <1>2, <2>1
  <2> QED BY <2>1, <2>2, UnusedHasNone
<1> QED BY <1>5, <1>6

(* Nothing of direction d changes.                                         *)
Writer(d)  == /\ wmode'[d] = wmode[d] /\ writing'[d] = writing[d]
              /\ writing[d] # None /\ writing[d].flate \in Flates => dict'[writing[d].flate] = dict[writing[d].flate]
Reader(d)  == /\ wmode'[d] = wmode[d] /\ reading'[d] = reading[d] /\ window'[d] = window[d]
              /\ reading[d] # None /\ reading[d].flate \in Flates => dict'[reading[d].flate] = dict[reading[d].flate]

LEMMA WriterRests ==
    ASSUME NEW d, WriteInv(d), Writer(d)
    PROVE  WriteInv(d)'
<1>1. Compressors \subseteq Flates
  BY DEF Flates
<1>2. writing'[d] = writing[d] /\ wmode'[d] = wmode[d]
  BY DEF Writer
<1>3. ASSUME writing[d] # None, Fresh(d, writing[d].compress)
      PROVE  /\ writing[d].flate \in Compressors /\ dict'[writing[d].flate] = dict[writing[d].flate]
             /\ Goes(<<>>, writing[d].plain, writing[d].tokens, 0, dict[writing[d].flate])
  BY <1>1, <1>3 DEF WriteInv, Writer
<1> QED BY <1>2, <1>3, Zenon DEF WriteInv, Fresh

LEMMA ReaderRests ==
    ASSUME NEW d, ReadInv(d), Reader(d)
    PROVE  ReadInv(d)'
<1>1. Decompressors \subseteq Flates
  BY DEF Flates
<1>2. reading'[d] = reading[d] /\ wmode'[d] = wmode[d] /\ window'[d] = window[d]
  BY DEF Reader
<1> DEFINE r == reading[d]
           m == r.msg
<1>3. ASSUME r # None, Fresh(d, m.rsv1), ~ r.ended
      PROVE  /\ r.flate \in Decompressors /\ dict'[r.flate] = dict[r.flate]
             /\ \E v \in Seq(Symbols) : Goes(dict[r.flate], m.plain, m.tokens, r.pos, v)
  BY <1>1, <1>3 DEF ReadInv, Reader
<1> QED BY <1>2, <1>3, Zenon DEF ReadInv, Fresh, Sendable

LEMMA WireRests ==
    ASSUME NEW d, WireInv(d), wmode'[d] = wmode[d], wire'[d] = wire[d]
    PROVE  WireInv(d)'
BY Zenon DEF WireInv, Sendable, Fresh

LEMMA SendRests ==
    ASSUME NEW d, SendInv(d), wmode'[d] = wmode[d], send'[d] = send[d], writing'[d] = writing[d]
    PROVE  SendInv(d)'
BY Zenon DEF SendInv

LEMMA ChainRests ==
    ASSUME NEW d, ChainInv(d), wmode'[d] = wmode[d], skipped'[d] = skipped[d], reading'[d] = reading[d],
           window'[d] = window[d], wire'[d] = wire[d], writing'[d] = writing[d], kept'[d] = kept[d]
    PROVE  ChainInv(d)'
BY Zenon DEF ChainInv, Chained

LEMMA DirRests ==
    ASSUME NEW d, DirInv(d), Writer(d), Reader(d),
           skipped'[d] = skipped[d], wrong'[d] = wrong[d], wire'[d] = wire[d], kept'[d] = kept[d],
           send'[d] = send[d]
    PROVE  DirInv(d)'
<1>1. wmode'[d] = wmode[d] /\ writing'[d] = writing[d] /\ reading'[d] = reading[d] /\ window'[d] = window[d]
  BY DEF Writer, Reader
<1>2. WriteInv(d)' /\ ReadInv(d)' /\ WireInv(d)' /\ SendInv(d)' /\ ChainInv(d)'
  BY <1>1, WriterRests, ReaderRests, WireRests, SendRests, ChainRests DEF DirInv
<1>3. StepInv(d)'
  BY <1>1 DEF DirInv, StepInv
<1> QED BY <1>2, <1>3 DEF DirInv

LEMMA NotHeld ==
    ASSUME PoolInv, NEW f \in Flates, pool[f] > 0 \/ Unused(f), NEW d \in Dirs
    PROVE  /\ writing[d] # None => writing[d].flate # f
           /\ reading[d] # None => reading[d].flate # f
<1>1. d \notin Writers(f) \cup Readers(f)
  <2> SUFFICES ASSUME d \in Writers(f) \cup Readers(f) PROVE FALSE
    OBVIOUS
  <2>1. pool[f] = 0 /\ ~ Unused(f)
    BY Sole
  <2> QED BY <2>1
<1> QED BY <1>1 DEF Writers, Readers

(* Everything but the writer of e rests.                                   *)
LEMMA OnlyWriterQuiet ==
    ASSUME DeflateInv, NEW e \in Dirs,
           UNCHANGED <<mvars, wire, rvars, pvars>>,
           \A d \in Dirs : d # e => Writer(d) /\ kept'[d] = kept[d],
           \A d \in Dirs : Reader(d),
           WriteInv(e)', ChainInv(e)', SendInv(e)',
           kept' \in [Dirs -> Seq(Symbols)], dict' \in [Flates -> Seq(Symbols)], DOMAIN writing' = Dirs
    PROVE  DeflateInv'
<1>1. /\ UNCHANGED <<wmode, rmode, wire, reading, window, wrong, skipped, frames, send>>
      /\ DeflateTypes /\ (\A d \in Dirs : DirInv(d)) /\ (\A k \in Keys : FrameInv(k))
  BY DEF mvars, rvars, pvars, DeflateInv
<1>2. DeflateTypes'
  BY <1>1 DEF DeflateTypes
<1>3. \A k \in Keys : FrameInv(k)'
  BY <1>1, Zenon DEF FrameInv
<1>4. ASSUME NEW d \in Dirs, d # e PROVE DirInv(d)'
  BY <1>1, <1>4, DirRests
<1>5. DirInv(e)'
  <2>1. ReadInv(e)' /\ WireInv(e)' /\ SendInv(e)' /\ StepInv(e)'
    BY <1>1, ReaderRests, WireRests DEF DirInv, StepInv
  <2> QED BY <2>1 DEF DirInv
<1> QED BY <1>2, <1>3, <1>4, <1>5 DEF DeflateInv

(* The same when a compressor that none of the others holds changes.       *)
LEMMA OnlyWriter ==
    ASSUME DeflateInv, NEW e \in Dirs, NEW f,
           UNCHANGED <<mvars, wire, rvars, pvars>>,
           \A d \in Dirs \ {e} : writing'[d] = writing[d] /\ kept'[d] = kept[d],
           \A g \in Flates \ {f} : dict'[g] = dict[g],
           \A d \in Dirs : /\ d # e /\ writing[d] # None => writing[d].flate # f
                           /\ reading[d] # None => reading[d].flate # f,
           WriteInv(e)', ChainInv(e)', SendInv(e)',
           kept' \in [Dirs -> Seq(Symbols)], dict' \in [Flates -> Seq(Symbols)], DOMAIN writing' = Dirs
    PROVE  DeflateInv'
<1>1. UNCHANGED <<wmode, reading, window>>
  BY DEF mvars, rvars
<1>2. \A d \in Dirs : d # e => Writer(d) /\ kept'[d] = kept[d]
  BY <1>1 DEF Writer
<1>3. \A d \in Dirs : Reader(d)
  BY <1>1 DEF Reader
<1> QED BY <1>2, <1>3, OnlyWriterQuiet

(* A message that begins.                                                  *)
LEMMA Begins ==
    ASSUME NEW c \in BOOLEAN, NEW f \in {None} \cup Compressors, NEW m,
           m = [compress |-> c, flate |-> f, plain |-> <<>>, tokens |-> <<>>]
    PROVE  /\ m \in Writings /\ m.compress = c /\ m.flate = f /\ m.plain = <<>> /\ m.tokens = <<>>
           /\ Len(m.tokens) = Len(m.plain)
<1>1. <<>> \in Seq(Symbols) /\ <<>> \in Seq(Tokens)
  OBVIOUS
<1> QED BY <1>1 DEF Writings

LEMMA NextWriterSteps ==
    ASSUME DeflateInv, PoolInv, NEW e \in Dirs, NextWriter(e)
    PROVE  DeflateInv'
<1>1. /\ DeflateTypes /\ DirInv(e) /\ writing[e] = None /\ kept' = kept
      /\ UNCHANGED <<mvars, wire, rvars, pvars>>
      /\ UNCHANGED <<wmode, wire, reading, window, skipped>>
  BY DEF NextWriter, DeflateInv, mvars, rvars
<1>s. SendInv(e)'
  BY DEF NextWriter, SendInv, pvars
<1>2. ASSUME NEW f \in Compressors, GetReset(f), wmode[e] = "fresh",
             writing' = [writing EXCEPT ![e] = [compress |-> TRUE, flate |-> f, plain |-> <<>>, tokens |-> <<>>]]
      PROVE  DeflateInv'
  <2> DEFINE m == writing'[e]
  <2>1. f \in Flates /\ (pool[f] > 0 \/ Unused(f)) /\ dict' = [dict EXCEPT ![f] = <<>>]
    BY <1>2 DEF Flates, GetReset
  <2>2. /\ dict' \in [Flates -> Seq(Symbols)] /\ dict'[f] = <<>>
        /\ \A g \in Flates \ {f} : dict'[g] = dict[g]
    BY <1>1, <2>1 DEF DeflateTypes
  <2>3. \A d \in Dirs : /\ writing[d] # None => writing[d].flate # f
                        /\ reading[d] # None => reading[d].flate # f
    BY <2>1, NotHeld
  <2>4. WriteInv(e)'
    <3>1. m = [compress |-> TRUE, flate |-> f, plain |-> <<>>, tokens |-> <<>>]
      BY <1>1, <1>2 DEF DeflateTypes
    <3>2. Goes(<<>>, <<>>, <<>>, 0, <<>>)
      <4>1. <<>> \in Seq(Symbols)
        OBVIOUS
      <4> QED BY <4>1, GoesNowhere
    <3> HIDE DEF m
    <3>3. /\ m \in Writings /\ m.compress = TRUE /\ m.flate = f /\ m.plain = <<>> /\ m.tokens = <<>>
          /\ Len(m.tokens) = Len(m.plain)
      BY <3>1, Begins
    <3>4. wmode'[e] = "fresh" /\ wmode'[e] # "off"
      BY <1>1, <1>2
    <3>5. Goes(<<>>, m.plain, m.tokens, 0, dict'[m.flate]) /\ m.flate \in Compressors
      BY <2>2, <3>2, <3>3, Zenon
    <3> QED BY <3>3, <3>4, <3>5, Zenon DEF WriteInv, Fresh, m
  <2>5. ChainInv(e)'
    BY <1>1, <1>2 DEF ChainInv
  <2>6. DOMAIN writing' = Dirs /\ (\A d \in Dirs \ {e} : writing'[d] = writing[d])
        /\ kept' \in [Dirs -> Seq(Symbols)]
    BY <1>1, <1>2 DEF DeflateTypes
  <2> QED BY <1>1, <1>s, <2>2, <2>3, <2>4, <2>5, <2>6, OnlyWriter
<1>3. ASSUME NEW compress \in MayCompress(e), ~ (compress /\ wmode[e] = "fresh"), dict' = dict,
             writing' = [writing EXCEPT ![e] = [compress |-> compress, flate |-> None, plain |-> <<>>, tokens |-> <<>>]]
      PROVE  DeflateInv'
  <2> DEFINE m == writing'[e]
  <2>1. m = [compress |-> compress, flate |-> None, plain |-> <<>>, tokens |-> <<>>]
    BY <1>1, <1>3 DEF DeflateTypes
  <2>2. compress \in BOOLEAN /\ (compress => wmode'[e] # "off") /\ ~ Fresh(e, compress)'
    BY <1>1, <1>3 DEF MayCompress, Fresh
  <2> HIDE DEF m
  <2>a. /\ m \in Writings /\ m.compress = compress /\ m.flate = None /\ m.plain = <<>> /\ m.tokens = <<>>
        /\ Len(m.tokens) = Len(m.plain)
    BY <2>1, <2>2, Begins
  <2>3. WriteInv(e)'
    BY <2>2, <2>a, Zenon DEF WriteInv, m
  <2>4. ChainInv(e)'
    <3> SUFFICES ASSUME wmode[e] = "takeover", ~ skipped[e]
                 PROVE  \E kw \in [0..Len(wire[e]) -> Seq(Symbols)] : Chained(e, kw)'
      BY <1>1, Zenon DEF ChainInv
    <3>1. PICK kw \in [0..Len(wire[e]) -> Seq(Symbols)] : Chained(e, kw)
      BY <1>1 DEF DirInv, ChainInv
    <3>2. kept[e] = kw[Len(wire[e])] /\ kept[e] \in Seq(Symbols) /\ kept'[e] = kept[e]
      BY <1>1, <3>1 DEF Chained, DeflateTypes
    <3>3. Leads(kw[Len(wire[e])], m.compress, m.plain, m.tokens, 0, kept'[e])
      BY <2>a, <3>2, GoesNowhere DEF Leads
    <3>4. Chained(e, kw)'
      <4>1. wire'[e] = wire[e] /\ reading'[e] = reading[e] /\ window'[e] = window[e]
        BY <1>1
      <4> QED BY <3>1, <3>2, <3>3, <4>1, Zenon DEF Chained, m
    <3> QED BY <3>4
  <2>5. DOMAIN writing' = Dirs /\ (\A d \in Dirs \ {e} : writing'[d] = writing[d])
        /\ kept' \in [Dirs -> Seq(Symbols)] /\ dict' \in [Flates -> Seq(Symbols)]
    BY <1>1, <1>3 DEF DeflateTypes
  <2>6. \A d \in Dirs : Writer(d) \/ d = e
    BY <1>1, <1>3, <2>5 DEF Writer
  <2>7. \A d \in Dirs : Reader(d)
    BY <1>1, <1>3 DEF Reader
  <2> QED BY <1>1, <1>s, <1>3, <2>3, <2>4, <2>5, <2>6, <2>7, OnlyWriterQuiet
<1> QED BY <1>2, <1>3 DEF NextWriter

LEMMA WriteSteps ==
    ASSUME DeflateInv, PoolInv, NEW e \in Dirs, NEW data \in Payloads, Write(e, data)
    PROVE  DeflateInv'
<1> DEFINE m == writing[e]
           w == IF m.flate = None THEN kept[e] ELSE dict[m.flate]
           c == Compress(w, data)
           k == writing'[e]
<1>1. /\ DeflateTypes /\ DirInv(e) /\ m # None /\ m.plain = <<>>
      /\ UNCHANGED <<mvars, wire, rvars, pvars>>
      /\ UNCHANGED <<wmode, wire, reading, window, skipped>>
  BY DEF Write, DeflateInv, mvars, rvars
<1>2. /\ writing' = [writing EXCEPT ![e].plain = data, ![e].tokens = c.out]
      /\ dict' = IF m.flate = None THEN dict ELSE [dict EXCEPT ![m.flate] = c.w]
      /\ kept' = IF m.compress /\ m.flate = None THEN [kept EXCEPT ![e] = c.w] ELSE kept
  BY DEF Write
<1>3. /\ m \in Writings /\ (m.compress => wmode[e] # "off")
      /\ Fresh(e, m.compress) =>
             m.flate \in Compressors /\ Goes(<<>>, m.plain, m.tokens, 0, dict[m.flate])
      /\ ~ Fresh(e, m.compress) => m.flate = None
  BY <1>1 DEF DirInv, WriteInv
<1>4. /\ m.flate \in {None} \cup Compressors /\ Compressors \subseteq Flates /\ None \notin Compressors
      /\ m.compress \in BOOLEAN
  BY <1>3, PoolAssumption DEF Flates, Writings
<1>5. w \in Seq(Symbols) /\ data \in Seq(Symbols)
  <2>1. kept[e] \in Seq(Symbols) /\ (m.flate # None => dict[m.flate] \in Seq(Symbols))
    BY <1>1, <1>4 DEF DeflateTypes
  <2> QED BY <2>1, PayloadAssumption
<1>6. c.w \in Seq(Symbols) /\ c.out \in Seq(Tokens) /\ Goes(w, data, c.out, 0, c.w)
  <2> HIDE DEF w
  <2> QED BY <1>5, CompressGoes
<1> HIDE DEF c
<1>7. Len(c.out) = Len(data)
  BY <1>6, Zenon DEF Goes
<1>8. /\ k \in Writings /\ k.compress = m.compress /\ k.flate = m.flate /\ k.plain = data /\ k.tokens = c.out
      /\ k # None
  <2>1. k = [m EXCEPT !.plain = data, !.tokens = c.out]
    BY <1>1, <1>2 DEF DeflateTypes
  <2> HIDE DEF k, m
  <2>2. k \in Writings /\ k.compress = m.compress /\ k.flate = m.flate /\ k.plain = data /\ k.tokens = c.out
    BY <1>3, <1>5, <1>6, <2>1 DEF Writings
  <2> QED BY <2>2, NoneAssumption
<1> HIDE DEF k
<1>9. wmode'[e] = wmode[e]
  BY <1>1
<1>10. SendInv(e)'
  <2>1. send'[e] = None
    BY <1>1 DEF DirInv, SendInv, pvars
  <2> QED BY <2>1 DEF SendInv
<1>11. /\ DOMAIN writing' = Dirs /\ (\A d \in Dirs \ {e} : writing'[d] = writing[d])
       /\ \A d \in Dirs \ {e} : kept'[d] = kept[d]
       /\ kept' \in [Dirs -> Seq(Symbols)]
  BY <1>1, <1>2, <1>6 DEF DeflateTypes
<1>12. CASE Fresh(e, m.compress)
  <2> DEFINE f == m.flate
  <2>1. f \in Compressors /\ f # None /\ f \in Flates /\ Goes(<<>>, m.plain, m.tokens, 0, dict[f])
    BY <1>3, <1>4, <1>12
  <2>2. w = <<>>
    BY <1>1, <2>1, GoesNowhere, Zenon
  <2>3. dict' \in [Flates -> Seq(Symbols)] /\ dict'[f] = c.w /\ \A g \in Flates \ {f} : dict'[g] = dict[g]
    BY <1>1, <1>2, <1>6, <2>1 DEF DeflateTypes
  <2>4. WriteInv(e)'
    <3>1. Goes(<<>>, k.plain, k.tokens, 0, dict'[k.flate])
      BY <1>6, <1>8, <2>2, <2>3
    <3>2. wmode'[e] # "off" /\ Len(k.tokens) = Len(k.plain) /\ k.flate \in Compressors
      BY <1>1, <1>7, <1>8, <1>12, <2>1 DEF Fresh
    <3> QED BY <1>8, <1>9, <1>12, <3>1, <3>2, Zenon DEF WriteInv, Fresh, k
  <2>5. ChainInv(e)'
    BY <1>1, <1>12 DEF ChainInv, Fresh
  <2>6. \A d \in Dirs : /\ d # e /\ writing[d] # None => writing[d].flate # f
                        /\ reading[d] # None => reading[d].flate # f
    <3>1. e \in Writers(f)
      BY <1>1 DEF Writers
    <3>2. Writers(f) \cup Readers(f) = {e} /\ Readers(f) = {}
      BY <2>1, <3>1, Sole
    <3> QED BY <3>2 DEF Writers, Readers
  <2> HIDE DEF f
  <2> QED BY <1>1, <1>10, <1>11, <2>3, <2>4, <2>5, <2>6, OnlyWriter
<1>13. CASE ~ Fresh(e, m.compress)
  <2>1. m.flate = None /\ w = kept[e] /\ dict' = dict
    BY <1>2, <1>3, <1>13
  <2>2. WriteInv(e)'
    <3>1. k.compress => wmode'[e] # "off" /\ Len(k.tokens) = Len(k.plain)
      BY <1>1, <1>3, <1>7, <1>8
    <3> QED BY <1>8, <1>9, <1>13, <2>1, <3>1, Zenon DEF WriteInv, Fresh, k
  <2>3. ChainInv(e)'
    <3> SUFFICES ASSUME wmode[e] = "takeover", ~ skipped[e]
                 PROVE  \E kw \in [0..Len(wire[e]) -> Seq(Symbols)] : Chained(e, kw)'
      BY <1>1, Zenon DEF ChainInv
    <3>1. PICK kw \in [0..Len(wire[e]) -> Seq(Symbols)] : Chained(e, kw)
      BY <1>1 DEF DirInv, ChainInv
    <3> DEFINE last == kw[Len(wire[e])]
    <3>2. Leads(last, m.compress, m.plain, m.tokens, 0, kept[e])
      BY <1>1, <3>1 DEF Chained
    <3>3. last = kept[e]
      BY <1>1, <3>2, GoesNowhere, Zenon DEF Leads
    <3>4. Leads(last, k.compress, k.plain, k.tokens, 0, kept'[e])
      <4>1. CASE m.compress
        <5>1. kept'[e] = c.w
          BY <1>1, <1>2, <2>1, <4>1 DEF DeflateTypes
        <5> QED BY <1>6, <1>8, <2>1, <3>3, <4>1, <5>1 DEF Leads
      <4>2. CASE ~ m.compress
        BY <1>2, <1>8, <3>3, <4>2 DEF Leads
      <4> QED BY <4>1, <4>2
    <3>5. Chained(e, kw)'
      <4>1. wire'[e] = wire[e] /\ reading'[e] = reading[e] /\ window'[e] = window[e]
        BY <1>1
      <4> QED BY <1>8, <3>1, <3>4, <4>1, Zenon DEF Chained, k
    <3> QED BY <3>5
  <2>4. \A d \in Dirs : Writer(d) \/ d = e
    BY <1>1, <1>11, <2>1 DEF Writer
  <2>5. \A d \in Dirs : Reader(d)
    BY <1>1, <2>1 DEF Reader
  <2>6. dict' \in [Flates -> Seq(Symbols)]
    BY <1>1, <2>1 DEF DeflateTypes
  <2> QED BY <1>1, <1>10, <1>11, <2>2, <2>3, <2>4, <2>5, <2>6, OnlyWriterQuiet
<1> QED BY <1>12, <1>13

(* A message goes to the wire: what leads to the writer's window leads     *)
(* through it.                                                             *)
LEMMA OnlyWire ==
    ASSUME DeflateInv, NEW e \in Dirs, NEW m \in Messages, Sendable(e, m),
           wire' = [wire EXCEPT ![e] = Append(@, m)],
           UNCHANGED <<mvars, kept, rvars, dict, frames>>,
           \A d \in Dirs \ {e} : writing'[d] = writing[d] /\ send'[d] = send[d],
           DOMAIN writing' = Dirs, DOMAIN send' = Dirs, writing'[e] = None, SendInv(e)',
           wmode[e] = "takeover" =>
               \A w \in Seq(Symbols) :
                   (IF writing[e] = None THEN kept[e] = w
                    ELSE Leads(w, writing[e].compress, writing[e].plain, writing[e].tokens, 0, kept[e]))
                   => Leads(w, m.rsv1, m.plain, m.tokens, 0, kept[e])
    PROVE  DeflateInv'
<1> DEFINE n == Len(wire[e])
<1>1. /\ UNCHANGED <<wmode, rmode, kept, reading, window, wrong, skipped, dict, frames>>
      /\ DeflateTypes /\ (\A d \in Dirs : DirInv(d)) /\ (\A k \in Keys : FrameInv(k))
  BY DEF mvars, rvars, DeflateInv
<1>2. /\ wire[e] \in Seq(Messages) /\ wire'[e] = Append(wire[e], m)
      /\ wire' \in [Dirs -> Seq(Messages)] /\ \A d \in Dirs \ {e} : wire'[d] = wire[d]
  BY <1>1 DEF DeflateTypes
<1>3. /\ n \in Nat /\ Len(wire'[e]) = n + 1 /\ wire'[e][n + 1] = m
      /\ \A i \in 1..n : wire'[e][i] = wire[e][i]
  BY <1>2, AppendProperties
<1> HIDE DEF n
<1>4. DeflateTypes'
  BY <1>1, <1>2 DEF DeflateTypes
<1>5. \A k \in Keys : FrameInv(k)'
  BY <1>1, Zenon DEF FrameInv
<1>6. ASSUME NEW d \in Dirs, d # e PROVE DirInv(d)'
  <2>1. Writer(d) /\ Reader(d)
    BY <1>1, <1>6 DEF Writer, Reader
  <2> QED BY <1>1, <1>2, <1>6, <2>1, DirRests
<1>7. WireInv(e)'
  <2>1. ASSUME NEW i \in 1 .. n + 1 PROVE Sendable(e, wire'[e][i])
    <3>1. CASE i = n + 1
      BY <1>3, <3>1
    <3>2. CASE i # n + 1
      <4>1. i \in 1..n
        BY <1>3, <3>2
      <4> QED BY <1>1, <1>3, <4>1 DEF DirInv, WireInv, n
    <3> QED BY <3>1, <3>2
  <2>2. ASSUME NEW k PROVE Sendable(e, k) => (k.masked = (e \notin Servers)
           /\ (k.rsv1 => wmode'[e] # "off" /\ Len(k.tokens) = Len(k.plain))
           /\ (k.rsv1 /\ wmode'[e] = "fresh" => Standalone(k)))
    BY <1>1, Zenon DEF Sendable, Fresh
  <2> QED BY <1>3, <2>1, <2>2, Zenon DEF WireInv, Sendable, Fresh
<1>8. ReadInv(e)'
  <2>1. Reader(e)
    BY <1>1 DEF Reader
  <2> QED BY <1>1, <2>1, ReaderRests DEF DirInv
<1>9. ChainInv(e)'
  <2> SUFFICES ASSUME wmode[e] = "takeover", ~ skipped[e]
               PROVE  \E kw \in [0..Len(wire'[e]) -> Seq(Symbols)] : Chained(e, kw)'
    BY <1>1, Zenon DEF ChainInv
  <2>1. PICK kw \in [0..n -> Seq(Symbols)] : Chained(e, kw)
    BY <1>1 DEF DirInv, ChainInv, n
  <2>2. \E kx \in [0 .. n + 1 -> Seq(Symbols)] : kx[n + 1] = kept[e] /\ \A i \in 0..n : kx[i] = kw[i]
    <3> DEFINE kx == [i \in 0 .. n + 1 |-> IF i <= n THEN kw[i] ELSE kept[e]]
    <3>1. kept[e] \in Seq(Symbols)
      BY <1>1 DEF DeflateTypes
    <3>2. \A i \in 0 .. n + 1 : i <= n => kw[i] \in Seq(Symbols)
      BY <1>3, <2>1
    <3>3. kx \in [0 .. n + 1 -> Seq(Symbols)] /\ kx[n + 1] = kept[e] /\ \A i \in 0..n : kx[i] = kw[i]
      BY <1>3, <3>1, <3>2
    <3> QED BY <3>3, Zenon
  <2>3. PICK kx \in [0 .. n + 1 -> Seq(Symbols)] : kx[n + 1] = kept[e] /\ \A i \in 0..n : kx[i] = kw[i]
    BY <2>2
  <2>4. Leads(kw[n], m.rsv1, m.plain, m.tokens, 0, kept[e])
    <3>1. kw[n] \in Seq(Symbols)
      BY <1>3, <2>1
    <3>2. IF writing[e] = None THEN kept[e] = kw[n]
          ELSE Leads(kw[n], writing[e].compress, writing[e].plain, writing[e].tokens, 0, kept[e])
      BY <2>1, Zenon DEF Chained, n
    <3> QED BY <3>1, <3>2
  <2>5. ASSUME NEW i \in 1 .. n + 1
        PROVE  Leads(kx[i - 1], wire'[e][i].rsv1, wire'[e][i].plain, wire'[e][i].tokens, 0, kx[i])
    <3>1. CASE i = n + 1
      <4>1. i - 1 = n /\ kx[i - 1] = kw[n] /\ kx[i] = kept[e] /\ wire'[e][i] = m
        BY <1>3, <2>3, <3>1
      <4> QED BY <2>4, <4>1
    <3>2. CASE i # n + 1
      <4>1. i \in 1..n /\ i \in 0..n /\ i - 1 \in 0..n
        BY <1>3, <3>2
      <4>2. Leads(kw[i - 1], wire[e][i].rsv1, wire[e][i].plain, wire[e][i].tokens, 0, kw[i])
        BY <2>1, <4>1 DEF Chained, n
      <4> QED BY <1>3, <2>3, <4>1, <4>2
    <3> QED BY <3>1, <3>2
  <2>6. Chained(e, kx)'
    <3>1. 0 \in 0..n /\ kx[0] = kw[0] /\ kept'[e] = kx[Len(wire'[e])]
      BY <1>1, <1>3, <2>3
    <3>2. IF reading'[e] = None THEN kx[0] = window'[e]
          ELSE Leads(window'[e], reading'[e].msg.rsv1, reading'[e].msg.plain, reading'[e].msg.tokens,
                     reading'[e].pos, kx[0])
      <4>1. reading'[e] = reading[e] /\ window'[e] = window[e]
        BY <1>1
      <4> QED BY <2>1, <3>1, <4>1, Zenon DEF Chained
    <3>3. \A i \in 1..Len(wire'[e]) :
              Leads(kx[i - 1], wire'[e][i].rsv1, wire'[e][i].plain, wire'[e][i].tokens, 0, kx[i])
      BY <1>3, <2>5, Zenon
    <3> QED BY <3>1, <3>2, <3>3, Zenon DEF Chained
  <2> QED BY <1>3, <2>6
<1>10. WriteInv(e)' /\ StepInv(e)'
  <2>1. StepInv(e)'
    BY <1>1 DEF DirInv, StepInv
  <2> QED BY <2>1 DEF WriteInv
<1> QED BY <1>4, <1>5, <1>6, <1>7, <1>8, <1>9, <1>10 DEF DeflateInv, DirInv

LEMMA CloseWriterSteps ==
    ASSUME DeflateInv, NEW e \in Dirs, CloseWriter(e)
    PROVE  DeflateInv'
<1> DEFINE k == writing[e]
           m == Message(k.plain, k.compress, e \notin Servers, k.tokens)
<1>1. /\ DeflateTypes /\ DirInv(e) /\ k # None /\ wire' = [wire EXCEPT ![e] = Append(@, m)]
      /\ writing' = [writing EXCEPT ![e] = None]
      /\ UNCHANGED <<mvars, kept, rvars, dict, frames>> /\ send' = send
  BY DEF CloseWriter, DeflateInv, pvars
<1>2. /\ k \in Writings /\ (k.compress => wmode[e] # "off" /\ Len(k.tokens) = Len(k.plain))
      /\ Fresh(e, k.compress) => k.flate \in Compressors /\ Goes(<<>>, k.plain, k.tokens, 0, dict[k.flate])
  BY <1>1 DEF DirInv, WriteInv
<1> HIDE DEF k
<1>3. k.compress \in BOOLEAN /\ k.plain \in Seq(Symbols) /\ k.tokens \in Seq(Tokens)
  BY <1>2 DEF Writings
<1>4. m.plain = k.plain /\ m.rsv1 = k.compress /\ m.masked = (e \notin Servers) /\ (k.compress => m.tokens = k.tokens)
  BY DEF Message
<1>5. m \in Messages
  <2>1. <<>> \in Seq(Tokens) /\ (e \notin Servers) \in BOOLEAN
    OBVIOUS
  <2>2. (IF k.compress THEN k.tokens ELSE <<>>) \in Seq(Tokens)
    BY <1>3, <2>1
  <2> QED BY <1>3, <2>1, <2>2 DEF Message, Messages
<1> HIDE DEF m
<1>6. Sendable(e, m)
  <2>1. Fresh(e, m.rsv1) => Standalone(m)
    <3> SUFFICES ASSUME Fresh(e, k.compress) PROVE Standalone(m)
      BY <1>4 DEF Fresh
    <3>1. dict[k.flate] \in Seq(Symbols)
      BY <1>1, <1>2 DEF DeflateTypes, Flates
    <3>2. Goes(<<>>, m.plain, m.tokens, 0, dict[k.flate])
      BY <1>2, <1>4 DEF Fresh
    <3> QED BY <3>1, <3>2 DEF Standalone
  <2> QED BY <1>2, <1>4, <2>1, Zenon DEF Sendable
<1>7. SendInv(e)'
  <2>1. send'[e] = None
    BY <1>1 DEF DirInv, SendInv, k
  <2> QED BY <2>1 DEF SendInv
<1>8. /\ \A d \in Dirs \ {e} : writing'[d] = writing[d] /\ send'[d] = send[d]
      /\ DOMAIN writing' = Dirs /\ DOMAIN send' = Dirs /\ writing'[e] = None
  BY <1>1 DEF DeflateTypes
<1>9. ASSUME NEW w, Leads(w, k.compress, k.plain, k.tokens, 0, kept[e])
      PROVE  Leads(w, m.rsv1, m.plain, m.tokens, 0, kept[e])
  BY <1>4, <1>9 DEF Leads
<1> QED BY <1>1, <1>5, <1>6, <1>7, <1>8, <1>9, OnlyWire DEF k

LEMMA SendFrameSteps ==
    ASSUME DeflateInv, NEW e \in Dirs, SendFrame(e)
    PROVE  DeflateInv'
<1> DEFINE k == send[e].key
           m == frames[k]
<1>1. /\ DeflateTypes /\ DirInv(e) /\ send[e] # None /\ m # None
      /\ wire' = [wire EXCEPT ![e] = Append(@, m)] /\ send' = [send EXCEPT ![e] = None]
      /\ UNCHANGED <<mvars, kept, rvars, dict, frames>> /\ writing' = writing
  BY DEF SendFrame, DeflateInv, wvars
<1>2. k \in Keys /\ k.isServer = (e \in Servers) /\ (k.compress => wmode[e] = "fresh") /\ writing[e] = None
  BY <1>1 DEF DirInv, SendInv
<1>3. /\ m \in Messages /\ m.masked = ~ k.isServer /\ m.rsv1 = k.compress
      /\ m.rsv1 => Len(m.tokens) = Len(m.plain) /\ Standalone(m)
  BY <1>1, <1>2 DEF DeflateInv, FrameInv
<1> HIDE DEF k, m
<1>4. Sendable(e, m)
  BY <1>2, <1>3 DEF Sendable, Fresh
<1>5. SendInv(e)'
  BY <1>1 DEF DeflateTypes, SendInv
<1>6. /\ \A d \in Dirs \ {e} : writing'[d] = writing[d] /\ send'[d] = send[d]
      /\ DOMAIN writing' = Dirs /\ DOMAIN send' = Dirs /\ writing'[e] = None
  BY <1>1, <1>2 DEF DeflateTypes
<1>7. wmode[e] = "takeover" =>
          \A w : kept[e] = w => Leads(w, m.rsv1, m.plain, m.tokens, 0, kept[e])
  BY <1>2, <1>3 DEF Leads
<1> QED BY <1>1, <1>2, <1>3, <1>4, <1>5, <1>6, <1>7, OnlyWire

(* Everything but the reader of e rests.                                   *)
LEMMA OnlyReaderQuiet ==
    ASSUME DeflateInv, NEW e \in Dirs, UNCHANGED <<mvars, wvars, pvars>>,
           \A d \in Dirs : Writer(d),
           \A d \in Dirs \ {e} : /\ Reader(d) /\ wire'[d] = wire[d]
                                 /\ skipped'[d] = skipped[d] /\ wrong'[d] = wrong[d],
           WireInv(e)', ReadInv(e)', ChainInv(e)', StepInv(e)',
           wire' \in [Dirs -> Seq(Messages)], window' \in [Dirs -> Seq(Symbols)],
           dict' \in [Flates -> Seq(Symbols)],
           DOMAIN reading' = Dirs, DOMAIN wrong' = Dirs, DOMAIN skipped' = Dirs
    PROVE  DeflateInv'
<1>1. /\ UNCHANGED <<wmode, rmode, writing, kept, frames, send>>
      /\ DeflateTypes /\ (\A d \in Dirs : DirInv(d)) /\ (\A k \in Keys : FrameInv(k))
  BY DEF mvars, wvars, pvars, DeflateInv
<1>2. DeflateTypes'
  BY <1>1 DEF DeflateTypes
<1>3. \A k \in Keys : FrameInv(k)'
  BY <1>1, Zenon DEF FrameInv
<1>4. ASSUME NEW d \in Dirs, d # e PROVE DirInv(d)'
  BY <1>1, <1>4, DirRests
<1>5. DirInv(e)'
  <2>1. WriteInv(e)' /\ SendInv(e)'
    BY <1>1, WriterRests, SendRests DEF DirInv
  <2> QED BY <2>1 DEF DirInv
<1> QED BY <1>2, <1>3, <1>4, <1>5 DEF DeflateInv

(* The same when a decompressor that none of the others holds changes.     *)
LEMMA OnlyReader ==
    ASSUME DeflateInv, NEW e \in Dirs, NEW f, UNCHANGED <<mvars, wvars, pvars>>,
           \A g \in Flates \ {f} : dict'[g] = dict[g],
           \A d \in Dirs : /\ writing[d] # None => writing[d].flate # f
                           /\ d # e /\ reading[d] # None => reading[d].flate # f,
           \A d \in Dirs \ {e} : /\ reading'[d] = reading[d] /\ window'[d] = window[d] /\ wire'[d] = wire[d]
                                 /\ skipped'[d] = skipped[d] /\ wrong'[d] = wrong[d],
           WireInv(e)', ReadInv(e)', ChainInv(e)', StepInv(e)',
           wire' \in [Dirs -> Seq(Messages)], window' \in [Dirs -> Seq(Symbols)],
           dict' \in [Flates -> Seq(Symbols)],
           DOMAIN reading' = Dirs, DOMAIN wrong' = Dirs, DOMAIN skipped' = Dirs
    PROVE  DeflateInv'
<1>1. UNCHANGED <<wmode, writing>>
  BY DEF mvars, wvars
<1>2. \A d \in Dirs : Writer(d)
  BY <1>1 DEF Writer
<1>3. \A d \in Dirs \ {e} : Reader(d)
  BY <1>1 DEF Reader
<1> QED BY <1>2, <1>3, OnlyReaderQuiet

(* The next message is opened with an empty window, or with what the       *)
(* reader has kept.                                                        *)
LEMMA Opens ==
    ASSUME DeflateTypes, NEW e \in Dirs, DirInv(e), wire[e] # <<>>,
           NEW m, m = Head(wire[e]),
           NEW f \in {None} \cup Decompressors, NEW h \in Seq(Symbols),
           wmode' = wmode, window' = window, writing' = writing, kept' = kept,
           wire'[e] = Tail(wire[e]),
           reading'[e] = [msg |-> m, flate |-> f, pos |-> 0, ended |-> FALSE, hist |-> h],
           Fresh(e, m.rsv1) => f \in Decompressors /\ dict'[f] = <<>>,
           ~ Fresh(e, m.rsv1) => f = None,
           m.rsv1 /\ wmode[e] = "takeover" => h = window[e],
           skipped'[e] = (skipped[e] \/ (reading[e] # None /\ reading[e].msg.rsv1
                                           /\ reading[e].pos < Len(reading[e].msg.plain)))
    PROVE  Sendable(e, m) /\ WireInv(e)' /\ ReadInv(e)' /\ ChainInv(e)'
<1> DEFINE n == Len(wire[e])
           r == reading'[e]
<1>1. /\ wire[e] \in Seq(Messages) /\ n \in Nat /\ n >= 1 /\ 1 \in 1..n /\ m = wire[e][1] /\ m \in Messages
      /\ Len(wire'[e]) = n - 1 /\ \A i \in 1 .. n - 1 : wire'[e][i] = wire[e][i + 1] /\ i + 1 \in 1..n
  <2>1. wire[e] \in Seq(Messages)
    BY DEF DeflateTypes
  <2> QED BY <2>1
<1> HIDE DEF n
<1>2. Sendable(e, m)
  BY <1>1 DEF DirInv, WireInv, n
<1>3. WireInv(e)'
  <2>1. \A i \in 1 .. n - 1 : Sendable(e, wire'[e][i])
    BY <1>1 DEF DirInv, WireInv, n
  <2>2. Len(wire'[e]) = n - 1 /\ wmode'[e] = wmode[e]
    BY <1>1
  <2> QED BY <2>1, <2>2, Zenon DEF WireInv, Sendable, Fresh
<1>4. /\ r \in Readings /\ r # None /\ r.msg = m /\ r.flate = f /\ r.pos = 0 /\ r.ended = FALSE /\ r.hist = h
  <2> HIDE DEF r
  <2>1. r = [msg |-> m, flate |-> f, pos |-> 0, ended |-> FALSE, hist |-> h]
    BY DEF r
  <2>2. r \in Readings /\ r.msg = m /\ r.flate = f /\ r.pos = 0 /\ r.ended = FALSE /\ r.hist = h
    BY <1>1, <2>1 DEF Readings
  <2> QED BY <2>2, NoneAssumption
<1> HIDE DEF r
<1>5. 0 <= Len(m.plain)
  <2>1. m.plain \in Seq(Symbols)
    BY <1>1 DEF Messages
  <2> QED BY <2>1
<1>6. ReadInv(e)'
  <2>1. Fresh(e, m.rsv1) => \E v \in Seq(Symbols) : Goes(dict'[f], m.plain, m.tokens, 0, v)
    BY <1>2 DEF Sendable, Standalone
  <2>2. wmode'[e] = wmode[e] /\ window'[e] = window[e] /\ r.pos <= Len(r.msg.plain)
    BY <1>4, <1>5
  <2>3. Sendable(e, m)'
    BY <1>2, <2>2, Zenon DEF Sendable, Fresh
  <2>4. /\ Fresh(e, r.msg.rsv1) => /\ r.flate \in Decompressors
                                   /\ \E v \in Seq(Symbols) : Goes(dict'[r.flate], r.msg.plain, r.msg.tokens, r.pos, v)
        /\ ~ Fresh(e, r.msg.rsv1) => r.flate = None
        /\ r.msg.rsv1 /\ wmode[e] = "takeover" => r.hist = window[e]
    BY <1>4, <2>1
  <2> QED BY <1>4, <2>2, <2>3, <2>4, Zenon DEF ReadInv, Fresh, Sendable, r
<1>7. ChainInv(e)'
  <2> SUFFICES ASSUME wmode[e] = "takeover", ~ skipped'[e]
               PROVE  \E kw \in [0..Len(wire'[e]) -> Seq(Symbols)] : Chained(e, kw)'
    BY Zenon DEF ChainInv
  <2>1. PICK kw \in [0..n -> Seq(Symbols)] : Chained(e, kw)
    BY DEF DirInv, ChainInv, n
  <2>2. kw[0] = window[e]
    <3>1. CASE reading[e] = None
      BY <2>1, <3>1 DEF Chained
    <3>2. CASE reading[e] # None
      <4> DEFINE q == reading[e]
      <4>1. Leads(window[e], q.msg.rsv1, q.msg.plain, q.msg.tokens, q.pos, kw[0])
        BY <2>1, <3>2 DEF Chained
      <4>2. q.pos \in Nat /\ q.pos <= Len(q.msg.plain) /\ q.msg.plain \in Seq(Symbols)
        BY <3>2 DEF DirInv, ReadInv, Readings, Messages
      <4>3. q.msg.rsv1 => q.pos = Len(q.msg.plain)
        <5>1. q.msg.rsv1 => ~ (q.pos < Len(q.msg.plain))
          BY <3>2
        <5> QED BY <4>2, <5>1
      <4> HIDE DEF q
      <4>4. CASE q.msg.rsv1
        <5>1. Goes(window[e], q.msg.plain, q.msg.tokens, Len(q.msg.plain), kw[0])
          <6>1. Goes(window[e], q.msg.plain, q.msg.tokens, q.pos, kw[0])
            BY <4>1, <4>4, Zenon DEF Leads
          <6>2. q.pos = Len(q.msg.plain)
            BY <4>3, <4>4, Zenon
          <6> QED BY <6>1, <6>2, Zenon
        <5> QED BY <5>1, Zenon DEF Goes
      <4>5. CASE ~ q.msg.rsv1
        BY <4>1, <4>5, Zenon DEF Leads
      <4> QED BY <4>4, <4>5
    <3> QED BY <3>1, <3>2
  <2>a. \A i \in 1..n : Leads(kw[i - 1], wire[e][i].rsv1, wire[e][i].plain, wire[e][i].tokens, 0, kw[i])
    BY <2>1, Zenon DEF Chained, n
  <2>3. \E kx \in [0 .. n - 1 -> Seq(Symbols)] : \A i \in 0 .. n - 1 : kx[i] = kw[i + 1]
    <3> DEFINE kx == [i \in 0 .. n - 1 |-> kw[i + 1]]
    <3>1. ASSUME NEW i \in 0 .. n - 1 PROVE kw[i + 1] \in Seq(Symbols)
      <4>1. n \in Nat
        BY <1>1
      <4>2. i + 1 \in 0..n
        BY <4>1
      <4> QED BY <2>1, <4>2, Zenon
    <3>2. kx \in [0 .. n - 1 -> Seq(Symbols)] /\ \A i \in 0 .. n - 1 : kx[i] = kw[i + 1]
      BY <3>1, Zenon
    <3> QED BY <3>2, Zenon
  <2>4. PICK kx \in [0 .. n - 1 -> Seq(Symbols)] : \A i \in 0 .. n - 1 : kx[i] = kw[i + 1]
    BY <2>3
  <2>5. kx[0] = kw[1] /\ kx[n - 1] = kw[n]
    BY <1>1, <2>4
  <2>6. Leads(window'[e], r.msg.rsv1, r.msg.plain, r.msg.tokens, r.pos, kx[0])
    <3>1. Leads(kw[0], m.rsv1, m.plain, m.tokens, 0, kw[1])
      <4>2. Leads(kw[1 - 1], wire[e][1].rsv1, wire[e][1].plain, wire[e][1].tokens, 0, kw[1])
        BY <1>1, <2>a, Zenon
      <4>3. 1 - 1 = 0
        OBVIOUS
      <4> QED BY <1>1, <4>2, <4>3
    <3> QED BY <1>4, <2>2, <2>5, <3>1
  <2>7. ASSUME NEW i \in 1 .. n - 1
        PROVE  Leads(kx[i - 1], wire'[e][i].rsv1, wire'[e][i].plain, wire'[e][i].tokens, 0, kx[i])
    <3>1. i + 1 \in 1..n /\ wire'[e][i] = wire[e][i + 1] /\ i - 1 \in 0 .. n - 1 /\ i \in 0 .. n - 1
      <4>1. wire'[e][i] = wire[e][i + 1]
        BY <1>1, Zenon
      <4>2. n \in Nat
        BY <1>1
      <4>3. i + 1 \in 1..n /\ i - 1 \in 0 .. n - 1 /\ i \in 0 .. n - 1
        BY <4>2
      <4> QED BY <4>1, <4>3
    <3>2. Leads(kw[(i + 1) - 1], wire[e][i + 1].rsv1, wire[e][i + 1].plain, wire[e][i + 1].tokens, 0, kw[i + 1])
      BY <2>a, <3>1, Zenon
    <3>3. kx[i - 1] = kw[(i + 1) - 1] /\ kx[i] = kw[i + 1]
      <4>1. (i - 1) + 1 = (i + 1) - 1
        OBVIOUS
      <4> QED BY <2>4, <3>1, <4>1
    <3> QED BY <3>1, <3>2, <3>3
  <2>8. IF writing'[e] = None THEN kept'[e] = kx[n - 1]
        ELSE Leads(kx[n - 1], writing'[e].compress, writing'[e].plain, writing'[e].tokens, 0, kept'[e])
    BY <2>1, <2>5, Zenon DEF Chained, n
  <2>9. Chained(e, kx)'
    <3>1. Len(wire'[e]) = n - 1 /\ r # None
      BY <1>1, <1>4
    <3> QED BY <2>6, <2>7, <2>8, <3>1, Zenon DEF Chained, r
  <2> QED BY <1>1, <2>9
<1> QED BY <1>2, <1>3, <1>6, <1>7

LEMMA NextReaderSteps ==
    ASSUME DeflateInv, PoolInv, NEW e \in Dirs, NextReader(e)
    PROVE  DeflateInv'
<1> DEFINE m == Head(wire[e])
           closed == IF reading[e] = None THEN pool ELSE PoolPut(pool, reading[e].flate)
           q == reading'[e]
<1>1. /\ DeflateTypes /\ DirInv(e) /\ wire[e] # <<>>
      /\ wire' = [wire EXCEPT ![e] = Tail(@)] /\ UNCHANGED <<mvars, wvars, window, pvars>>
      /\ wrong' = [wrong EXCEPT ![e] = (m.rsv1 /\ rmode[e] = "off") \/ (m.masked = (e \in Servers))]
      /\ skipped' = [skipped EXCEPT ![e] =
            @ \/ (reading[e] # None /\ reading[e].msg.rsv1 /\ reading[e].pos < Len(reading[e].msg.plain))]
      /\ UNCHANGED <<wmode, rmode, writing, kept>>
  BY DEF NextReader, DeflateInv, mvars, wvars
<1>2. /\ rmode = wmode /\ wire'[e] = Tail(wire[e])
      /\ skipped'[e] = (skipped[e] \/ (reading[e] # None /\ reading[e].msg.rsv1
                                        /\ reading[e].pos < Len(reading[e].msg.plain)))
      /\ wrong'[e] = ((m.rsv1 /\ wmode[e] = "off") \/ (m.masked = (e \in Servers)))
      /\ \A d \in Dirs \ {e} : wire'[d] = wire[d] /\ skipped'[d] = skipped[d] /\ wrong'[d] = wrong[d]
      /\ DOMAIN wrong' = Dirs /\ DOMAIN skipped' = Dirs /\ window' \in [Dirs -> Seq(Symbols)]
  BY <1>1 DEF DeflateTypes
<1>3. wire' \in [Dirs -> Seq(Messages)]
  <2>1. wire[e] \in Seq(Messages)
    BY <1>1 DEF DeflateTypes
  <2>2. Tail(wire[e]) \in Seq(Messages)
    BY <1>1, <2>1
  <2> QED BY <1>1, <2>2 DEF DeflateTypes
<1>4. ASSUME NEW f \in Decompressors, closed[f] > 0 \/ (Unused(f) /\ closed[f] = 0), Fresh(e, m.rsv1),
             dict' = [dict EXCEPT ![f] = <<>>],
             reading' = [reading EXCEPT ![e] = [msg |-> m, flate |-> f, pos |-> 0, hist |-> <<>>, ended |-> FALSE]]
      PROVE  DeflateInv'
  <2>1. f \in Flates
    BY DEF Flates
  <2>2. /\ dict' \in [Flates -> Seq(Symbols)] /\ dict'[f] = <<>> /\ <<>> \in Seq(Symbols)
        /\ \A g \in Flates \ {f} : dict'[g] = dict[g]
    BY <1>1, <1>4, <2>1 DEF DeflateTypes
  <2>3. /\ q = [msg |-> m, flate |-> f, pos |-> 0, ended |-> FALSE, hist |-> <<>>]
        /\ DOMAIN reading' = Dirs /\ \A d \in Dirs \ {e} : reading'[d] = reading[d]
    BY <1>1, <1>4 DEF DeflateTypes
  <2>4. Sendable(e, m) /\ WireInv(e)' /\ ReadInv(e)' /\ ChainInv(e)'
    <3>1. Fresh(e, m.rsv1) => ~ (m.rsv1 /\ wmode[e] = "takeover")
      BY DEF Fresh
    <3> HIDE DEF m
    <3>2. /\ DeflateTypes /\ DirInv(e) /\ wire[e] # <<>> /\ m = Head(wire[e]) /\ f \in {None} \cup Decompressors
          /\ wmode' = wmode /\ window' = window /\ writing' = writing /\ kept' = kept /\ <<>> \in Seq(Symbols)
      BY <1>1, <2>2 DEF m
    <3>3. /\ Fresh(e, m.rsv1) => f \in Decompressors /\ dict'[f] = <<>>
          /\ ~ Fresh(e, m.rsv1) => f = None
          /\ m.rsv1 /\ wmode[e] = "takeover" => <<>> = window[e]
      BY <1>4, <2>2, <3>1
    <3>4. /\ wire'[e] = Tail(wire[e])
          /\ reading'[e] = [msg |-> m, flate |-> f, pos |-> 0, ended |-> FALSE, hist |-> <<>>]
          /\ skipped'[e] = (skipped[e] \/ (reading[e] # None /\ reading[e].msg.rsv1
                                            /\ reading[e].pos < Len(reading[e].msg.plain)))
      BY <1>2, <2>3, Zenon DEF m
    <3> QED BY <3>2, <3>3, <3>4, Opens, Zenon
  <2>5. StepInv(e)'
    <3> HIDE DEF m
    <3>1. wrong'[e] = FALSE
      <4>1. wmode[e] = "fresh" /\ m.masked = (e \notin Servers)
        BY <1>4, <2>4, Zenon DEF Sendable, Fresh
      <4>2. ~ (m.rsv1 /\ wmode[e] = "off") /\ ~ (m.masked = (e \in Servers))
        BY <4>1
      <4>3. wrong'[e] = ((m.rsv1 /\ wmode[e] = "off") \/ (m.masked = (e \in Servers)))
        BY <1>2
      <4> QED BY <4>2, <4>3
    <3> QED BY <3>1 DEF StepInv
  <2>6. \A d \in Dirs : /\ writing[d] # None => writing[d].flate # f
                        /\ d # e /\ reading[d] # None => reading[d].flate # f
    <3>1. CASE pool[f] > 0 \/ Unused(f)
      BY <2>1, <3>1, NotHeld
    <3>2. CASE ~ (pool[f] > 0 \/ Unused(f))
      <4>1. reading[e] # None /\ reading[e].flate = f
        <5>1. closed[f] > 0 /\ ~ (pool[f] > 0)
          BY <1>4, <3>2
        <5>2. reading[e] # None /\ PoolPut(pool, reading[e].flate)[f] # pool[f]
          BY <5>1
        <5> HIDE DEF closed
        <5>3. pool \in [Flates -> Nat]
          BY DEF PoolInv, Holders
        <5> QED BY <2>1, <5>2, <5>3, PutAdds
      <4>2. e \in Readers(f)
        BY <4>1 DEF Readers
      <4>3. Writers(f) \cup Readers(f) = {e} /\ Writers(f) = {}
        BY <2>1, <4>2, Sole
      <4> QED BY <4>3 DEF Writers, Readers
    <3> QED BY <3>1, <3>2
  <2> HIDE DEF m, q
  <2> QED BY <1>1, <1>2, <1>3, <2>2, <2>3, <2>4, <2>5, <2>6, OnlyReader
<1>5. ASSUME ~ Fresh(e, m.rsv1), dict' = dict,
             reading' = [reading EXCEPT ![e] = [msg |-> m, flate |-> None, pos |-> 0, ended |-> FALSE,
                                                hist |-> IF m.rsv1 THEN window[e] ELSE <<>>]]
      PROVE  DeflateInv'
  <2> DEFINE h == IF m.rsv1 THEN window[e] ELSE <<>>
  <2>1. h \in Seq(Symbols) /\ dict' \in [Flates -> Seq(Symbols)]
    <3>1. window[e] \in Seq(Symbols) /\ <<>> \in Seq(Symbols)
      BY <1>1 DEF DeflateTypes
    <3> QED BY <1>1, <1>5, <3>1 DEF DeflateTypes
  <2>2. /\ q = [msg |-> m, flate |-> None, pos |-> 0, ended |-> FALSE, hist |-> h]
        /\ DOMAIN reading' = Dirs /\ \A d \in Dirs \ {e} : reading'[d] = reading[d]
    BY <1>1, <1>5 DEF DeflateTypes
  <2>3. Sendable(e, m) /\ WireInv(e)' /\ ReadInv(e)' /\ ChainInv(e)'
    <3>1. m.rsv1 => h = window[e]
      OBVIOUS
    <3> HIDE DEF m, h
    <3> QED BY <1>1, <1>2, <1>5, <2>1, <2>2, <3>1, Opens DEF m
  <2>4. StepInv(e)'
    <3>1. wrong'[e] = FALSE
      BY <1>2, <2>3 DEF Sendable
    <3> QED BY <3>1 DEF StepInv
  <2>5. \A d \in Dirs : Writer(d)
    BY <1>1, <1>5 DEF Writer
  <2>6. \A d \in Dirs \ {e} : Reader(d)
    BY <1>1, <1>5, <2>2 DEF Reader
  <2> HIDE DEF m, q, h
  <2> QED BY <1>1, <1>2, <1>3, <2>1, <2>2, <2>3, <2>4, <2>5, <2>6, OnlyReaderQuiet
<1>6. Fresh(e, m.rsv1) <=> (m.rsv1 /\ rmode[e] = "fresh")
  BY <1>2 DEF Fresh
<1> QED BY <1>4, <1>5, <1>6 DEF NextReader

LEMMA ReadEndSteps ==
    ASSUME DeflateInv, NEW e \in Dirs, ReadEnd(e)
    PROVE  DeflateInv'
<1> DEFINE r == reading[e]
           q == reading'[e]
<1>1. /\ DeflateTypes /\ DirInv(e) /\ r # None /\ reading' = [reading EXCEPT ![e].ended = TRUE, ![e].flate = None]
      /\ UNCHANGED <<mvars, wvars, wire, window, wrong, skipped, dict, pvars>>
      /\ UNCHANGED <<wmode, writing, kept>>
  BY DEF ReadEnd, DeflateInv, mvars, wvars
<1>2. r \in Readings /\ r.pos <= Len(r.msg.plain) /\ Sendable(e, r.msg)
      /\ (r.msg.rsv1 /\ wmode[e] = "takeover" => r.hist = window[e])
  BY <1>1 DEF DirInv, ReadInv
<1>3. DOMAIN reading' = Dirs /\ \A d \in Dirs \ {e} : reading'[d] = reading[d]
  BY <1>1 DEF DeflateTypes
<1>4. q = [r EXCEPT !.ended = TRUE, !.flate = None]
  BY <1>1 DEF DeflateTypes
<1> HIDE DEF r, q
<1>5. /\ q \in Readings /\ q.msg = r.msg /\ q.pos = r.pos /\ q.hist = r.hist /\ q.ended = TRUE /\ q.flate = None
  BY <1>2, <1>4 DEF Readings
<1>6. ReadInv(e)'
  <2>1. wmode'[e] = wmode[e] /\ window'[e] = window[e] /\ q.pos <= Len(q.msg.plain)
    BY <1>1, <1>2, <1>5
  <2>2. q.ended /\ Sendable(e, q.msg) /\ (q.msg.rsv1 /\ wmode[e] = "takeover" => q.hist = window[e])
    BY <1>2, <1>5
  <2> QED BY <1>5, <2>1, <2>2, Zenon DEF ReadInv, Sendable, Fresh, q
<1>7. ChainInv(e)'
  <2> SUFFICES ASSUME wmode[e] = "takeover", ~ skipped[e]
               PROVE  \E kw \in [0..Len(wire[e]) -> Seq(Symbols)] : Chained(e, kw)'
    BY <1>1, Zenon DEF ChainInv
  <2>1. PICK kw \in [0..Len(wire[e]) -> Seq(Symbols)] : Chained(e, kw)
    BY <1>1 DEF DirInv, ChainInv
  <2>2. Leads(window'[e], q.msg.rsv1, q.msg.plain, q.msg.tokens, q.pos, kw[0])
    <3>1. Leads(window[e], r.msg.rsv1, r.msg.plain, r.msg.tokens, r.pos, kw[0])
      BY <1>1, <2>1, Zenon DEF Chained, r
    <3> QED BY <1>1, <1>5, <3>1
  <2>3. Chained(e, kw)'
    <3>1. wire'[e] = wire[e] /\ writing'[e] = writing[e] /\ kept'[e] = kept[e] /\ q # None
      BY <1>1, <1>5, NoneAssumption
    <3> QED BY <2>1, <2>2, <3>1, Zenon DEF Chained, q
  <2> QED BY <2>3
<1>8. WireInv(e)' /\ StepInv(e)'
  BY <1>1, WireRests DEF DirInv, StepInv
<1>9. \A d \in Dirs : Writer(d)
  BY <1>1 DEF Writer
<1>10. \A d \in Dirs \ {e} : Reader(d)
  BY <1>1, <1>3 DEF Reader
<1>11. /\ wire' \in [Dirs -> Seq(Messages)] /\ window' \in [Dirs -> Seq(Symbols)]
       /\ dict' \in [Flates -> Seq(Symbols)] /\ DOMAIN wrong' = Dirs /\ DOMAIN skipped' = Dirs
  BY <1>1 DEF DeflateTypes
<1> QED BY <1>1, <1>3, <1>6, <1>7, <1>8, <1>9, <1>10, <1>11, OnlyReaderQuiet

(* A message whose end is not reached, and its next symbol.                *)
LEMMA ReadSteps ==
    ASSUME DeflateInv, PoolInv, NEW e \in Dirs, Read(e)
    PROVE  DeflateInv'
<1> DEFINE r == reading[e]
           m == r.msg
           p == r.pos
           w == IF r.flate = None THEN r.hist ELSE dict[r.flate]
           s == IF m.rsv1 THEN Symbol(w, m.tokens[p + 1]) ELSE m.plain[p + 1]
           u == Slide(Append(w, s))
           q == reading'[e]
<1>1. /\ DeflateTypes /\ DirInv(e) /\ r # None /\ ~ r.ended /\ p < Len(m.plain)
      /\ UNCHANGED <<mvars, wvars, pvars>> /\ UNCHANGED <<wmode, rmode, writing, kept, wire, skipped>>
  BY DEF Read, DeflateInv, mvars, wvars
<1>2. /\ wrong' = [wrong EXCEPT ![e] = s # m.plain[p + 1]]
      /\ reading' = [reading EXCEPT ![e].pos = @ + 1, ![e].hist = IF r.flate = None THEN u ELSE @]
      /\ dict' = IF r.flate = None THEN dict ELSE [dict EXCEPT ![r.flate] = u]
      /\ window' = IF m.rsv1 /\ rmode[e] = "takeover"
                   THEN [window EXCEPT ![e] = Slide(Append(@, s))] ELSE window
  BY DEF Read
<1>3. /\ r \in Readings /\ Sendable(e, m)
      /\ Fresh(e, m.rsv1) => /\ r.flate \in Decompressors
                             /\ \E v \in Seq(Symbols) : Goes(dict[r.flate], m.plain, m.tokens, p, v)
      /\ ~ Fresh(e, m.rsv1) => r.flate = None
      /\ m.rsv1 /\ wmode[e] = "takeover" => r.hist = window[e]
  BY <1>1, Zenon DEF DirInv, ReadInv
<1>4. /\ m \in Messages /\ p \in Nat /\ r.hist \in Seq(Symbols)
      /\ r.flate \in {None} \cup Decompressors /\ Decompressors \subseteq Flates /\ None \notin Decompressors
  BY <1>3, PoolAssumption DEF Readings, Flates
<1>5. m.plain \in Seq(Symbols) /\ m.tokens \in Seq(Tokens) /\ m.rsv1 \in BOOLEAN
  BY <1>4 DEF Messages
<1>6. w \in Seq(Symbols)
  <2>1. r.flate # None => dict[r.flate] \in Seq(Symbols)
    BY <1>1, <1>4 DEF DeflateTypes
  <2> QED BY <1>4, <2>1
<1>7. rmode[e] = wmode[e] /\ wmode[e] \in Compressing /\ (m.rsv1 => wmode[e] # "off" /\ Len(m.tokens) = Len(m.plain))
  BY <1>1, <1>3 DEF DeflateTypes, Sendable
<1> DEFINE exact == m.plain[p + 1]
<1>8. exact \in Symbols /\ s \in Symbols
  <2>1. p + 1 \in 1..Len(m.plain)
    BY <1>1, <1>4, <1>5
  <2>2. exact \in Symbols
    BY <1>5, <2>1, ElementOfSeq
  <2>3. ASSUME m.rsv1 PROVE Symbol(w, m.tokens[p + 1]) \in Symbols
    <3>1. m.tokens[p + 1] \in Tokens
      BY <1>5, <1>7, <2>1, <2>3, ElementOfSeq
    <3> HIDE DEF w
    <3> QED BY <1>6, <3>1, SymbolIs
  <2> QED BY <2>2, <2>3
<1>9. u \in Seq(Symbols)
  <2> HIDE DEF w, s
  <2> QED BY <1>6, <1>8, SlideIs
(* What a window that goes through the message makes of the next token.    *)
<1>10. ASSUME NEW v, m.rsv1, Goes(w, m.plain, m.tokens, p, v)
       PROVE  s = exact /\ Goes(u, m.plain, m.tokens, p + 1, v)
  <2>1. Symbol(w, m.tokens[p + 1]) = exact /\ Goes(Slide(Append(w, exact)), m.plain, m.tokens, p + 1, v)
    <3> HIDE DEF w, m
    <3> QED BY <1>1, <1>4, <1>5, <1>10, GoesOn
  <2>2. s = exact
    BY <1>10, <2>1
  <2> HIDE DEF s, exact
  <2> QED BY <2>1, <2>2
<1>11. q = [r EXCEPT !.pos = p + 1, !.hist = IF r.flate = None THEN u ELSE r.hist]
  <2> HIDE DEF u
  <2> QED BY <1>1, <1>2 DEF DeflateTypes
<1>12. /\ DOMAIN reading' = Dirs /\ DOMAIN wrong' = Dirs /\ DOMAIN skipped' = Dirs
       /\ \A d \in Dirs \ {e} : /\ reading'[d] = reading[d] /\ wrong'[d] = wrong[d] /\ window'[d] = window[d]
                                /\ wire'[d] = wire[d] /\ skipped'[d] = skipped[d]
       /\ wire' \in [Dirs -> Seq(Messages)]
  BY <1>1, <1>2 DEF DeflateTypes
<1>13. /\ window' \in [Dirs -> Seq(Symbols)]
       /\ window'[e] = IF m.rsv1 /\ wmode[e] = "takeover" THEN Slide(Append(window[e], s)) ELSE window[e]
  <2> HIDE DEF s
  <2>1. window[e] \in Seq(Symbols) /\ window \in [Dirs -> Seq(Symbols)]
    BY <1>1 DEF DeflateTypes
  <2>2. Slide(Append(window[e], s)) \in Seq(Symbols)
    BY <1>8, <2>1, SlideIs
  <2> QED BY <1>2, <1>7, <2>1, <2>2
<1>14. wrong'[e] = (s # exact)
  <2> HIDE DEF s, m, p
  <2> QED BY <1>1, <1>2 DEF DeflateTypes
<1> HIDE DEF q, u, s, w, exact
<1>15. /\ q \in Readings /\ q # None /\ q.msg = m /\ q.pos = p + 1 /\ q.ended = r.ended /\ q.flate = r.flate
       /\ q.hist = IF r.flate = None THEN u ELSE r.hist
  <2>1. q \in Readings /\ q.msg = m /\ q.pos = p + 1 /\ q.ended = r.ended /\ q.flate = r.flate
        /\ q.hist = IF r.flate = None THEN u ELSE r.hist
    <3> DEFINE h == IF r.flate = None THEN u ELSE r.hist
               j == p + 1
    <3>1. h \in Seq(Symbols) /\ j \in Nat
      BY <1>4, <1>9
    <3>2. q = [r EXCEPT !.pos = j, !.hist = h]
      BY <1>11
    <3> HIDE DEF r, h, j
    <3>3. q \in Readings /\ q.msg = m /\ q.pos = j /\ q.ended = r.ended /\ q.flate = r.flate /\ q.hist = h
      BY <1>3, <3>1, <3>2 DEF Readings
    <3> QED BY <3>3 DEF h, j
  <2> QED BY <2>1, NoneAssumption
<1> HIDE DEF r
<1>16. p + 1 <= Len(m.plain)
  BY <1>1, <1>4, <1>5
<1> HIDE DEF p, m
<1>17. WireInv(e)'
  BY <1>1, WireRests DEF DirInv
<1>18. CASE Fresh(e, m.rsv1)
  <2> DEFINE f == r.flate
  <2>1. f \in Decompressors /\ f # None /\ f \in Flates /\ w = dict[f]
    BY <1>3, <1>4, <1>18 DEF w
  <2>2. PICK v \in Seq(Symbols) : Goes(w, m.plain, m.tokens, p, v)
    BY <1>3, <1>18, <2>1
  <2>3. m.rsv1 /\ wmode[e] = "fresh"
    BY <1>18 DEF Fresh
  <2>4. s = exact /\ Goes(u, m.plain, m.tokens, p + 1, v)
    BY <1>10, <2>2, <2>3
  <2>5. dict' \in [Flates -> Seq(Symbols)] /\ dict'[f] = u /\ \A g \in Flates \ {f} : dict'[g] = dict[g]
    BY <1>1, <1>2, <1>9, <2>1 DEF DeflateTypes
  <2>6. ReadInv(e)'
    <3>1. /\ wmode'[e] = "fresh" /\ q.flate \in Decompressors /\ q.pos <= Len(q.msg.plain)
          /\ Goes(dict'[q.flate], q.msg.plain, q.msg.tokens, q.pos, v)
          /\ Sendable(e, q.msg) /\ q.msg.rsv1 /\ wmode'[e] = wmode[e]
      BY <1>1, <1>3, <1>15, <1>16, <2>1, <2>3, <2>4, <2>5
    <3>2. v \in Seq(Symbols) /\ wmode'[e] # "takeover"
      BY <3>1
    <3> QED BY <1>15, <3>1, <3>2, Zenon DEF ReadInv, Sendable, Fresh, q
  <2>7. ChainInv(e)'
    BY <1>1, <2>3 DEF ChainInv
  <2>8. StepInv(e)'
    BY <1>14, <2>4 DEF StepInv
  <2>9. \A d \in Dirs : /\ writing[d] # None => writing[d].flate # f
                        /\ d # e /\ reading[d] # None => reading[d].flate # f
    <3>1. e \in Readers(f)
      BY <1>1 DEF Readers, r
    <3>2. Writers(f) \cup Readers(f) = {e} /\ Writers(f) = {}
      BY <2>1, <3>1, Sole
    <3> QED BY <3>2 DEF Writers, Readers
  <2> HIDE DEF f
  <2> QED BY <1>1, <1>12, <1>13, <1>17, <2>5, <2>6, <2>7, <2>8, <2>9, OnlyReader
<1>19. CASE ~ Fresh(e, m.rsv1)
  <2>1. r.flate = None /\ dict' = dict /\ w = r.hist
    BY <1>2, <1>3, <1>19 DEF w
  <2>2. ReadInv(e)'
    <3>1. q.msg.rsv1 /\ wmode'[e] = "takeover" => q.hist = window'[e]
      BY <1>1, <1>3, <1>13, <1>15, <2>1 DEF u
    <3>2. ~ (q.msg.rsv1 /\ wmode'[e] = "fresh") /\ q.flate = None
      BY <1>1, <1>15, <1>19, <2>1 DEF Fresh
    <3>3. Sendable(e, q.msg) /\ wmode'[e] = wmode[e] /\ q.pos <= Len(q.msg.plain)
      BY <1>1, <1>3, <1>15, <1>16
    <3> QED BY <1>15, <3>1, <3>2, <3>3, Zenon DEF ReadInv, Sendable, Fresh, q
  <2>3. ASSUME NEW kw \in [0..Len(wire[e]) -> Seq(Symbols)], wmode[e] = "takeover", Chained(e, kw)
        PROVE  s = exact /\ Chained(e, kw)'
    <3>1. Leads(window[e], m.rsv1, m.plain, m.tokens, p, kw[0])
      BY <1>1, <2>3, Zenon DEF Chained, r, m, p
    <3>2. s = exact /\ Leads(window'[e], m.rsv1, m.plain, m.tokens, p + 1, kw[0])
      <4>1. CASE m.rsv1
        <5>1. w = window[e] /\ window'[e] = u
          BY <1>3, <1>13, <2>1, <2>3, <4>1 DEF u
        <5>2. Goes(w, m.plain, m.tokens, p, kw[0])
          BY <3>1, <4>1, <5>1, Zenon DEF Leads
        <5>3. s = exact /\ Goes(u, m.plain, m.tokens, p + 1, kw[0])
          BY <1>10, <4>1, <5>2
        <5> QED BY <4>1, <5>1, <5>3, Zenon DEF Leads
      <4>2. CASE ~ m.rsv1
        <5>1. s = exact /\ window'[e] = window[e]
          BY <1>13, <4>2 DEF s, exact
        <5> QED BY <3>1, <4>2, <5>1, Zenon DEF Leads
      <4> QED BY <4>1, <4>2
    <3>3. Leads(window'[e], q.msg.rsv1, q.msg.plain, q.msg.tokens, q.pos, kw[0])
      BY <1>15, <3>2
    <3>4. wire'[e] = wire[e] /\ writing'[e] = writing[e] /\ kept'[e] = kept[e]
      BY <1>1
    <3>5. Chained(e, kw)'
      BY <1>15, <2>3, <3>3, <3>4, Zenon DEF Chained, q
    <3> QED BY <3>2, <3>5
  <2>4. ASSUME wmode[e] = "takeover", ~ skipped[e]
        PROVE  s = exact /\ \E kw \in [0..Len(wire[e]) -> Seq(Symbols)] : Chained(e, kw)'
    <3>1. PICK kw \in [0..Len(wire[e]) -> Seq(Symbols)] : Chained(e, kw)
      BY <1>1, <2>4, Zenon DEF DirInv, ChainInv
    <3> QED BY <2>3, <2>4, <3>1
  <2>5. ChainInv(e)'
    BY <1>1, <2>4, Zenon DEF ChainInv
  <2>6. StepInv(e)'
    <3>1. ASSUME ~ m.rsv1 PROVE s = exact
      BY <3>1 DEF s, exact
    <3>2. m.rsv1 => wmode[e] = "takeover"
      BY <1>7, <1>19 DEF Compressing, Fresh
    <3>3. s # exact => wmode[e] = "takeover" /\ skipped[e]
      BY <2>4, <3>1, <3>2
    <3> QED BY <1>1, <1>14, <3>3 DEF StepInv
  <2>7. \A d \in Dirs : Writer(d)
    BY <1>1, <2>1 DEF Writer
  <2>8. \A d \in Dirs \ {e} : Reader(d)
    BY <1>1, <1>12, <2>1 DEF Reader
  <2>9. dict' \in [Flates -> Seq(Symbols)]
    BY <1>1, <2>1 DEF DeflateTypes
  <2> QED BY <1>1, <1>12, <1>13, <1>17, <2>2, <2>5, <2>6, <2>7, <2>8, <2>9, OnlyReaderQuiet
<1> QED BY <1>18, <1>19

(* Only prepared messages change.                                          *)
LEMMA OnlySend ==
    ASSUME DeflateInv, NEW e \in Dirs, UNCHANGED <<mvars, writing, kept, wire, rvars>>,
           \A d \in Dirs : Writer(d) /\ Reader(d),
           \A d \in Dirs \ {e} : send'[d] = send[d],
           SendInv(e)', \A k \in Keys : FrameInv(k)',
           dict' \in [Flates -> Seq(Symbols)], DOMAIN send' = Dirs, DOMAIN frames' = Keys
    PROVE  DeflateInv'
<1>1. /\ UNCHANGED <<wmode, rmode, writing, kept, wire, reading, window, wrong, skipped>>
      /\ DeflateTypes /\ (\A d \in Dirs : DirInv(d))
  BY DEF mvars, rvars, DeflateInv
<1>2. DeflateTypes'
  BY <1>1 DEF DeflateTypes
<1>3. ASSUME NEW d \in Dirs, d # e PROVE DirInv(d)'
  BY <1>1, <1>3, DirRests
<1>4. DirInv(e)'
  <2>1. WriteInv(e)' /\ ReadInv(e)' /\ WireInv(e)' /\ ChainInv(e)'
    BY <1>1, WriterRests, ReaderRests, WireRests, ChainRests DEF DirInv
  <2>2. StepInv(e)'
    BY <1>1 DEF DirInv, StepInv
  <2> QED BY <2>1, <2>2 DEF DirInv
<1> QED BY <1>2, <1>3, <1>4 DEF DeflateInv

LEMMA WritePreparedSteps ==
    ASSUME DeflateInv, NEW e \in Dirs, WritePrepared(e)
    PROVE  DeflateInv'
<1>1. /\ DeflateTypes /\ writing[e] = None /\ \A k \in Keys : FrameInv(k)
      /\ UNCHANGED <<mvars, writing, kept, wire, rvars, dict, frames>>
      /\ UNCHANGED <<wmode, reading, window>>
  BY DEF WritePrepared, DeflateInv, mvars, rvars
<1>2. PICK compress \in MayCompress(e) :
         /\ ~ (wmode[e] = "takeover" /\ compress)
         /\ LET k == [isServer |-> e \in Servers, compress |-> compress]
            IN  send' = [send EXCEPT ![e] = [key |-> k, fills |-> frames[k] = None /\ ~ Filling(k)]]
  BY DEF WritePrepared
<1> DEFINE k == [isServer |-> e \in Servers, compress |-> compress]
           fills == frames[k] = None /\ ~ Filling(k)
           s == [key |-> k, fills |-> fills]
<1>3. compress \in BOOLEAN /\ (compress => wmode[e] = "fresh")
  <2>1. wmode[e] \in Compressing
    BY <1>1 DEF DeflateTypes
  <2> QED BY <1>2, <2>1 DEF MayCompress, Compressing
<1>4. k \in Keys /\ k.isServer = (e \in Servers) /\ k.compress = compress
  <2>1. (e \in Servers) \in BOOLEAN
    OBVIOUS
  <2> QED BY <1>3, <2>1 DEF Keys
<1>5. fills \in BOOLEAN
  OBVIOUS
<1>6. send' = [send EXCEPT ![e] = s]
  BY <1>2
<1> HIDE DEF k, fills
<1>7. s \in [key : Keys, fills : BOOLEAN] /\ s.key = k
  BY <1>4, <1>5
<1> HIDE DEF s
<1>8. send'[e] = s /\ DOMAIN send' = Dirs /\ \A d \in Dirs \ {e} : send'[d] = send[d]
  BY <1>1, <1>6 DEF DeflateTypes
<1>9. SendInv(e)'
  <2>1. writing'[e] = None /\ wmode'[e] = wmode[e]
    BY <1>1
  <2> QED BY <1>3, <1>4, <1>7, <1>8, <2>1 DEF SendInv
<1>10. \A d \in Dirs : Writer(d) /\ Reader(d)
  BY <1>1 DEF Writer, Reader
<1>11. \A q \in Keys : FrameInv(q)'
  BY <1>1, Zenon DEF FrameInv
<1>12. dict' \in [Flates -> Seq(Symbols)] /\ DOMAIN frames' = Keys
  BY <1>1 DEF DeflateTypes
<1> QED BY <1>1, <1>8, <1>9, <1>10, <1>11, <1>12, OnlySend

LEMMA PreparedIs == Prepared \in Payloads /\ Prepared \in Seq(Symbols)
<1>1. \E p \in Payloads : \A q \in Payloads : Len(q) <= Len(p)
  BY PayloadAssumption
<1>2. Prepared \in Payloads
  BY <1>1, Zenon DEF Prepared
<1> QED BY <1>2, PayloadAssumption

LEMMA FillFrameSteps ==
    ASSUME DeflateInv, PoolInv, NEW e \in Dirs, FillFrame(e)
    PROVE  DeflateInv'
<1>0. PICK k : k = send[e].key
  OBVIOUS
<1> DEFINE c == Compress(<<>>, Prepared)
           m == Message(Prepared, k.compress, ~ k.isServer, c.out)
<1>1. /\ DeflateTypes /\ DirInv(e) /\ send[e] # None /\ \A q \in Keys : FrameInv(q)
      /\ UNCHANGED <<mvars, writing, kept, wire, rvars>>
      /\ UNCHANGED <<wmode, reading, window>>
      /\ frames' = [frames EXCEPT ![k] = m] /\ send' = [send EXCEPT ![e].fills = FALSE]
  BY <1>0 DEF FillFrame, DeflateInv, mvars, wvars, rvars
<1>2. /\ send[e] \in [key : Keys, fills : BOOLEAN] /\ k.isServer = (e \in Servers) /\ (k.compress => wmode[e] = "fresh")
      /\ writing[e] = None
  BY <1>0, <1>1 DEF DirInv, SendInv
<1>3. k \in Keys /\ k.compress \in BOOLEAN /\ k.isServer \in BOOLEAN
  BY <1>0, <1>2 DEF Keys
<1>4. <<>> \in Seq(Symbols) /\ Prepared \in Seq(Symbols)
  BY PreparedIs
<1>5. c.w \in Seq(Symbols) /\ c.out \in Seq(Tokens) /\ Goes(<<>>, Prepared, c.out, 0, c.w)
  BY <1>4, CompressGoes
<1> HIDE DEF c
<1>6. m.plain = Prepared /\ m.rsv1 = k.compress /\ m.masked = (~ k.isServer) /\ (k.compress => m.tokens = c.out)
  BY DEF Message
<1>7. m \in Messages
  <2>1. (IF k.compress THEN c.out ELSE <<>>) \in Seq(Tokens) /\ (~ k.isServer) \in BOOLEAN
    <3>1. <<>> \in Seq(Tokens)
      OBVIOUS
    <3> QED BY <1>5, <3>1
  <2> QED BY <1>3, <1>4, <2>1 DEF Message, Messages
<1> HIDE DEF m
<1>8. m.rsv1 => Len(m.tokens) = Len(m.plain) /\ Standalone(m)
  <2>1. Len(c.out) = Len(Prepared)
    BY <1>5, Zenon DEF Goes
  <2>2. m.rsv1 => m.tokens = c.out
    BY <1>6
  <2> QED BY <1>5, <1>6, <2>1, <2>2, Zenon DEF Standalone
<1>9. DOMAIN frames' = Keys /\ frames'[k] = m /\ \A q \in Keys \ {k} : frames'[q] = frames[q]
  <2> QED BY <1>1, <1>3 DEF DeflateTypes
<1>10. \A q \in Keys : FrameInv(q)'
  <2>1. FrameInv(k)'
    BY <1>6, <1>7, <1>8, <1>9, Zenon DEF FrameInv
  <2>2. ASSUME NEW q \in Keys, q # k PROVE FrameInv(q)'
    <3>1. frames'[q] = frames[q] /\ FrameInv(q)
      BY <1>1, <1>9, <2>2
    <3> QED BY <3>1, Zenon DEF FrameInv
  <2> QED BY <2>1, <2>2
<1>11. SendInv(e)' /\ DOMAIN send' = Dirs /\ \A d \in Dirs \ {e} : send'[d] = send[d]
  <2>1. send'[e] = [send[e] EXCEPT !.fills = FALSE]
    BY <1>1 DEF DeflateTypes
  <2>2. send'[e] \in [key : Keys, fills : BOOLEAN] /\ send'[e].key = k
    BY <1>0, <1>2, <2>1
  <2>3. wmode'[e] = wmode[e] /\ writing'[e] = writing[e]
    BY <1>1
  <2>4. SendInv(e)'
    BY <1>2, <2>2, <2>3, Zenon DEF SendInv
  <2> QED BY <1>1, <2>4 DEF DeflateTypes
<1>12. CASE dict' = dict
  <2>1. \A d \in Dirs : Writer(d) /\ Reader(d)
    BY <1>1, <1>12 DEF Writer, Reader
  <2>2. dict' \in [Flates -> Seq(Symbols)]
    BY <1>1, <1>12 DEF DeflateTypes
  <2> QED BY <1>1, <1>9, <1>10, <1>11, <2>1, <2>2, OnlySend
<1>13. ASSUME NEW f \in Compressors, pool[f] > 0 \/ Unused(f), dict' = [dict EXCEPT ![f] = c.w]
       PROVE  DeflateInv'
  <2>1. f \in Flates
    BY DEF Flates
  <2>2. dict' \in [Flates -> Seq(Symbols)] /\ \A g \in Flates \ {f} : dict'[g] = dict[g]
    BY <1>1, <1>5, <1>13, <2>1 DEF DeflateTypes
  <2>3. \A d \in Dirs : /\ writing[d] # None => writing[d].flate # f
                        /\ reading[d] # None => reading[d].flate # f
    BY <1>13, <2>1, NotHeld
  <2>4. \A d \in Dirs : Writer(d) /\ Reader(d)
    BY <1>1, <2>2, <2>3 DEF Writer, Reader
  <2> QED BY <1>1, <1>9, <1>10, <1>11, <2>2, <2>4, OnlySend
<1>14. dict' = dict \/ \E f \in Compressors : (pool[f] > 0 \/ Unused(f)) /\ dict' = [dict EXCEPT ![f] = c.w]
  BY <1>0 DEF FillFrame, c
<1> QED BY <1>12, <1>13, <1>14

(* Before the connection is made there is nothing in either direction.     *)
Empty ==
    \A d \in Dirs : /\ writing[d] = None /\ reading[d] = None /\ send[d] = None
                    /\ wire[d] = <<>> /\ kept[d] = <<>> /\ window[d] = <<>> /\ wrong[d] = FALSE

WindowInv == DeflateInv /\ (~ Connected => Empty)

LEMMA EmptyIsRight ==
    DeflateTypes /\ Empty /\ (\A k \in Keys : FrameInv(k)) => DeflateInv
<1> SUFFICES ASSUME DeflateTypes, Empty, NEW d \in Dirs PROVE DirInv(d)
  BY DEF DeflateInv
<1>1. /\ writing[d] = None /\ reading[d] = None /\ send[d] = None
      /\ wire[d] = <<>> /\ kept[d] = <<>> /\ window[d] = <<>> /\ wrong[d] = FALSE
  BY DEF Empty
<1>2. WriteInv(d) /\ ReadInv(d) /\ SendInv(d) /\ StepInv(d)
  BY <1>1 DEF WriteInv, ReadInv, SendInv, StepInv
<1>3. WireInv(d)
  BY <1>1 DEF WireInv
<1>4. ChainInv(d)
  <2> DEFINE kw == [i \in 0..0 |-> <<>>]
  <2>1. Len(wire[d]) = 0 /\ \A i \in 1..0 : FALSE
    BY <1>1
  <2>2. kw \in [0..0 -> Seq(Symbols)] /\ kw[0] = <<>>
    <3>1. <<>> \in Seq(Symbols)
      OBVIOUS
    <3> QED BY <3>1
  <2> HIDE DEF kw
  <2>3. Chained(d, kw)
    BY <1>1, <2>1, <2>2 DEF Chained
  <2> QED BY <2>1, <2>2, <2>3 DEF ChainInv
<1> QED BY <1>2, <1>3, <1>4 DEF DirInv

LEMMA WindowInit == Init => WindowInv
<1> SUFFICES ASSUME Init PROVE WindowInv
  OBVIOUS
<1>1. /\ wmode = [d \in Dirs |-> "off"] /\ rmode = [d \in Dirs |-> "off"]
      /\ writing = [d \in Dirs |-> None] /\ reading = [d \in Dirs |-> None]
      /\ kept = [d \in Dirs |-> <<>>] /\ window = [d \in Dirs |-> <<>>]
      /\ wire = [d \in Dirs |-> <<>>]
      /\ wrong = [d \in Dirs |-> FALSE] /\ skipped = [d \in Dirs |-> FALSE]
      /\ dict = [f \in Flates |-> <<>>]
      /\ frames = [k \in Keys |-> IF k = PlainKey THEN Message(Prepared, FALSE, FALSE, <<>>) ELSE None]
      /\ send = [d \in Dirs |-> None]
  BY DEF Init, DeflateInit
<1>2. Empty
  BY <1>1 DEF Empty
<1>3. DeflateTypes
  <2>1. <<>> \in Seq(Symbols) /\ <<>> \in Seq(Messages)
    OBVIOUS
  <2> QED BY <1>1, <2>1 DEF DeflateTypes, Compressing
<1>4. ASSUME NEW k \in Keys PROVE FrameInv(k)
  <2>1. CASE k = PlainKey
    <3> DEFINE m == Message(Prepared, FALSE, FALSE, <<>>)
    <3>1. <<>> \in Seq(Tokens) /\ Prepared \in Seq(Symbols)
      BY PreparedIs
    <3>2. m \in Messages /\ m.masked = FALSE /\ m.rsv1 = FALSE
      BY <3>1 DEF Message, Messages
    <3>3. frames[k] = m /\ k.isServer = TRUE /\ k.compress = FALSE
      BY <1>1, <2>1 DEF PlainKey
    <3> HIDE DEF m
    <3> QED BY <3>2, <3>3 DEF FrameInv
  <2>2. CASE k # PlainKey
    BY <1>1, <2>2 DEF FrameInv
  <2> QED BY <2>1, <2>2
<1> QED BY <1>2, <1>3, <1>4, EmptyIsRight DEF WindowInv

LEMMA DeflateRests ==
    ASSUME DeflateInv, UNCHANGED zvars
    PROVE  DeflateInv'
<1>1. /\ UNCHANGED <<wmode, rmode, writing, kept, wire, reading, window, wrong, skipped, dict, frames, send>>
      /\ DeflateTypes /\ (\A d \in Dirs : DirInv(d)) /\ (\A k \in Keys : FrameInv(k))
  BY DEF zvars, mvars, wvars, rvars, pvars, DeflateInv
<1>2. DeflateTypes'
  BY <1>1 DEF DeflateTypes
<1>3. ASSUME NEW d \in Dirs PROVE DirInv(d)'
  <2>1. Writer(d) /\ Reader(d)
    BY <1>1 DEF Writer, Reader
  <2> QED BY <1>1, <2>1, DirRests
<1>4. \A k \in Keys : FrameInv(k)'
  BY <1>1, Zenon DEF FrameInv
<1> QED BY <1>2, <1>3, <1>4 DEF DeflateInv

(* Both ends begin with what the handshake has made them agree on.         *)
LEMMA ConnectSteps ==
    ASSUME WindowInv, HInv, Connect
    PROVE  WindowInv'
<1> DEFINE c == cparams.deflate
           s == sparams.deflate
<1>1. /\ cres = "ok" /\ spc = "ok" /\ conf.peer = "none" /\ cres' = "connected"
      /\ wmode' = [d \in Dirs |-> IF d \in Servers THEN Mode(s, s.write) ELSE Mode(c, c.write)]
      /\ rmode' = [d \in Dirs |-> IF d \in Servers THEN Mode(c, c.read) ELSE Mode(s, s.read)]
      /\ UNCHANGED <<writing, kept, wire, reading, window, wrong, skipped, dict, frames, send>>
  BY DEF Connect, wvars, rvars, pvars
<1>2. DeflateTypes /\ Empty /\ \A k \in Keys : FrameInv(k)
  BY <1>1 DEF WindowInv, DeflateInv, Connected
<1>3. c = Mirror(s)
  BY <1>1, HInvAgrees DEF Agreed
<1>4. c.compress = s.compress /\ c.write = s.read /\ c.read = s.write
  BY <1>3 DEF Mirror
<1> HIDE DEF c, s
<1>5. wmode' \in [Dirs -> Compressing] /\ rmode' = wmode'
  <2>1. Mode(s, s.write) = Mode(c, c.read) /\ Mode(c, c.write) = Mode(s, s.read)
    BY <1>4 DEF Mode
  <2>2. Mode(s, s.write) \in Compressing /\ Mode(c, c.write) \in Compressing
    BY DEF Mode, Compressing
  <2> QED BY <1>1, <2>1, <2>2
<1>6. DeflateTypes'
  BY <1>1, <1>2, <1>5 DEF DeflateTypes
<1>7. Empty' /\ \A k \in Keys : FrameInv(k)'
  BY <1>1, <1>2, Zenon DEF Empty, FrameInv
<1>8. DeflateTypes' /\ Empty' /\ (\A k \in Keys : FrameInv(k))' => DeflateInv'
  BY EmptyIsRight, PTL
<1> QED BY <1>6, <1>7, <1>8 DEF WindowInv

LEMMA WindowStep ==
    ASSUME WindowInv, PoolInv, HInv, [Next]_vars
    PROVE  WindowInv'
<1>1. CASE UNCHANGED vars \/ (~ Connected /\ UNCHANGED zvars)
  <2>1. UNCHANGED zvars /\ DeflateInv /\ (~ Connected' => ~ Connected)
    BY <1>1 DEF vars, hvars, cvars, Connected, WindowInv
  <2>2. DeflateInv'
    BY <2>1, DeflateRests
  <2>3. ~ Connected' => Empty'
    BY <2>1 DEF WindowInv, Empty, zvars, wvars, rvars, pvars
  <2> QED BY <2>2, <2>3 DEF WindowInv
<1>2. CASE Connected /\ DeflateNext /\ UNCHANGED hvars
  <2>1. Connected' /\ DeflateInv
    BY <1>2 DEF hvars, cvars, Connected, WindowInv
  <2>2. ASSUME NEW d \in Dirs,
               \/ NextWriter(d) \/ CloseWriter(d) \/ \E data \in Payloads : Write(d, data)
               \/ NextReader(d) \/ Read(d) \/ ReadEnd(d)
               \/ WritePrepared(d) \/ FillFrame(d) \/ SendFrame(d)
        PROVE  DeflateInv'
    BY <2>1, <2>2, NextWriterSteps, CloseWriterSteps, WriteSteps, NextReaderSteps, ReadSteps, ReadEndSteps,
       WritePreparedSteps, FillFrameSteps, SendFrameSteps
  <2>3. DeflateInv'
    BY <1>2, <2>2, Zenon DEF DeflateNext
  <2> QED BY <2>1, <2>3 DEF WindowInv
<1> QED BY <1>1, <1>2, ConnectSteps DEF Next

(* Whatever the two ends agree on, however their messages interleave,      *)
(* compressed or not and prepared or not, with compressors from the pools  *)
(* or windows that are kept: what is read is what was written, as long as  *)
(* a reader that takes the context over skips no compressed message        *)
(* (compression.go:269-286, 397, conn.go:1378, prepared.go:73).            *)
THEOREM WindowsStayInStep == Spec => []WindowsInStep
<1>1. Init => WindowInv
  BY WindowInit
<1>2. WindowInv => WindowsInStep
  BY DEF WindowInv, DeflateInv, DeflateTypes, DirInv, StepInv, WindowsInStep
<1> QED BY <1>1, <1>2, WindowStep, HandshakeInvariant, PoolInvariant, PTL DEF Spec
=============================================================================
