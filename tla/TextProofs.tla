------------------------------- MODULE TextProofs -------------------------------
(***************************************************************************)
(* Lemmas about the folds that the models are written with, for sequences  *)
(* of any length.  A fold is a choice of a function on the subsets of its  *)
(* domain: that function exists (TableExists), along the initial segments  *)
(* it is the run of the fold (TableRuns), and a run over one element more  *)
(* goes on from where the run before ended (RunsExtend).  What a recursion *)
(* over data computes then follows from the least number for which it      *)
(* would not (InductNat, InductSeq).                                       *)
(***************************************************************************)
EXTENDS Text, SequenceTheorems, WellFoundedInduction, TLAPS

(* A set of numbers has a least one.                                       *)
LEMMA LeastNat ==
    ASSUME NEW T, T \subseteq Nat, T # {}
    PROVE  \E x \in T : \A y \in T : x <= y
<1> DEFINE R == OpToRel(<, Nat)
<1>1. IsWellFoundedOn(R, Nat)
  BY NatLessThanWellFounded
<1>2. \A x, y \in Nat : <<y, x>> \in R <=> y < x
  BY DEF OpToRel
<1> HIDE DEF R
<1>3. \E x \in T : \A y \in T : ~(<<y, x>> \in R)
  BY <1>1, WFMin
<1>4. PICK x \in T : \A y \in T : ~(<<y, x>> \in R)
  BY <1>3
<1>5. ASSUME NEW y \in T PROVE x <= y
  <2>1. ~(<<y, x>> \in R) /\ x \in Nat /\ y \in Nat
    BY <1>4
  <2> QED BY <1>2, <2>1
<1> QED BY <1>5

LEMMA InductNat ==
    ASSUME NEW T, 0 \in T, \A n \in Nat : n \in T => n + 1 \in T
    PROVE  \A n \in Nat : n \in T
<1> SUFFICES ASSUME Nat \ T # {} PROVE FALSE
  OBVIOUS
<1>1. PICK x \in Nat \ T : \A y \in Nat \ T : x <= y
  BY LeastNat
<1> QED BY <1>1

LEMMA InductSeq ==
    ASSUME NEW S, NEW T, <<>> \in T,
           \A q \in Seq(S), x \in S : q \in T => Append(q, x) \in T
    PROVE  Seq(S) \subseteq T
<1> DEFINE N == {n \in Nat : \A q \in Seq(S) : Len(q) = n => q \in T}
<1>1. 0 \in N
  BY EmptySeq
<1>2. ASSUME NEW n \in Nat, n \in N PROVE n + 1 \in N
  <2> SUFFICES ASSUME NEW q \in Seq(S), Len(q) = n + 1 PROVE q \in T
    OBVIOUS
  <2>1. PICK p \in Seq(S), x \in S : q = Append(p, x)
    BY SequenceEmptyOrAppend
  <2>2. Len(p) = n
    BY <2>1, AppendProperties
  <2> QED BY <1>2, <2>1, <2>2
<1>3. \A n \in Nat : n \in N
  <2> HIDE DEF N
  <2> QED BY <1>1, <1>2, InductNat
<1> QED BY <1>3, LenProperties

LEMMA MaxIs ==
    ASSUME NEW s, NEW m \in s, s \subseteq Nat, \A y \in s : y <= m
    PROVE  Max(s) = m
<1>1. \A y \in s : m >= y
  OBVIOUS
<1>2. Max(s) \in s /\ \A y \in s : Max(s) >= y
  BY <1>1, Zenon DEF Max
<1>3. Max(s) \in Nat /\ m \in Nat /\ Max(s) >= m /\ Max(s) <= m
  BY <1>2
<1> QED BY <1>3

LEMMA MaxOfSome ==
    ASSUME NEW n \in Nat, NEW s, s \subseteq 1..n, s # {}
    PROVE  Max(s) \in s
<1> DEFINE T == {n - x : x \in s}
<1>1. T \subseteq Nat /\ T # {}
  <2>1. \A x \in s : n - x \in Nat
    OBVIOUS
  <2> QED BY <2>1
<1>2. PICK y \in T : \A z \in T : y <= z
  <2> HIDE DEF T
  <2> QED BY <1>1, LeastNat
<1>3. PICK x \in s : y = n - x
  BY <1>2
<1>4. ASSUME NEW z \in s PROVE z <= x
  <2>1. n - x <= n - z
    BY <1>2, <1>3
  <2> QED BY <2>1
<1>5. s \subseteq Nat
  OBVIOUS
<1>6. Max(s) = x
  BY <1>4, <1>5, MaxIs
<1> QED BY <1>6

(* What MapThenFoldSet looks up exists: the table of all the subsets.      *)
Table(h, k, base, d) ==
    \A s \in SUBSET (1..k) : h[s] = IF s = {} THEN base ELSE d[<<h[s \ {Max(s)}], Max(s)>>]

LEMMA TableExists ==
    ASSUME NEW n \in Nat, NEW B, NEW base \in B, NEW d \in [B \X (1..n) -> B]
    PROVE  \E h \in [SUBSET (1..n) -> B] : Table(h, n, base, d)
<1> DEFINE P(k) == k <= n => \E h \in [SUBSET (1..k) -> B] : Table(h, k, base, d)
           N    == {k \in Nat : P(k)}
<1>1. P(0)
  <2> DEFINE h == [s \in SUBSET (1..0) |-> base]
  <2>1. \A s \in SUBSET (1..0) : s = {}
    OBVIOUS
  <2>2. h \in [SUBSET (1..0) -> B] /\ Table(h, 0, base, d)
    BY <2>1 DEF Table
  <2> QED BY <2>2
<1>2. ASSUME NEW k \in Nat, P(k) PROVE P(k + 1)
  <2> SUFFICES ASSUME k + 1 <= n PROVE \E h \in [SUBSET (1 .. k + 1) -> B] : Table(h, k + 1, base, d)
    OBVIOUS
  <2>1. k <= n
    OBVIOUS
  <2>2. PICK g \in [SUBSET (1..k) -> B] : Table(g, k, base, d)
    BY <1>2, <2>1
  <2> DEFINE h == [s \in SUBSET (1 .. k + 1) |->
                      IF k + 1 \in s THEN d[<<g[s \ {k + 1}], k + 1>>] ELSE g[s]]
  <2>3. \A s \in SUBSET (1 .. k + 1) : s \ {k + 1} \in SUBSET (1..k)
    OBVIOUS
  <2>4. \A s \in SUBSET (1 .. k + 1) : k + 1 \notin s => s \in SUBSET (1..k)
    OBVIOUS
  <2>5. h \in [SUBSET (1 .. k + 1) -> B]
    BY <2>3, <2>4
  <2>6. ASSUME NEW s \in SUBSET (1 .. k + 1)
        PROVE  h[s] = IF s = {} THEN base ELSE d[<<h[s \ {Max(s)}], Max(s)>>]
    <3>1. CASE k + 1 \in s
      <4>1. Max(s) = k + 1
        <5>1. s \subseteq Nat /\ \A y \in s : y <= k + 1
          OBVIOUS
        <5>2. k + 1 \in s
          BY <3>1
        <5> QED BY <5>1, <5>2, MaxIs
      <4>2. s \ {k + 1} \in SUBSET (1 .. k + 1) /\ k + 1 \notin s \ {k + 1}
        OBVIOUS
      <4>3. h[s \ {k + 1}] = g[s \ {k + 1}]
        BY <4>2
      <4>4. h[s] = d[<<g[s \ {k + 1}], k + 1>>]
        BY <3>1
      <4> HIDE DEF h
      <4> QED BY <3>1, <4>1, <4>3, <4>4
    <3>2. CASE k + 1 \notin s
      <4>1. s \in SUBSET (1..k) /\ h[s] = g[s]
        BY <2>4, <3>2
      <4>2. g[s] = IF s = {} THEN base ELSE d[<<g[s \ {Max(s)}], Max(s)>>]
        BY <2>2, <4>1 DEF Table
      <4>3. h[s \ {Max(s)}] = g[s \ {Max(s)}]
        <5>1. s \ {Max(s)} \in SUBSET (1 .. k + 1) /\ k + 1 \notin s \ {Max(s)}
          BY <3>2
        <5> HIDE DEF Table
        <5> QED BY <5>1
      <4> HIDE DEF h
      <4> QED BY <4>1, <4>2, <4>3
    <3> QED BY <3>1, <3>2
  <2> HIDE DEF h
  <2>7. Table(h, k + 1, base, d)
    BY <2>6 DEF Table
  <2> QED BY <2>5, <2>7
<1> HIDE DEF P
<1>3. \A k \in Nat : k \in N
  <2>1. 0 \in N /\ \A k \in Nat : k \in N => k + 1 \in N
    BY <1>1, <1>2
  <2> HIDE DEF N
  <2> QED BY <2>1, InductNat
<1>4. P(n)
  <2>1. n \in N
    BY <1>3
  <2> QED BY <2>1
<1>5. n <= n
  OBVIOUS
<1> QED BY <1>4, <1>5 DEF P

(* Looked up along the initial segments, the table is the run of the fold. *)
LEMMA Segments ==
    ASSUME NEW n \in Nat, NEW k \in 0 .. n - 1
    PROVE  /\ 1 .. k + 1 \in SUBSET (1..n) /\ 1 .. k + 1 # {}
           /\ Max(1 .. k + 1) = k + 1
           /\ (1 .. k + 1) \ {k + 1} = 1..k
<1> DEFINE s == 1 .. k + 1
<1>1. s \subseteq Nat /\ k + 1 \in s
  OBVIOUS
<1>2. \A y \in s : y <= k + 1
  OBVIOUS
<1>3. Max(s) = k + 1
  <2> HIDE DEF s
  <2> QED BY <1>1, <1>2, MaxIs
<1>4. s \in SUBSET (1..n) /\ s \ {k + 1} = 1..k
  OBVIOUS
<1> QED BY <1>1, <1>3, <1>4

Runs(run, n, B, base, d) ==
    /\ run \in [0..n -> B]
    /\ run[0] = base
    /\ \A k \in 0 .. n - 1 : run[k + 1] = d[<<run[k], k + 1>>]

Iterates(it, n, B, base, d) ==
    /\ n \in Nat /\ base \in B /\ d \in [B \X (1..n) -> B]
    /\ it[{}] = base
    /\ \A s \in SUBSET (1..n) : s # {} /\ it[s \ {Max(s)}] \in B =>
                                     it[s] = d[<<it[s \ {Max(s)}], Max(s)>>]

LEMMA TableRuns ==
    ASSUME NEW n \in Nat, NEW B, NEW base, NEW d, NEW it, Iterates(it, n, B, base, d)
    PROVE  \E run : Runs(run, n, B, base, d) /\ run[n] = it[1..n]
<1>0. n \in Nat /\ base \in B /\ d \in [B \X (1..n) -> B]
  BY DEF Iterates
<1> DEFINE N == {k \in Nat : k <= n => it[1..k] \in B}
<1>1. it[1..0] = base
  <2>1. 1..0 = {}
    BY <1>0
  <2> QED BY <2>1 DEF Iterates
<1>2. ASSUME NEW k \in 0 .. n - 1, it[1..k] \in B
      PROVE  it[1 .. k + 1] = d[<<it[1..k], k + 1>>]
  <2> DEFINE s == 1 .. k + 1
  <2>1. s \in SUBSET (1..n) /\ s # {} /\ Max(s) = k + 1 /\ s \ {k + 1} = 1..k
    BY <1>0, Segments
  <2> HIDE DEF s
  <2>2. it[s] = d[<<it[s \ {Max(s)}], Max(s)>>]
    BY <1>2, <2>1 DEF Iterates
  <2> QED BY <2>1, <2>2 DEF s
<1>3. \A k \in Nat : k \in N
  <2>1. 0 \in N
    BY <1>0, <1>1
  <2>2. ASSUME NEW k \in Nat, k \in N PROVE k + 1 \in N
    <3> SUFFICES ASSUME k + 1 <= n PROVE it[1 .. k + 1] \in B
      BY <1>0
    <3>1. k \in 0 .. n - 1 /\ k + 1 \in 1..n /\ k <= n
      BY <1>0
    <3>2. it[1..k] \in B
      BY <2>2, <3>1
    <3>3. it[1 .. k + 1] = d[<<it[1..k], k + 1>>]
      BY <1>2, <3>1, <3>2
    <3> QED BY <1>0, <3>1, <3>2, <3>3
  <2> HIDE DEF N
  <2> QED BY <2>1, <2>2, InductNat
<1> DEFINE run == [k \in 0..n |-> it[1..k]]
<1>4. \A k \in 0..n : it[1..k] \in B
  BY <1>0, <1>3
<1>5. run \in [0..n -> B] /\ run[0] = base /\ run[n] = it[1..n]
  BY <1>0, <1>1, <1>4
<1>6. ASSUME NEW k \in 0 .. n - 1 PROVE run[k + 1] = d[<<run[k], k + 1>>]
  <2>1. k \in 0..n /\ k + 1 \in 0..n
    BY <1>0
  <2>2. it[1 .. k + 1] = d[<<it[1..k], k + 1>>]
    BY <1>2, <1>4, <2>1
  <2> QED BY <2>1, <2>2
<1> HIDE DEF run
<1> QED BY <1>5, <1>6 DEF Runs

(* A run over one element more goes on from where the run before ended.    *)
Extends(a, b, n, m, B, base, d, e) ==
    /\ n \in Nat /\ m = n + 1
    /\ Runs(a, n, B, base, d) /\ Runs(b, m, B, base, e)
    /\ \A v \in B, k \in 1..n : d[<<v, k>>] = e[<<v, k>>]

LEMMA RunsExtend ==
    ASSUME NEW n, NEW m, NEW B, NEW base, NEW d, NEW e, NEW a, NEW b, Extends(a, b, n, m, B, base, d, e)
    PROVE  a[n] \in B /\ b[m] = e[<<a[n], m>>]
<1>0. /\ n \in Nat /\ m = n + 1
      /\ Runs(a, n, B, base, d) /\ Runs(b, m, B, base, e)
      /\ \A v \in B, k \in 1..n : d[<<v, k>>] = e[<<v, k>>]
  BY DEF Extends
<1> DEFINE N == {k \in Nat : k <= n => a[k] = b[k]}
<1>1. \A k \in Nat : k \in N
  <2>1. 0 \in N
    BY <1>0 DEF Runs
  <2>2. ASSUME NEW k \in Nat, k \in N PROVE k + 1 \in N
    <3> SUFFICES ASSUME k + 1 <= n PROVE a[k + 1] = b[k + 1]
      BY <1>0
    <3>1. k \in 0 .. n - 1 /\ k \in 0 .. m - 1 /\ k \in 0..n /\ k + 1 \in 1..n /\ k <= n
      BY <1>0
    <3>2. a[k] = b[k] /\ a[k] \in B
      BY <1>0, <2>2, <3>1 DEF Runs
    <3>3. a[k + 1] = d[<<a[k], k + 1>>] /\ b[k + 1] = e[<<b[k], k + 1>>]
      BY <1>0, <3>1 DEF Runs
    <3> QED BY <1>0, <3>1, <3>2, <3>3
  <2> HIDE DEF N
  <2> QED BY <2>1, <2>2, InductNat
<1>2. n <= n /\ n \in 0 .. m - 1 /\ n \in 0..n
  BY <1>0
<1>3. a[n] = b[n]
  BY <1>1, <1>2
<1> QED BY <1>0, <1>2, <1>3 DEF Runs
(* A fold has a run.                                                       *)
LEMMA RunExists ==
    ASSUME NEW n \in Nat, NEW B, NEW base \in B, NEW d \in [B \X (1..n) -> B]
    PROVE  \E run : Runs(run, n, B, base, d)
<1>1. PICK h \in [SUBSET (1..n) -> B] : Table(h, n, base, d)
  BY TableExists
<1>2. {} \in SUBSET (1..n)
  OBVIOUS
<1>3. h[{}] = base
  BY <1>1, <1>2 DEF Table
<1>4. Iterates(h, n, B, base, d)
  BY <1>1, <1>3 DEF Iterates, Table
<1> QED BY <1>4, TableRuns

(* FlattenSeq puts sequences behind each other.                            *)
FlatStep(q, n, B) == [p \in B \X (1..n) |-> p[1] \o q[p[2]]]

LEMMA FlatRuns ==
    ASSUME NEW S, NEW q \in Seq(Seq(S)), NEW n, n = Len(q)
    PROVE  \E run : Runs(run, n, Seq(S), <<>>, FlatStep(q, n, Seq(S))) /\ run[n] = FlattenSeq(q)
<1> DEFINE B == Seq(S)
           d == FlatStep(q, n, B)
           Eq(f) == f = [i \in 1..n |-> IF i = 1 THEN q[i] ELSE f[i - 1] \o q[i]]
           flat  == CHOOSE f : Eq(f)
<1>1. n \in Nat /\ DOMAIN q = 1..n /\ (n = 0 => q = <<>>) /\ \A i \in 1..n : q[i] \in B
  <2>1. n \in Nat /\ DOMAIN q = 1..n /\ \A i \in 1..n : q[i] \in B
    BY LenProperties, ElementOfSeq
  <2>2. n = 0 => q = <<>>
    BY EmptySeq
  <2> QED BY <2>1, <2>2
<1>2. \A v, w \in B : v \o w \in B /\ <<>> \o w = w
  BY ConcatProperties, ConcatEmptySeq
<1>3. /\ d \in [B \X (1..n) -> B]
      /\ \A v \in B, i \in 1..n : d[<<v, i>>] = v \o q[i]
  <2> HIDE DEF B
  <2> QED BY <1>1, <1>2 DEF FlatStep
<1>4. <<>> \in B
  BY EmptySeq
<1> HIDE DEF d, B
<1>5. PICK run : Runs(run, n, B, <<>>, d)
  BY <1>1, <1>3, <1>4, RunExists
<1>6. /\ run[0] = <<>> /\ \A k \in 0..n : run[k] \in B
      /\ \A k \in 0 .. n - 1 : run[k + 1] = run[k] \o q[k + 1]
  <2>1. run \in [0..n -> B] /\ run[0] = <<>> /\ \A k \in 0 .. n - 1 : run[k + 1] = d[<<run[k], k + 1>>]
    BY <1>5 DEF Runs
  <2>2. ASSUME NEW k \in 0 .. n - 1 PROVE run[k + 1] = run[k] \o q[k + 1]
    <3>1. k \in 0..n /\ k + 1 \in 1..n
      BY <1>1
    <3> QED BY <1>3, <2>1, <3>1
  <2> QED BY <2>1, <2>2
<1> DEFINE f == [i \in 1..n |-> run[i]]
<1>7. Eq(f)
  <2> SUFFICES ASSUME NEW i \in 1..n
               PROVE  f[i] = IF i = 1 THEN q[i] ELSE f[i - 1] \o q[i]
    OBVIOUS
  <2>1. i - 1 \in 0 .. n - 1 /\ (i - 1) + 1 = i /\ (i = 1 => i - 1 = 0) /\ (i # 1 => i - 1 \in 1..n)
    BY <1>1
  <2>2. f[i] = run[i - 1] \o q[i]
    <3>1. f[i] = run[i]
      OBVIOUS
    <3>2. run[(i - 1) + 1] = run[i - 1] \o q[(i - 1) + 1]
      BY <1>6, <2>1
    <3> HIDE DEF f
    <3> QED BY <2>1, <3>1, <3>2
  <2>3. CASE i = 1
    <3>1. run[i - 1] = <<>>
      BY <1>6, <2>1, <2>3
    <3>2. <<>> \o q[i] = q[i]
      BY <1>1, <1>2
    <3> HIDE DEF f
    <3>3. f[i] = q[i]
      BY <2>2, <3>1, <3>2
    <3> QED BY <2>3, <3>3
  <2>4. CASE i # 1
    <3>1. f[i - 1] = run[i - 1]
      BY <2>1, <2>4
    <3> HIDE DEF f
    <3> QED BY <2>2, <2>4, <3>1
  <2> QED BY <2>3, <2>4
<1>8. Eq(flat)
  <2> HIDE DEF Eq
  <2> QED BY <1>7, Zenon
<1>9. n # 0 => FlattenSeq(q) = flat[n]
  BY DEF FlattenSeq
<1>10. \A k \in Nat : k \in 1..n => flat[k] = run[k]
  <2> DEFINE T == {k \in Nat : k \in 1..n => flat[k] = run[k]}
  <2>1. 0 \in T
    OBVIOUS
  <2>2. ASSUME NEW k \in Nat, k \in T PROVE k + 1 \in T
    <3> SUFFICES ASSUME k + 1 \in 1..n PROVE flat[k + 1] = run[k + 1]
      OBVIOUS
    <3>1. flat[k + 1] = IF k + 1 = 1 THEN q[k + 1] ELSE flat[k] \o q[k + 1]
      <4> HIDE DEF flat
      <4>1. (k + 1) - 1 = k
        OBVIOUS
      <4>2. flat[k + 1] = IF k + 1 = 1 THEN q[k + 1] ELSE flat[(k + 1) - 1] \o q[k + 1]
        BY <1>8
      <4> QED BY <4>1, <4>2
    <3>2. k \in 0 .. n - 1
      BY <1>1
    <3>3. run[k + 1] = run[k] \o q[k + 1]
      BY <1>6, <3>2
    <3> HIDE DEF flat
    <3>4. CASE k = 0
      <4>1. flat[k + 1] = q[k + 1]
        BY <3>1, <3>4
      <4>2. q[k + 1] \in B /\ run[k] = <<>>
        BY <1>1, <1>6, <3>4
      <4> QED BY <1>2, <3>3, <4>1, <4>2, Zenon
    <3>5. CASE k # 0
      <4>1. k \in 1..n /\ k + 1 # 1
        BY <1>1, <3>2, <3>5
      <4>2. flat[k] = run[k]
        BY <2>2, <4>1
      <4> QED BY <3>1, <3>3, <4>1, <4>2, Zenon
    <3> QED BY <3>4, <3>5
  <2>3. \A k \in Nat : k \in T
    <3> HIDE DEF T
    <3> QED BY <2>1, <2>2, InductNat
  <2> QED BY <2>3
<1>11. run[n] = FlattenSeq(q)
  <2>1. CASE n = 0
    BY <1>1, <1>6, <2>1 DEF FlattenSeq
  <2>2. CASE n # 0
    <3> HIDE DEF flat
    <3>1. n \in 1..n
      BY <1>1, <2>2
    <3> QED BY <1>1, <1>9, <1>10, <2>2, <3>1
  <2> QED BY <2>1, <2>2
<1> QED BY <1>5, <1>11 DEF d, B

LEMMA FlatType ==
    ASSUME NEW S, NEW q \in Seq(Seq(S))
    PROVE  FlattenSeq(q) \in Seq(S)
<1> DEFINE n == Len(q)
<1>1. n \in Nat /\ n \in 0..n
  BY LenProperties
<1>2. PICK run : Runs(run, n, Seq(S), <<>>, FlatStep(q, n, Seq(S))) /\ run[n] = FlattenSeq(q)
  BY FlatRuns
<1> HIDE DEF n
<1> QED BY <1>1, <1>2 DEF Runs

LEMMA FlatEmpty == FlattenSeq(<<>>) = <<>>
BY DEF FlattenSeq

LEMMA FlatAppend ==
    ASSUME NEW S, NEW q \in Seq(Seq(S)), NEW x \in Seq(S)
    PROVE  FlattenSeq(Append(q, x)) = FlattenSeq(q) \o x
<1> DEFINE n == Len(q)
           p == Append(q, x)
           m == n + 1
           B == Seq(S)
<1>1. /\ n \in Nat /\ m \in Nat /\ m = n + 1 /\ p \in Seq(Seq(S)) /\ m = Len(p) /\ n = Len(q)
      /\ p[m] = x /\ \A k \in 1..n : p[k] = q[k]
  BY LenProperties, AppendProperties
<1> HIDE DEF n, m, p
<1> DEFINE d == FlatStep(q, n, B)
           e == FlatStep(p, m, B)
<1>2. PICK a : Runs(a, n, B, <<>>, d) /\ a[n] = FlattenSeq(q)
  BY <1>1, FlatRuns
<1>3. PICK b : Runs(b, m, B, <<>>, e) /\ b[m] = FlattenSeq(p)
  BY <1>1, FlatRuns
<1> HIDE DEF B
<1>4. \A v \in B, k \in 1..n : d[<<v, k>>] = e[<<v, k>>]
  <2> SUFFICES ASSUME NEW v \in B, NEW k \in 1..n PROVE d[<<v, k>>] = e[<<v, k>>]
    OBVIOUS
  <2>1. k \in 1..m
    BY <1>1
  <2> QED BY <1>1, <2>1 DEF FlatStep
<1>5. \A v \in B : e[<<v, m>>] = v \o x
  <2> SUFFICES ASSUME NEW v \in B PROVE e[<<v, m>>] = v \o x
    OBVIOUS
  <2>1. m \in 1..m
    BY <1>1
  <2>2. e[<<v, m>>] = v \o p[m]
    BY <2>1 DEF FlatStep
  <2> QED BY <1>1, <2>2
<1> HIDE DEF d, e
<1>6. Extends(a, b, n, m, B, <<>>, d, e)
  BY <1>1, <1>2, <1>3, <1>4 DEF Extends
<1>7. a[n] \in B /\ b[m] = e[<<a[n], m>>]
  BY <1>6, RunsExtend
<1> QED BY <1>2, <1>3, <1>5, <1>7 DEF p
-----------------------------------------------------------------------------
States == {"accept", "mid", "reject"}

LEMMA Utf8Types == \A s, b : Utf8Step(s, b) \in States
BY DEF Utf8Step, States

TextStep(q, n) == [p \in States \X (1..n) |-> Utf8Step(p[1], q[p[2]])]

LEMMA Utf8Runs ==
    ASSUME NEW s \in States, NEW q, NEW n \in Nat, DOMAIN q = 1..n
    PROVE  \E run : Runs(run, n, States, s, TextStep(q, n)) /\ run[n] = Utf8Run(s, q)
<1> DEFINE Eq(h) == h = [S \in SUBSET (1..n) |-> IF S = {} THEN s ELSE Utf8Step(h[S \ {Max(S)}], q[Max(S)])]
           it == CHOOSE h : Eq(h)
           d  == TextStep(q, n)
<1>1. Utf8Run(s, q) = it[1..n]
  BY DEF Utf8Run, FoldLeft, MapThenFoldSet
<1>2. /\ d \in [States \X (1..n) -> States]
      /\ \A v \in States, k \in 1..n : d[<<v, k>>] = Utf8Step(v, q[k])
  BY Utf8Types DEF TextStep
<1> HIDE DEF d
<1>3. PICK h \in [SUBSET (1..n) -> States] : Table(h, n, s, d)
  BY <1>2, TableExists
<1>4. Eq(h)
  <2> SUFFICES ASSUME NEW S \in SUBSET (1..n)
               PROVE  h[S] = IF S = {} THEN s ELSE Utf8Step(h[S \ {Max(S)}], q[Max(S)])
    OBVIOUS
  <2>1. CASE S = {}
    BY <1>3, <2>1 DEF Table
  <2>2. CASE S # {}
    <3>1. Max(S) \in 1..n
      BY <2>2, MaxOfSome
    <3>2. h[S \ {Max(S)}] \in States
      BY <1>3
    <3>3. h[S] = d[<<h[S \ {Max(S)}], Max(S)>>]
      BY <1>3, <2>2 DEF Table
    <3> QED BY <1>2, <2>2, <3>1, <3>2, <3>3
  <2> QED BY <2>1, <2>2
<1>5. Eq(it)
  <2> HIDE DEF Eq
  <2> QED BY <1>4, Zenon
<1>6. it[{}] = s
  <2>1. {} \in SUBSET (1..n)
    OBVIOUS
  <2> HIDE DEF it
  <2> QED BY <1>5, <2>1
<1>7. ASSUME NEW S \in SUBSET (1..n), S # {}, it[S \ {Max(S)}] \in States
      PROVE  it[S] = d[<<it[S \ {Max(S)}], Max(S)>>]
  <2> HIDE DEF it
  <2>1. Max(S) \in 1..n
    BY <1>7, MaxOfSome
  <2>2. it[S] = Utf8Step(it[S \ {Max(S)}], q[Max(S)])
    BY <1>5, <1>7
  <2> QED BY <1>2, <1>7, <2>1, <2>2
<1> HIDE DEF it
<1>8. \E run : Runs(run, n, States, s, d) /\ run[n] = it[1..n]
  <2>1. Iterates(it, n, States, s, d)
    BY <1>2, <1>6, <1>7 DEF Iterates
  <2> QED BY <2>1, TableRuns
<1> QED BY <1>1, <1>8 DEF d

LEMMA Utf8Empty ==
    ASSUME NEW s \in States
    PROVE  Utf8Run(s, <<>>) = s
<1>1. DOMAIN <<>> = 1..0
  OBVIOUS
<1>2. PICK run : Runs(run, 0, States, s, TextStep(<<>>, 0)) /\ run[0] = Utf8Run(s, <<>>)
  BY <1>1, Utf8Runs
<1> QED BY <1>2 DEF Runs

LEMMA Utf8Append ==
    ASSUME NEW s \in States, NEW S, NEW q \in Seq(S), NEW x \in S
    PROVE  /\ Utf8Run(s, q) \in States
           /\ Utf8Run(s, Append(q, x)) = Utf8Step(Utf8Run(s, q), x)
<1> DEFINE n == Len(q)
           p == Append(q, x)
           m == n + 1
<1>1. n \in Nat /\ m \in Nat /\ m = n + 1 /\ DOMAIN q = 1..n /\ DOMAIN p = 1..m
  BY AppendProperties
<1>2. p[m] = x /\ \A k \in 1..n : p[k] = q[k]
  OBVIOUS
<1> HIDE DEF n, m, p
<1> DEFINE d == TextStep(q, n)
           e == TextStep(p, m)
<1>3. PICK a : Runs(a, n, States, s, d) /\ a[n] = Utf8Run(s, q)
  BY <1>1, Utf8Runs
<1>4. PICK b : Runs(b, m, States, s, e) /\ b[m] = Utf8Run(s, p)
  BY <1>1, Utf8Runs
<1>5. \A v \in States, k \in 1..n : d[<<v, k>>] = e[<<v, k>>]
  <2> SUFFICES ASSUME NEW v \in States, NEW k \in 1..n PROVE d[<<v, k>>] = e[<<v, k>>]
    OBVIOUS
  <2>1. k \in 1..m
    BY <1>1
  <2> QED BY <1>2, <2>1 DEF TextStep
<1>6. \A v \in States : e[<<v, m>>] = Utf8Step(v, x)
  BY <1>1, <1>2 DEF TextStep
<1> HIDE DEF d, e
<1>7. Extends(a, b, n, m, States, s, d, e)
  BY <1>1, <1>3, <1>4, <1>5 DEF Extends
<1>8. a[n] \in States /\ b[m] = e[<<a[n], m>>]
  BY <1>7, RunsExtend
<1> QED BY <1>3, <1>4, <1>6, <1>8 DEF p

LEMMA Utf8Type ==
    ASSUME NEW s \in States, NEW S, NEW q \in Seq(S)
    PROVE  Utf8Run(s, q) \in States
<1>1. Len(q) \in Nat /\ DOMAIN q = 1 .. Len(q) /\ Len(q) \in 0 .. Len(q)
  OBVIOUS
<1>2. PICK run : Runs(run, Len(q), States, s, TextStep(q, Len(q))) /\ run[Len(q)] = Utf8Run(s, q)
  BY <1>1, Utf8Runs
<1> QED BY <1>1, <1>2 DEF Runs

(* Bytes may be checked in pieces.                                         *)
LEMMA Utf8Concat ==
    ASSUME NEW s \in States, NEW S, NEW p \in Seq(S), NEW q \in Seq(S)
    PROVE  Utf8Run(s, p \o q) = Utf8Run(Utf8Run(s, p), q)
<1> DEFINE T == {t \in Seq(S) : Utf8Run(s, p \o t) = Utf8Run(Utf8Run(s, p), t)}
<1>1. Utf8Run(s, p) \in States
  BY Utf8Type
<1>2. <<>> \in T
  <2>1. p \o <<>> = p /\ Utf8Run(Utf8Run(s, p), <<>>) = Utf8Run(s, p)
    BY <1>1, ConcatEmptySeq, Utf8Empty
  <2>2. <<>> \in Seq(S)
    OBVIOUS
  <2> QED BY <2>1, <2>2
<1>3. ASSUME NEW t \in Seq(S), NEW x \in S, t \in T PROVE Append(t, x) \in T
  <2>1. p \o t \in Seq(S) /\ p \o Append(t, x) = Append(p \o t, x)
    OBVIOUS
  <2>2. Utf8Run(s, Append(p \o t, x)) = Utf8Step(Utf8Run(s, p \o t), x)
    BY <2>1, Utf8Append
  <2>3. Utf8Run(Utf8Run(s, p), Append(t, x)) = Utf8Step(Utf8Run(Utf8Run(s, p), t), x)
    BY <1>1, Utf8Append
  <2>4. Append(t, x) \in Seq(S) /\ Utf8Run(s, p \o t) = Utf8Run(Utf8Run(s, p), t)
    BY <1>3
  <2> QED BY <2>1, <2>2, <2>3, <2>4
<1> HIDE DEF T
<1>4. Seq(S) \subseteq T
  BY <1>2, <1>3, InductSeq
<1> QED BY <1>4 DEF T

LEMMA Utf8Rejected ==
    ASSUME NEW S, NEW q \in Seq(S)
    PROVE  Utf8Run("reject", q) = "reject"
<1> DEFINE T == {t \in Seq(S) : Utf8Run("reject", t) = "reject"}
<1>1. "reject" \in States
  BY DEF States
<1>2. <<>> \in T
  BY <1>1, Utf8Empty
<1>3. ASSUME NEW t \in Seq(S), NEW x \in S, t \in T PROVE Append(t, x) \in T
  <2>1. Utf8Run("reject", Append(t, x)) = Utf8Step("reject", x)
    BY <1>1, <1>3, Utf8Append
  <2>2. Utf8Step("reject", x) = "reject"
    BY DEF Utf8Step
  <2> QED BY <2>1, <2>2
<1> HIDE DEF T
<1>4. Seq(S) \subseteq T
  BY <1>2, <1>3, InductSeq
<1> QED BY <1>4 DEF T
-----------------------------------------------------------------------------
(* The two parts of a sequence, and its first element.                     *)
LEMMA CutConcat ==
    ASSUME NEW S, NEW a \in Seq(S), NEW b \in Seq(S)
    PROVE  /\ SubSeq(a \o b, 1, Len(a)) = a
           /\ SubSeq(a \o b, Len(a) + 1, Len(a \o b)) = b
<1> DEFINE t == a \o b
           m == Len(a)
           n == Len(t)
<1>1. m \in Nat /\ Len(b) \in Nat /\ n = m + Len(b)
  BY ConcatProperties, LenProperties
<1>2. /\ t \in Seq(S)
      /\ \A i \in 1 .. m : t[i] = a[i] /\ t[i] \in S
      /\ \A i \in 1 .. Len(b) : t[m + i] = b[i] /\ t[m + i] \in S
  <2>1. /\ t \in Seq(S)
        /\ \A i \in 1 .. Len(a) + Len(b) : t[i] = IF i <= Len(a) THEN a[i] ELSE b[i - Len(a)]
    BY ConcatProperties, Zenon
  <2>2. \A i \in 1 .. n : t[i] \in S
    BY <2>1, ElementOfSeq
  <2> QED BY <1>1, <2>1, <2>2
<1> HIDE DEF t, m, n
<1>3. SubSeq(t, 1, m) = a
  <2>1. /\ SubSeq(t, 1, m) \in Seq(S) /\ Len(SubSeq(t, 1, m)) = IF 1 <= m THEN m - 1 + 1 ELSE 0
        /\ \A i \in 1 .. m - 1 + 1 : SubSeq(t, 1, m)[i] = t[1 + i - 1]
    BY <1>1, <1>2, SubSeqProperties
  <2>2. Len(SubSeq(t, 1, m)) = Len(a) /\ \A i \in 1 .. Len(SubSeq(t, 1, m)) : SubSeq(t, 1, m)[i] = a[i]
    BY <1>1, <1>2, <2>1 DEF m
  <2> QED BY <2>1, <2>2, SeqEqual
<1>4. SubSeq(t, m + 1, n) = b
  <2> DEFINE z == m + 1
             r == SubSeq(t, z, n)
  <2>0. z \in Int /\ n \in Int /\ \A i \in z .. n : t[i] \in S
    <3>1. ASSUME NEW i \in z .. n PROVE t[i] \in S
      <4>1. i - m \in 1 .. Len(b) /\ m + (i - m) = i
        BY <1>1
      <4> QED BY <1>2, <4>1
    <3> QED BY <1>1, <3>1
  <2>1. /\ r \in Seq(S) /\ Len(r) = IF z <= n THEN n - z + 1 ELSE 0
        /\ \A i \in 1 .. n - z + 1 : r[i] = t[z + i - 1]
    <3> HIDE DEF z
    <3> QED BY <2>0, SubSeqProperties
  <2>2. Len(r) = Len(b) /\ \A i \in 1 .. Len(r) : r[i] = b[i]
    <3>1. Len(r) = Len(b)
      BY <1>1, <2>1
    <3>2. ASSUME NEW i \in 1 .. Len(r) PROVE r[i] = b[i]
      <4>1. i \in 1 .. Len(b) /\ i \in 1 .. n - z + 1 /\ z + i - 1 = m + i
        BY <1>1, <3>1
      <4> QED BY <1>2, <2>1, <4>1
    <3> QED BY <3>1, <3>2
  <2> HIDE DEF r, z
  <2>3. r = b
    BY <2>1, <2>2, SeqEqual
  <2> QED BY <2>3 DEF r, z
<1> QED BY <1>3, <1>4 DEF t, m, n

LEMMA HeadOfConcat ==
    ASSUME NEW S, NEW a \in Seq(S), NEW b \in Seq(S)
    PROVE  /\ a \o b \in Seq(S)
           /\ a # <<>> => /\ a \o b # <<>> /\ Head(a \o b) = Head(a) /\ Tail(a \o b) = Tail(a) \o b
OBVIOUS

LEMMA OneFirst ==
    ASSUME NEW S, NEW x \in S, NEW b \in Seq(S)
    PROVE  /\ <<x>> \in Seq(S) /\ <<x>> \o b \in Seq(S) /\ <<x>> \o b # <<>>
           /\ Head(<<x>> \o b) = x /\ Tail(<<x>> \o b) = b
OBVIOUS

LEMMA Associates ==
    ASSUME NEW S, NEW a \in Seq(S), NEW b \in Seq(S), NEW c \in Seq(S)
    PROVE  (a \o b) \o c = a \o (b \o c)
BY ConcatAssociative, SMT

LEMMA FlatHead ==
    ASSUME NEW S, NEW x \in Seq(S), NEW q \in Seq(Seq(S))
    PROVE  FlattenSeq(<<x>> \o q) = x \o FlattenSeq(q)
<1> DEFINE B == Seq(S)
           T == {r \in Seq(B) : FlattenSeq(<<x>> \o r) = x \o FlattenSeq(r)}
<1>1. <<>> \in T
  <2>1. <<x>> \o <<>> = Append(<<>>, x) /\ <<>> \in Seq(B) /\ <<>> \in B
    OBVIOUS
  <2>2. FlattenSeq(Append(<<>>, x)) = FlattenSeq(<<>>) \o x
    BY <2>1, FlatAppend
  <2>3. <<>> \o x = x /\ x \o <<>> = x
    BY ConcatEmptySeq
  <2> QED BY <2>1, <2>2, <2>3, FlatEmpty
<1>2. ASSUME NEW r \in Seq(B), NEW y \in B, r \in T PROVE Append(r, y) \in T
  <2>1. <<x>> \o Append(r, y) = Append(<<x>> \o r, y) /\ <<x>> \o r \in Seq(B) /\ Append(r, y) \in Seq(B)
    OBVIOUS
  <2>2. FlattenSeq(Append(<<x>> \o r, y)) = FlattenSeq(<<x>> \o r) \o y
    BY <2>1, FlatAppend
  <2>3. FlattenSeq(Append(r, y)) = FlattenSeq(r) \o y
    BY FlatAppend
  <2>4. FlattenSeq(r) \in Seq(S)
    BY FlatType
  <2>5. (x \o FlattenSeq(r)) \o y = x \o (FlattenSeq(r) \o y)
    BY <2>4, Associates
  <2>6. FlattenSeq(<<x>> \o r) = x \o FlattenSeq(r)
    BY <1>2
  <2> QED BY <2>1, <2>2, <2>3, <2>5, <2>6
<1> HIDE DEF T
<1>3. Seq(B) \subseteq T
  BY <1>1, <1>2, InductSeq
<1> QED BY <1>3 DEF T, B

(* What is left of the text from the k-th part on.                         *)
From(f, k) == FlattenSeq(SubSeq(f, k + 1, Len(f)))

LEMMA FromNext ==
    ASSUME NEW S, NEW f \in Seq(Seq(S)), NEW k \in 0 .. Len(f)
    PROVE  /\ From(f, k) \in Seq(S)
           /\ k = 0 => From(f, k) = FlattenSeq(f)
           /\ k = Len(f) => From(f, k) = <<>>
           /\ k < Len(f) => From(f, k) = f[k + 1] \o From(f, k + 1)
<1> DEFINE B == Seq(S)
           n == Len(f)
<1>1. n \in Nat /\ \A i \in 1..n : f[i] \in B
  BY LenProperties, ElementOfSeq
<1> HIDE DEF B, n
<1>2. ASSUME NEW z \in Int, z >= 1 PROVE SubSeq(f, z, n) \in Seq(B)
  <2>1. \A i \in z..n : f[i] \in B
    BY <1>1, <1>2
  <2> QED BY <1>1, <2>1, SubSeqProperties
<1>3. From(f, k) \in Seq(S)
  <2>1. k + 1 \in Int /\ k + 1 >= 1
    BY <1>1 DEF n
  <2>2. SubSeq(f, k + 1, n) \in Seq(B)
    BY <1>2, <2>1
  <2> QED BY <2>2, FlatType DEF From, n, B
<1>4. ASSUME k = 0 PROVE From(f, k) = FlattenSeq(f)
  <2>1. SubSeq(f, 1, n) = f
    BY SubSeqFull DEF n
  <2>2. k + 1 = 1
    BY <1>4
  <2> QED BY <2>1, <2>2 DEF From, n
<1>5. ASSUME k = Len(f) PROVE From(f, k) = <<>>
  <2>1. k + 1 \in Int /\ n \in Int /\ n < k + 1
    BY <1>1, <1>5 DEF n
  <2>2. SubSeq(f, k + 1, n) = <<>>
    BY <2>1, SubSeqEmpty
  <2> QED BY <2>2, FlatEmpty DEF From, n
<1>6. ASSUME k < Len(f) PROVE From(f, k) = f[k + 1] \o From(f, k + 1)
  <2>0. k < n
    BY <1>6 DEF n
  <2>1. SubSeq(f, k + 1, n) = <<f[k + 1]>> \o SubSeq(f, k + 1 + 1, n)
    <3>1. k + 1 \in 1..n /\ n \in k + 1 .. n /\ n = Len(f)
      BY <1>1, <2>0 DEF n
    <3> QED BY <3>1, SubSeqRecursiveFirst
  <2>2. f[k + 1] \in B /\ SubSeq(f, k + 1 + 1, n) \in Seq(B)
    BY <1>1, <1>2, <2>0
  <2>3. FlattenSeq(<<f[k + 1]>> \o SubSeq(f, k + 1 + 1, n)) = f[k + 1] \o FlattenSeq(SubSeq(f, k + 1 + 1, n))
    BY <2>2, FlatHead DEF B
  <2> QED BY <2>1, <2>3 DEF From, n
<1> QED BY <1>3, <1>4, <1>5, <1>6, Zenon
=============================================================================
