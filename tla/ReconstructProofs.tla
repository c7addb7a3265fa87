------------------------- MODULE ReconstructProofs -------------------------
(***************************************************************************)
(* Proofs about the readers (module Reconstruct): for any number of agents *)
(* and readers, any contents, any chunk sizes and any failures, a read     *)
(* that returns is as long as the file and right wherever it is aligned.   *)
(***************************************************************************)
EXTENDS Reconstruct, IngestProofs, SequenceTheorems

-----------------------------------------------------------------------------
(* Chunk offsets *)

\* Partial sums exist: for numbers g[1], .., g[n] there is a function of their
\* sums.
LEMMA SumsExist ==
    ASSUME NEW n \in Nat, NEW g \in [1..n -> Nat]
    PROVE  \E f \in [0..n -> Nat] : f = [k \in 0..n |-> IF k = 0 THEN 0 ELSE f[k - 1] + g[k]]
<1> DEFINE Sums(m, f) == f = [k \in 0..m |-> IF k = 0 THEN 0 ELSE f[k - 1] + g[k]]
           P(m) == \E f \in [0..m -> Nat] : Sums(m, f)
           S == {m \in 0..n : P(m)}
<1>1. P(0)
  <2> DEFINE z == [k \in 0..0 |-> 0]
  <2>1. z \in [0..0 -> Nat] /\ Sums(0, z)
    OBVIOUS
  <2> QED
    BY <2>1
<1>2. ASSUME NEW m \in 1..n, P(m - 1)
      PROVE  P(m)
  <2>1. PICK f \in [0..(m - 1) -> Nat] : Sums(m - 1, f)
    BY <1>2
  <2> DEFINE h == [k \in 0..m |-> IF k = m THEN f[m - 1] + g[m] ELSE f[k]]
  <2>2. h \in [0..m -> Nat]
    OBVIOUS
  <2>3. \A k \in 0..m : h[k] = IF k = 0 THEN 0 ELSE h[k - 1] + g[k]
    BY <2>1
  <2>4. Sums(m, h)
    BY <2>2, <2>3
  <2> QED
    BY <2>2, <2>4
<1>3. n \in S
  <2> HIDE DEF P
  <2>1. 0 \in S /\ \A k \in 1..n : k - 1 \in S => k \in S
    BY <1>1, <1>2
  <2> HIDE DEF S
  <2>2. \A k \in 0..n : k \in S
    BY <2>1, InductionUpTo
  <2> QED
    BY <2>2
<1> QED
  BY <1>3

\* What BoundaryOffset computes.
LEMMA OffsetRecursion ==
    ASSUME NEW x \in Seq(Chunk)
    PROVE  /\ BoundaryOffset(x, 0) = 0
           /\ \A k \in 0..Len(x) : BoundaryOffset(x, k) \in Nat
           /\ \A k \in 1..Len(x) : BoundaryOffset(x, k) = BoundaryOffset(x, k - 1) + Packed[x[k]]
<1> DEFINE g == [k \in 1..Len(x) |-> Packed[x[k]]]
           R(f) == f = [k \in 0..Len(x) |-> IF k = 0 THEN 0 ELSE f[k - 1] + Packed[x[k]]]
           ends == CHOOSE f : R(f)
<1>1. g \in [1..Len(x) -> Nat] /\ Len(x) \in Nat
  BY ReconstructAssumption
<1>2. PICK f \in [0..Len(x) -> Nat] : f = [k \in 0..Len(x) |-> IF k = 0 THEN 0 ELSE f[k - 1] + g[k]]
  <2> HIDE DEF g
  <2> QED
    BY <1>1, SumsExist
<1>3. R(f)
  <2>1. \A k \in 1..Len(x) : g[k] = Packed[x[k]]
    OBVIOUS
  <2> HIDE DEF g
  <2>2. \A k \in 0..Len(x) : f[k] = IF k = 0 THEN 0 ELSE f[k - 1] + g[k]
    BY <1>2
  <2>3. \A k \in 0..Len(x) : k # 0 => k \in 1..Len(x)
    OBVIOUS
  <2>4. \A k \in 0..Len(x) : f[k] = IF k = 0 THEN 0 ELSE f[k - 1] + Packed[x[k]]
    BY <2>1, <2>2, <2>3
  <2> QED
    BY <1>2, <2>4
<1>4. R(ends)
  BY <1>3
<1>5. \A k : BoundaryOffset(x, k) = ends[k]
  BY DEF BoundaryOffset
<1> QED
  BY <1>4, <1>5

\* Later chunks end later.
LEMMA OffsetMonotone ==
    ASSUME NEW x \in Seq(Chunk), NEW j \in 0..Len(x), NEW k \in j..Len(x)
    PROVE  BoundaryOffset(x, j) <= BoundaryOffset(x, k)
<1> DEFINE P(i) == j <= i => BoundaryOffset(x, j) <= BoundaryOffset(x, i)
           S == {i \in 0..Len(x) : P(i)}
<1>1. P(0)
  BY OffsetRecursion
<1>2. ASSUME NEW i \in 1..Len(x), P(i - 1)
      PROVE  P(i)
  <2>1. /\ BoundaryOffset(x, i) = BoundaryOffset(x, i - 1) + Packed[x[i]]
        /\ BoundaryOffset(x, j) \in Nat /\ BoundaryOffset(x, i - 1) \in Nat
        /\ Packed[x[i]] \in Nat
    BY OffsetRecursion, ReconstructAssumption
  <2> QED
    BY <1>2, <2>1
<1>3. \A i \in 0..Len(x) : i \in S
  <2> HIDE DEF P
  <2>1. 0 \in S /\ \A i \in 1..Len(x) : i - 1 \in S => i \in S
    BY <1>1, <1>2
  <2>2. Len(x) \in Nat
    OBVIOUS
  <2> HIDE DEF S
  <2> QED
    BY <2>1, <2>2, InductionUpTo
<1> QED
  BY <1>3

\* The offsets of a part of a xorb are those of the xorb, counted from where
\* the part begins.
LEMMA OffsetShift ==
    ASSUME NEW x \in Seq(Chunk), NEW s \in 0..Len(x), NEW w \in 0..(Len(x) - s),
           NEW d \in Seq(Chunk), w <= Len(d), \A i \in 1..w : d[i] = x[s + i]
    PROVE  \A i \in 0..w : BoundaryOffset(x, s + i) = BoundaryOffset(x, s) + BoundaryOffset(d, i)
<1> DEFINE P(i) == BoundaryOffset(x, s + i) = BoundaryOffset(x, s) + BoundaryOffset(d, i)
           S == {i \in 0..w : P(i)}
<1>1. P(0)
  BY OffsetRecursion
<1>2. ASSUME NEW i \in 1..w, P(i - 1)
      PROVE  P(i)
  <2>1. s + i \in 1..Len(x) /\ (s + i) - 1 = s + (i - 1) /\ i \in 1..Len(d)
    OBVIOUS
  <2>2. /\ BoundaryOffset(x, s + i) = BoundaryOffset(x, s + (i - 1)) + Packed[x[s + i]]
        /\ BoundaryOffset(d, i) = BoundaryOffset(d, i - 1) + Packed[d[i]]
    BY <2>1, OffsetRecursion
  <2>3. BoundaryOffset(x, s) \in Nat
    BY OffsetRecursion
  <2>4. i - 1 \in 0..Len(d) /\ d[i] \in Chunk /\ d[i] = x[s + i]
    BY <2>1
  <2>5. BoundaryOffset(d, i - 1) \in Nat
    BY <2>4, OffsetRecursion
  <2>6. Packed[d[i]] \in Nat
    BY <2>4, ReconstructAssumption
  <2>7. \A u, v, y \in Nat : (u + v) + y = u + (v + y)
    OBVIOUS
  <2>8. BoundaryOffset(x, s + (i - 1)) = BoundaryOffset(x, s) + BoundaryOffset(d, i - 1)
    BY <1>2
  <2>9. BoundaryOffset(x, s + i) = (BoundaryOffset(x, s) + BoundaryOffset(d, i - 1)) + Packed[d[i]]
    BY <2>2, <2>4, <2>8, Zenon
  <2>10. BoundaryOffset(x, s + i) = BoundaryOffset(x, s) + (BoundaryOffset(d, i - 1) + Packed[d[i]])
    BY <2>3, <2>5, <2>6, <2>7, <2>9, Zenon
  <2> QED
    BY <2>2, <2>10, Zenon
<1>3. \A i \in 0..w : i \in S
  <2> HIDE DEF P
  <2>1. 0 \in S /\ \A i \in 1..w : i - 1 \in S => i \in S
    BY <1>1, <1>2
  <2>2. w \in Nat
    OBVIOUS
  <2> HIDE DEF S
  <2> QED
    BY <2>1, <2>2, InductionUpTo
<1> QED
  BY <1>3

\* Every byte of the chunks belongs to one of them.
LEMMA OffsetLocates ==
    ASSUME NEW x \in Seq(Chunk), NEW p \in 1..BoundaryOffset(x, Len(x))
    PROVE  \E k \in 1..Len(x) : \E n \in 1..Packed[x[k]] : p = BoundaryOffset(x, k - 1) + n
<1> DEFINE S == {k \in 0..Len(x) : p <= BoundaryOffset(x, k)}
<1>1. Len(x) \in S /\ S \subseteq Nat /\ 0 \notin S
  BY OffsetRecursion
<1>2. PICK k \in S : \A i \in S : k <= i
  <2> HIDE DEF S
  <2> QED
    BY <1>1, LeastNat
<1>3. k \in 1..Len(x) /\ k - 1 \notin S /\ k - 1 \in 0..Len(x)
  BY <1>1, <1>2
<1>4. /\ BoundaryOffset(x, k) = BoundaryOffset(x, k - 1) + Packed[x[k]]
      /\ BoundaryOffset(x, k - 1) \in Nat /\ Packed[x[k]] \in Nat
      /\ p <= BoundaryOffset(x, k) /\ BoundaryOffset(x, k - 1) < p
  BY <1>3, OffsetRecursion, ReconstructAssumption
<1> DEFINE n == p - BoundaryOffset(x, k - 1)
<1>5. n \in 1..Packed[x[k]] /\ p = BoundaryOffset(x, k - 1) + n
  BY <1>4
<1> QED
  BY <1>3, <1>5

-----------------------------------------------------------------------------
(* Laying sequences end to end *)

Byte == Chunk \X Nat

\* f[i] is g[1], .., g[i] laid end to end.
Flattens(f, g, n) == \A i \in 1..n : f[i] = IF i = 1 THEN g[i] ELSE f[i - 1] \o g[i]

\* The recursive function inside FlattenSeq exists.
LEMMA FlattenExists ==
    ASSUME NEW n \in Nat, NEW g \in [1..n -> Seq(Byte)]
    PROVE  \E f \in [1..n -> Seq(Byte)] : Flattens(f, g, n)
<1> USE DEF Flattens
<1> DEFINE P(m) == \E f \in [1..m -> Seq(Byte)] : Flattens(f, g, m)
           S == {m \in 0..n : P(m)}
<1>1. P(0)
  <2> DEFINE z == [i \in 1..0 |-> <<>>]
  <2>1. 1..0 = {}
    OBVIOUS
  <2>2. z \in [1..0 -> Seq(Byte)] /\ Flattens(z, g, 0)
    BY <2>1
  <2> QED
    BY <2>2
<1>2. ASSUME NEW m \in 1..n, P(m - 1)
      PROVE  P(m)
  <2>1. PICK f \in [1..(m - 1) -> Seq(Byte)] : Flattens(f, g, m - 1)
    BY <1>2
  <2> DEFINE last == IF m = 1 THEN g[m] ELSE f[m - 1] \o g[m]
             h == [i \in 1..m |-> IF i = m THEN last ELSE f[i]]
  <2>2. last \in Seq(Byte)
    <3>1. g[m] \in Seq(Byte)
      OBVIOUS
    <3>2. CASE m # 1
      <4>1. f[m - 1] \in Seq(Byte)
        BY <3>2
      <4>2. f[m - 1] \o g[m] \in Seq(Byte)
        BY <3>1, <4>1, ConcatProperties
      <4> QED
        BY <3>2, <4>2
    <3> QED
      BY <3>1, <3>2
  <2>3. h \in [1..m -> Seq(Byte)] /\ h[m] = last /\ \A i \in 1..(m - 1) : h[i] = f[i]
    <3> HIDE DEF last
    <3> QED
      BY <2>2
  <2>4. \A i \in 1..(m - 1) : f[i] = IF i = 1 THEN g[i] ELSE f[i - 1] \o g[i]
    BY <2>1
  <2>5. m # 1 => h[m - 1] = f[m - 1]
    BY <2>3
  <2>6. h[m] = IF m = 1 THEN g[m] ELSE h[m - 1] \o g[m]
    <3> HIDE DEF h
    <3> QED
      BY <2>3, <2>5
  <2>7. ASSUME NEW i \in 1..(m - 1)
        PROVE  h[i] = IF i = 1 THEN g[i] ELSE h[i - 1] \o g[i]
    <3> HIDE DEF h
    <3>1. i # 1 => h[i - 1] = f[i - 1]
      BY <2>3
    <3> QED
      BY <2>3, <2>4, <3>1
  <2>8. Flattens(h, g, m)
    <3> HIDE DEF h, last
    <3>1. \A i \in 1..m : i = m \/ i \in 1..(m - 1)
      OBVIOUS
    <3>2. \A i \in 1..m : h[i] = IF i = 1 THEN g[i] ELSE h[i - 1] \o g[i]
      BY <2>6, <2>7, <3>1
    <3> QED
      BY <2>3, <3>2
  <2> QED
    BY <2>3, <2>8
<1>3. n \in S
  <2> HIDE DEF P
  <2>1. 0 \in S /\ \A k \in 1..n : k - 1 \in S => k \in S
    BY <1>1, <1>2
  <2> HIDE DEF S
  <2>2. \A k \in 0..n : k \in S
    BY <2>1, InductionUpTo
  <2> QED
    BY <2>2
<1> QED
  BY <1>3

\* The bytes of chunks laid end to end: as many as the last chunk's end says,
\* each chunk where its offset says.
LEMMA PackedShape ==
    ASSUME NEW cs \in Seq(Chunk), cs # <<>>
    PROVE  /\ PackedBytes(cs) \in Seq(Byte)
           /\ Len(PackedBytes(cs)) = BoundaryOffset(cs, Len(cs))
           /\ \A k \in 1..Len(cs) : \A n \in 1..Packed[cs[k]] :
                 PackedBytes(cs)[BoundaryOffset(cs, k - 1) + n] = <<cs[k], n>>
<1> DEFINE N == Len(cs)
           g == [k \in 1..N |-> [n \in 1..Packed[cs[k]] |-> <<cs[k], n>>]]
           R(f) == f = [i \in 1..Len(g) |-> IF i = 1 THEN g[i] ELSE f[i - 1] \o g[i]]
           flatten == CHOOSE f : R(f)
           bo(k) == BoundaryOffset(cs, k)
<1>1. N \in Nat \ {0}
  OBVIOUS
<1>2. \A k \in 1..N : cs[k] \in Chunk /\ Packed[cs[k]] \in Nat \ {0}
  BY ReconstructAssumption
<1>3. \A k \in 1..N : /\ g[k] \in Seq(Byte) /\ Len(g[k]) = Packed[cs[k]]
                      /\ \A n \in 1..Packed[cs[k]] : g[k][n] = <<cs[k], n>>
  BY <1>2 DEF Byte
<1>4. g \in [1..N -> Seq(Byte)] /\ Len(g) = N
  BY <1>1, <1>3
<1>5. PackedBytes(cs) = flatten[N]
  BY <1>1, <1>4 DEF PackedBytes, FlattenSeq
<1>6. R(flatten)
  <2> HIDE DEF g, N
  <2>1. PICK f \in [1..N -> Seq(Byte)] : Flattens(f, g, N)
    <3>1. N \in Nat
      BY <1>1
    <3>2. g \in [1..N -> Seq(Byte)]
      BY <1>4
    <3> QED
      BY <3>1, <3>2, FlattenExists
  <2>2. R(f)
    BY <1>4, <2>1 DEF Flattens
  <2> QED
    BY <2>2
<1> HIDE DEF g, flatten, N
<1>7. \A i \in 1..N : flatten[i] = IF i = 1 THEN g[i] ELSE flatten[i - 1] \o g[i]
  BY <1>4, <1>6
<1>8. /\ bo(0) = 0
      /\ \A k \in 0..N : bo(k) \in Nat
      /\ \A k \in 1..N : bo(k) = bo(k - 1) + Packed[cs[k]]
  BY OffsetRecursion DEF N
<1> HIDE DEF bo
<1> DEFINE At(s, k) == \A n \in 1..Packed[cs[k]] : s[bo(k - 1) + n] = <<cs[k], n>>
           P(i) == i = 0 \/ /\ flatten[i] \in Seq(Byte)
                            /\ Len(flatten[i]) = bo(i)
                            /\ \A k \in 1..i : At(flatten[i], k)
           S == {i \in 0..N : P(i)}
<1>9. ASSUME NEW i \in 1..N, P(i - 1)
      PROVE  P(i)
  <2>1. CASE i = 1
    <3>1. flatten[1] = g[1] /\ 1 \in 1..N
      BY <1>7, <2>1
    <3>2. bo(1 - 1) = 0 /\ bo(1) = Packed[cs[1]]
      BY <1>2, <1>8, <3>1
    <3>3. \A k \in 1..1 : At(flatten[1], k)
      BY <1>3, <3>1, <3>2
    <3> QED
      BY <1>3, <2>1, <3>1, <3>2, <3>3
  <2>2. CASE i # 1
    <3> DEFINE a == flatten[i - 1]
    <3>1. i - 1 \in 1..N /\ i - 1 # 0
      BY <1>1, <2>2
    <3>2. a \in Seq(Byte) /\ Len(a) = bo(i - 1) /\ \A k \in 1..(i - 1) : At(a, k)
      BY <1>9, <3>1
    <3>3. flatten[i] = a \o g[i]
      BY <1>7, <2>2
    <3>4. g[i] \in Seq(Byte) /\ Len(g[i]) = Packed[cs[i]]
      BY <1>3
    <3> HIDE DEF a
    <3>5. /\ flatten[i] \in Seq(Byte) /\ Len(flatten[i]) = Len(a) + Len(g[i])
          /\ \A n \in 1..(Len(a) + Len(g[i])) :
                flatten[i][n] = IF n <= Len(a) THEN a[n] ELSE g[i][n - Len(a)]
      <4>1. a \in Seq(Byte) /\ g[i] \in Seq(Byte)
        BY <3>2, <3>4
      <4> QED
        BY <3>3, <4>1, ConcatProperties
    <3>6. Len(flatten[i]) = bo(i)
      BY <1>8, <3>2, <3>4, <3>5
    <3>7. ASSUME NEW k \in 1..(i - 1)
          PROVE  At(flatten[i], k)
      <4> SUFFICES ASSUME NEW n \in 1..Packed[cs[k]]
                   PROVE  flatten[i][bo(k - 1) + n] = <<cs[k], n>>
        OBVIOUS
      <4>1. a[bo(k - 1) + n] = <<cs[k], n>>
        BY <3>2
      <4>2. /\ bo(k) = bo(k - 1) + Packed[cs[k]]
            /\ bo(k - 1) \in Nat /\ Packed[cs[k]] \in Nat
            /\ bo(i - 1) \in Nat /\ Packed[cs[i]] \in Nat
        <5>1. k \in 1..N /\ k - 1 \in 0..N /\ i - 1 \in 0..N
          BY <1>1
        <5> QED
          BY <1>2, <1>8, <5>1
      <4>3. bo(k) <= bo(i - 1)
        <5>1. k \in 0..Len(cs) /\ i - 1 \in k..Len(cs)
          BY DEF N
        <5> QED
          BY <5>1, OffsetMonotone DEF bo
      <4> DEFINE p == bo(k - 1) + n
      <4>4. p \in 1..(Len(a) + Len(g[i])) /\ p <= Len(a)
        <5>1. Len(a) = bo(i - 1) /\ Len(g[i]) = Packed[cs[i]]
          BY <3>2, <3>4
        <5>2. bo(k - 1) + n <= bo(i - 1) /\ bo(k - 1) + n \in Nat \ {0}
          <6>1. \A u, v, r \in Nat : \A y \in 1..v : u + v <= r => u + y <= r /\ u + y \in Nat \ {0}
            OBVIOUS
          <6>2. bo(k - 1) + Packed[cs[k]] <= bo(i - 1)
            BY <4>2, <4>3
          <6> HIDE DEF bo
          <6> QED
            BY <4>2, <6>1, <6>2
        <5>3. \A u, v \in Nat : \A y \in Nat \ {0} : y <= u => y \in 1..(u + v)
          OBVIOUS
        <5> QED
          BY <4>2, <5>1, <5>2, <5>3
      <4>5. flatten[i][p] = a[p]
        <5> HIDE DEF p
        <5> QED
          BY <3>5, <4>4
      <4> QED
        BY <4>1, <4>5
    <3>8. At(flatten[i], i)
      <4> SUFFICES ASSUME NEW n \in 1..Packed[cs[i]]
                   PROVE  flatten[i][bo(i - 1) + n] = <<cs[i], n>>
        OBVIOUS
      <4> DEFINE p == bo(i - 1) + n
      <4>1. bo(i - 1) \in Nat /\ Packed[cs[i]] \in Nat
        <5>1. i - 1 \in 0..N
          BY <1>1
        <5> QED
          BY <1>2, <1>8, <5>1
      <4>2. p \in 1..(Len(a) + Len(g[i])) /\ ~(p <= Len(a)) /\ p - Len(a) = n
        BY <3>2, <3>4, <4>1
      <4>3. flatten[i][p] = g[i][n]
        <5> HIDE DEF p
        <5> QED
          BY <3>5, <4>2
      <4> QED
        BY <1>3, <4>3
    <3>9. \A k \in 1..i : k = i \/ k \in 1..(i - 1)
      OBVIOUS
    <3>10. \A k \in 1..i : At(flatten[i], k)
      <4> HIDE DEF At
      <4> QED
        BY <3>7, <3>8, <3>9
    <3> HIDE DEF At
    <3> QED
      BY <3>5, <3>6, <3>10
  <2> QED
    BY <2>1, <2>2
<1>10. N \in S
  <2>1. P(0)
    OBVIOUS
  <2> HIDE DEF P
  <2>2. 0 \in S /\ \A k \in 1..N : k - 1 \in S => k \in S
    BY <1>1, <1>9, <2>1
  <2> HIDE DEF S
  <2>3. \A k \in 0..N : k \in S
    BY <1>1, <2>2, InductionUpTo
  <2> QED
    BY <1>1, <2>3
<1>11. P(N) /\ N # 0
  BY <1>1, <1>10
<1> QED
  BY <1>5, <1>11 DEF N, bo

StoredByte == Byte \cup {<<None, 1>>}

\* The stored object: the chunks' bytes, and the footer after them.
LEMMA SerializedShape ==
    ASSUME NEW x \in Xorb
    PROVE  /\ Serialized(x) \in Seq(StoredByte)
           /\ Len(Serialized(x)) = BoundaryOffset(x, Len(x)) + 1
           /\ \A k \in 1..Len(x) : \A n \in 1..Packed[x[k]] :
                 Serialized(x)[BoundaryOffset(x, k - 1) + n] = <<x[k], n>>
<1>1. x \in Seq(Chunk) /\ x # <<>>
  BY DEF Xorb
<1>2. PICK a : a = PackedBytes(x)
  OBVIOUS
<1>3. PICK b : b = <<<<None, 1>>>>
  OBVIOUS
<1>4. /\ a \in Seq(Byte) /\ Len(a) = BoundaryOffset(x, Len(x))
      /\ \A k \in 1..Len(x) : \A n \in 1..Packed[x[k]] : a[BoundaryOffset(x, k - 1) + n] = <<x[k], n>>
  BY <1>1, <1>2, PackedShape
<1>5. a \in Seq(StoredByte)
  BY <1>4 DEF StoredByte
<1>6. b \in Seq(StoredByte) /\ Len(b) = 1
  BY <1>3 DEF StoredByte
<1>7. Serialized(x) = a \o b
  BY <1>2, <1>3 DEF Serialized
<1>8. /\ Serialized(x) \in Seq(StoredByte) /\ Len(Serialized(x)) = Len(a) + Len(b)
      /\ \A i \in 1..(Len(a) + Len(b)) :
            Serialized(x)[i] = IF i <= Len(a) THEN a[i] ELSE b[i - Len(a)]
  <2>1. /\ a \o b \in Seq(StoredByte) /\ Len(a \o b) = Len(a) + Len(b)
        /\ \A i \in 1..(Len(a) + Len(b)) : (a \o b)[i] = IF i <= Len(a) THEN a[i] ELSE b[i - Len(a)]
    BY <1>5, <1>6, ConcatProperties
  <2> QED
    BY <1>7, <2>1, Zenon
<1>9. ASSUME NEW k \in 1..Len(x), NEW n \in 1..Packed[x[k]]
      PROVE  Serialized(x)[BoundaryOffset(x, k - 1) + n] = <<x[k], n>>
  <2>1. k - 1 \in 0..Len(x) /\ k \in 0..Len(x) /\ Len(x) \in k..Len(x) /\ x[k] \in Chunk
    BY <1>1
  <2>2. /\ BoundaryOffset(x, k) = BoundaryOffset(x, k - 1) + Packed[x[k]]
        /\ BoundaryOffset(x, k - 1) \in Nat /\ BoundaryOffset(x, Len(x)) \in Nat
    BY <1>1, <2>1, OffsetRecursion
  <2>3. BoundaryOffset(x, k) <= BoundaryOffset(x, Len(x))
    BY <1>1, <2>1, OffsetMonotone
  <2>4. Packed[x[k]] \in Nat
    BY <2>1, ReconstructAssumption
  <2>5. PICK p : p = BoundaryOffset(x, k - 1) + n
    OBVIOUS
  <2>6. p \in 1..(Len(a) + Len(b)) /\ p <= Len(a)
    <3>1. \A u, v, r \in Nat : \A y \in 1..v :
             u + v <= r => u + y <= r /\ u + y \in 1..(r + 1)
      OBVIOUS
    <3>2. /\ BoundaryOffset(x, k - 1) + Packed[x[k]] <= Len(a)
          /\ Len(a) \in Nat /\ Len(b) = 1
      BY <1>4, <1>6, <2>2, <2>3
    <3> QED
      BY <2>2, <2>4, <2>5, <3>1, <3>2
  <2>7. Serialized(x)[p] = a[p]
    BY <1>8, <2>6
  <2> QED
    BY <1>4, <2>5, <2>7
<1>10. Len(Serialized(x)) = BoundaryOffset(x, Len(x)) + 1
  BY <1>4, <1>6, <1>8
<1> QED
  BY <1>8, <1>9, <1>10, Zenon

-----------------------------------------------------------------------------
(* What a reader fetches and decodes *)

\* A part of a xorb that is not empty.
Part(e) == e.xorb \in Xorb /\ e.start \in Nat /\ e.end \in Nat /\ e.start < e.end /\ e.end <= Len(e.xorb)

\* The range asked for lies inside the chunks of the object.
LEMMA RangeOfPart ==
    ASSUME NEW e, Part(e)
    PROVE  /\ ByteStart(e) = BoundaryOffset(e.xorb, e.start)
           /\ ByteEnd(e) = BoundaryOffset(e.xorb, e.end) - 1
           /\ ByteStart(e) \in Nat /\ ByteEnd(e) \in Nat
           /\ ByteStart(e) <= ByteEnd(e)
           /\ ByteEnd(e) + 1 < Len(Serialized(e.xorb))
<1> DEFINE x == e.xorb
           bo(k) == BoundaryOffset(x, k)
<1>1. x \in Seq(Chunk) /\ x \in Xorb /\ e.start \in 0..Len(x) /\ e.end \in 1..Len(x)
  BY DEF Part, Xorb
<1>2. e.start \in 0..Len(x) /\ e.end - 1 \in e.start..Len(x) /\ e.end - 1 \in 0..Len(x)
      /\ e.end \in 0..Len(x) /\ Len(x) \in e.end..Len(x) /\ x[e.end] \in Chunk
  BY <1>1 DEF Part
<1>3. bo(e.start) <= bo(e.end - 1) /\ bo(e.end) <= bo(Len(x))
  BY <1>1, <1>2, OffsetMonotone
<1>4. /\ bo(e.end) = bo(e.end - 1) + Packed[x[e.end]]
      /\ bo(e.start) \in Nat /\ bo(e.end - 1) \in Nat /\ bo(0) = 0
  BY <1>1, <1>2, OffsetRecursion
<1>5. bo(Len(x)) \in Nat
  BY <1>1, OffsetRecursion
<1>6. Packed[x[e.end]] \in Nat \ {0}
  BY <1>2, ReconstructAssumption
<1>7. Len(Serialized(x)) = bo(Len(x)) + 1
  BY <1>1, SerializedShape
<1>8. ByteStart(e) = bo(e.start) /\ ByteEnd(e) = bo(e.end) - 1
  BY <1>4 DEF ByteStart, ByteEnd
<1> HIDE DEF bo, x
<1>9. /\ ByteStart(e) \in Nat /\ ByteEnd(e) \in Nat
      /\ ByteStart(e) <= ByteEnd(e)
      /\ ByteEnd(e) + 1 < Len(Serialized(x))
  BY <1>3, <1>4, <1>5, <1>6, <1>7, <1>8
<1> QED
  BY <1>8, <1>9 DEF bo, x

\* What SubSeq cuts out between two offsets.
LEMMA Cut ==
    ASSUME NEW T, NEW d \in Seq(T), NEW b \in 0..Len(d), NEW m \in 0..Len(d)
    PROVE  /\ SubSeq(d, b + 1, m) \in Seq(T)
           /\ Len(SubSeq(d, b + 1, m)) = IF b <= m THEN m - b ELSE 0
           /\ \A p \in 1..Len(SubSeq(d, b + 1, m)) : SubSeq(d, b + 1, m)[p] = d[b + p]
<1>1. CASE b <= m
  <2>1. \A p \in 1..(m - b) : (b + 1) + p - 1 = b + p /\ b + p \in 1..Len(d)
    BY <1>1
  <2>2. Len(SubSeq(d, b + 1, m)) = m - b
    BY <1>1
  <2>3. \A p \in 1..(m - b) : SubSeq(d, b + 1, m)[p] = d[b + p]
    BY <1>1
  <2> QED
    BY <1>1, <2>2, <2>3
<1>2. CASE ~(b <= m)
  BY <1>2
<1> QED
  BY <1>1, <1>2

\* The body of an answer is the object from where the entry's first chunk
\* starts; if the object is there and its offsets fit a u64, up to where the
\* entry's last chunk ends.
LEMMA BodyPlace ==
    ASSUME NEW e, Part(e)
    PROVE  /\ Body(e) \in Seq(StoredByte)
           /\ \A p \in 1..Len(Body(e)) : Body(e)[p] = Serialized(e.xorb)[ByteStart(e) + p]
           /\ e.xorb \notin blobs => Body(e) = <<>>
           /\ e.xorb \in blobs /\ ByteEnd(e) + 1 < U64 =>
                 Len(Body(e)) = (ByteEnd(e) + 1) - ByteStart(e)
<1>1. PICK d : d = Serialized(e.xorb)
  OBVIOUS
<1>2. PICK s : s = ByteStart(e)
  OBVIOUS
<1>3. PICK l : l = ByteEnd(e)
  OBVIOUS
<1> DEFINE h == [start |-> s, end |-> l]
           range == ParseRange(h, Len(d))
<1>4. d \in Seq(StoredByte)
  BY <1>1, SerializedShape DEF Part
<1>5. s \in Nat /\ l \in Nat /\ s <= l /\ l + 1 < Len(d) /\ Len(d) \in Nat
  BY <1>1, <1>2, <1>3, <1>4, RangeOfPart
<1>6. h \in [start : Nat, end : Nat] /\ h # NoRange /\ h.start = s /\ h.end = l
  BY <1>5, RangesAssumption
<1>7. U64 \in Nat \ {0}
  BY RangesAssumption
<1>8. Body(e) = IF e.xorb \notin blobs \/ range = NoRange
                   THEN <<>> ELSE GetRange(d, range.start, range.end)
  BY <1>1, <1>2, <1>3 DEF Body
<1>9. CASE e.xorb \notin blobs \/ range = NoRange
  <2>1. Body(e) = <<>>
    BY <1>8, <1>9
  <2>2. e.xorb \in blobs => ~(l + 1 < U64)
    <3> SUFFICES ASSUME l + 1 < U64 PROVE range # NoRange
      BY <1>9
    <3>1. EndOf(h, Len(d)) = l
      BY <1>5, <1>6, <1>7 DEF EndOf, OpenEnd
    <3>2. Unparsed \notin {h.start, h.end} /\ ~(h.start > l) /\ ~(h.start >= Len(d))
      BY <1>5, <1>6, <1>7 DEF Unparsed
    <3>3. Least(l, LastByte(Len(d))) = l
      BY <1>5 DEF Least, LastByte
    <3> HIDE DEF h
    <3>4. range = [start |-> s, end |-> l]
      BY <1>6, <3>1, <3>2, <3>3 DEF ParseRange
    <3>5. [start |-> s, end |-> l] \in [start : Nat, end : Nat]
      BY <1>5
    <3> QED
      BY <3>4, <3>5, RangesAssumption
  <2> QED
    BY <1>3, <2>1, <2>2
<1>10. CASE e.xorb \in blobs /\ range # NoRange
  <2>1. /\ range = [start |-> s, end |-> Least(EndOf(h, Len(d)), LastByte(Len(d)))]
        /\ Unparsed \notin {h.start, h.end}
    <3> HIDE DEF h
    <3> QED
      BY <1>6, <1>10 DEF ParseRange
  <2> DEFINE z == Least(EndOf(h, Len(d)), LastByte(Len(d)))
             m == Least((z + 1) % U64, Len(d))
  <2>2. range.start = s /\ range.end = z
    BY <2>1
  <2>3. z \in Nat /\ (l + 1 < U64 => z = l)
    BY <1>5, <1>6, <1>7 DEF Least, EndOf, LastByte, OpenEnd
  <2> HIDE DEF z, range, h
  <2>4. (z + 1) % U64 \in Nat /\ (z + 1 < U64 => (z + 1) % U64 = z + 1)
    BY <1>7, <2>3
  <2>5. m \in 0..Len(d) /\ (l + 1 < U64 => m = l + 1)
    BY <1>5, <2>3, <2>4 DEF Least
  <2>6. Least(s, Len(d)) = s /\ s \in 0..Len(d)
    BY <1>5 DEF Least
  <2>7. Body(e) = SubSeq(d, s + 1, m)
    BY <1>8, <1>10, <2>2, <2>6 DEF GetRange
  <2> HIDE DEF m
  <2>8. /\ Body(e) \in Seq(StoredByte)
        /\ Len(Body(e)) = IF s <= m THEN m - s ELSE 0
        /\ \A p \in 1..Len(Body(e)) : Body(e)[p] = d[s + p]
    BY <1>4, <2>5, <2>6, <2>7, Cut
  <2>9. l + 1 < U64 => Len(Body(e)) = (l + 1) - s
    BY <1>5, <2>5, <2>8
  <2> QED
    BY <1>1, <1>2, <1>3, <1>10, <2>8, <2>9
<1> QED
  BY <1>9, <1>10

\* A prefix agrees element by element.
LEMMA PrefixMeans ==
    ASSUME NEW a \in Seq(StoredByte), NEW b \in Seq(StoredByte)
    PROVE  IsPrefix(a, b) <=> Len(a) <= Len(b) /\ \A p \in 1..Len(a) : a[p] = b[p]
<1> SUFFICES ASSUME Len(a) <= Len(b)
             PROVE  SubSeq(a, 1, Len(a)) = SubSeq(b, 1, Len(a)) <=> \A p \in 1..Len(a) : a[p] = b[p]
  BY DEF IsPrefix
<1> DEFINE s == SubSeq(a, 1, Len(a))
           t == SubSeq(b, 1, Len(a))
<1>1. /\ s \in Seq(StoredByte) /\ Len(s) = Len(a)
      /\ \A p \in 1..Len(a) : s[p] = a[p]
  OBVIOUS
<1>2. /\ t \in Seq(StoredByte) /\ Len(t) = Len(a)
      /\ \A p \in 1..Len(a) : t[p] = b[p]
  OBVIOUS
<1> HIDE DEF s, t
<1>3. s = t <=> \A p \in 1..Len(a) : s[p] = t[p]
  BY <1>1, <1>2, SeqEqual
<1> QED
  BY <1>1, <1>2, <1>3 DEF s, t

\* Chunks that decode from the body of entry e are the xorb's chunks from the
\* entry's first on: a chunk's bytes name it.
LEMMA DecodedIsThere ==
    ASSUME NEW e, Part(e), NEW w \in 1..(Len(e.xorb) - e.start), NEW cs \in [1..w -> Chunk],
           IsPrefix(PackedBytes(cs), Body(e))
    PROVE  \A i \in 1..w : cs[i] = e.xorb[e.start + i]
<1>1. PICK x : x = e.xorb
  OBVIOUS
<1>2. PICK s : s = e.start
  OBVIOUS
<1>3. x \in Xorb /\ x \in Seq(Chunk) /\ s \in 0..Len(x) /\ Len(x) \in Nat /\ w \in 1..(Len(x) - s)
  BY <1>1, <1>2 DEF Part, Xorb
<1>4. w \in Nat \ {0} /\ cs \in Seq(Chunk) /\ Len(cs) = w /\ cs # <<>>
  BY <1>3
<1>5. PICK a : a = PackedBytes(cs)
  OBVIOUS
<1>6. PICK b : b = Body(e)
  OBVIOUS
<1>7. /\ a \in Seq(Byte) /\ Len(a) = BoundaryOffset(cs, w)
      /\ \A k \in 1..w : \A n \in 1..Packed[cs[k]] : a[BoundaryOffset(cs, k - 1) + n] = <<cs[k], n>>
  BY <1>4, <1>5, PackedShape
<1>8. a \in Seq(StoredByte)
  BY <1>7 DEF StoredByte
<1>9. /\ b \in Seq(StoredByte)
      /\ \A p \in 1..Len(b) : b[p] = Serialized(x)[BoundaryOffset(x, s) + p]
  BY <1>1, <1>2, <1>6, BodyPlace, RangeOfPart
<1>10. Len(a) <= Len(b) /\ \A p \in 1..Len(a) : a[p] = b[p]
  BY <1>5, <1>6, <1>8, <1>9, PrefixMeans
<1> DEFINE Bad == {i \in 1..w : cs[i] # x[s + i]}
<1> SUFFICES ASSUME Bad # {} PROVE FALSE
  BY <1>1, <1>2
<1>11. PICK i \in Bad : \A j \in Bad : i <= j
  <2>1. Bad \subseteq Nat
    OBVIOUS
  <2> HIDE DEF Bad
  <2> QED
    BY <2>1, LeastNat
<1>12. i \in 1..w /\ cs[i] # x[s + i] /\ \A j \in 1..(i - 1) : cs[j] = x[s + j]
  BY <1>11
<1>13. i - 1 \in 0..(Len(x) - s) /\ i - 1 <= Len(cs) /\ i - 1 \in 0..(i - 1)
       /\ s + (i - 1) = (s + i) - 1 /\ s + i \in 1..Len(x) /\ i - 1 \in 0..Len(cs) /\ i \in 0..Len(cs)
       /\ Len(cs) \in i..Len(cs) /\ i \in 1..Len(cs)
  BY <1>3, <1>4, <1>12
<1>14. BoundaryOffset(x, s + (i - 1)) = BoundaryOffset(x, s) + BoundaryOffset(cs, i - 1)
  <2>1. PICK v : v = i - 1
    OBVIOUS
  <2>2. v \in 0..(Len(x) - s) /\ v <= Len(cs) /\ v \in 0..v /\ \A j \in 1..v : cs[j] = x[s + j]
    BY <1>12, <1>13, <2>1
  <2>3. \A j \in 0..v : BoundaryOffset(x, s + j) = BoundaryOffset(x, s) + BoundaryOffset(cs, j)
    <3>1. x \in Seq(Chunk) /\ s \in 0..Len(x)
      BY <1>3
    <3>2. cs \in Seq(Chunk)
      BY <1>4
    <3> QED
      BY <2>2, <3>1, <3>2, OffsetShift, ZenonT(30)
  <2> QED
    BY <2>1, <2>2, <2>3
<1>15. cs[i] \in Chunk /\ x[s + i] \in Chunk
  BY <1>3, <1>4, <1>13
<1>16. Packed[cs[i]] \in Nat \ {0} /\ Packed[x[s + i]] \in Nat \ {0}
  BY <1>15, ReconstructAssumption
<1>17. PICK p : p = BoundaryOffset(cs, i - 1) + 1
  OBVIOUS
<1>18. /\ BoundaryOffset(cs, i) = BoundaryOffset(cs, i - 1) + Packed[cs[i]]
       /\ BoundaryOffset(cs, i - 1) \in Nat /\ BoundaryOffset(cs, w) \in Nat
  <2>1. Len(cs) \in 0..Len(cs)
    BY <1>4
  <2>2. /\ \A k \in 0..Len(cs) : BoundaryOffset(cs, k) \in Nat
        /\ \A k \in 1..Len(cs) : BoundaryOffset(cs, k) = BoundaryOffset(cs, k - 1) + Packed[cs[k]]
    BY <1>4, OffsetRecursion
  <2> QED
    BY <1>4, <1>13, <2>1, <2>2
<1>19. BoundaryOffset(cs, i) <= BoundaryOffset(cs, w)
  BY <1>4, <1>13, OffsetMonotone
<1>20. p \in 1..Len(a) /\ p \in 1..Len(b)
  <2>1. p \in Nat /\ 1 <= p /\ p <= Len(a)
    BY <1>7, <1>16, <1>17, <1>18, <1>19
  <2> QED
    BY <1>9, <1>10, <2>1
<1>21. a[p] = <<cs[i], 1>>
  <2>1. 1 \in 1..Packed[cs[i]]
    BY <1>16
  <2> QED
    BY <1>7, <1>12, <1>17, <2>1
<1>22. b[p] = <<x[s + i], 1>>
  <2>1. 1 \in 1..Packed[x[s + i]]
    BY <1>16
  <2>2. Serialized(x)[BoundaryOffset(x, (s + i) - 1) + 1] = <<x[s + i], 1>>
    BY <1>3, <1>13, <2>1, SerializedShape
  <2>3. BoundaryOffset(x, s) \in Nat
    BY <1>3, OffsetRecursion
  <2>4. BoundaryOffset(x, (s + i) - 1) + 1 = BoundaryOffset(x, s) + p
    BY <1>13, <1>14, <1>17, <1>18, <2>3
  <2> QED
    BY <1>9, <1>20, <2>2, <2>4
<1>23. <<cs[i], 1>> = <<x[s + i], 1>>
  BY <1>10, <1>20, <1>21, <1>22
<1> QED
  BY <1>12, <1>23

\* If the object is there and its offsets fit a u64, every run of chunks that
\* begins where entry e begins and ends inside it decodes.
LEMMA DecodeSucceeds ==
    ASSUME NEW e, Part(e), e.xorb \in blobs, BoundaryOffset(e.xorb, e.end) < U64,
           NEW w \in 1..(e.end - e.start)
    PROVE  \E cs \in [1..w -> Chunk] : IsPrefix(PackedBytes(cs), Body(e))
<1>1. PICK x : x = e.xorb
  OBVIOUS
<1>2. PICK s : s = e.start
  OBVIOUS
<1>3. x \in Xorb /\ x \in Seq(Chunk) /\ s \in 0..Len(x) /\ Len(x) \in Nat /\ w \in 1..(Len(x) - s)
      /\ e.end \in 1..Len(x) /\ s + w \in 0..Len(x) /\ e.end \in (s + w)..Len(x)
  BY <1>1, <1>2 DEF Part, Xorb
<1> DEFINE cs == [i \in 1..w |-> x[s + i]]
<1>4. /\ w \in Nat \ {0} /\ cs \in [1..w -> Chunk] /\ cs \in Seq(Chunk) /\ Len(cs) = w /\ cs # <<>>
      /\ \A i \in 1..w : cs[i] = x[s + i]
  BY <1>3
<1> HIDE DEF cs
<1>5. PICK a : a = PackedBytes(cs)
  OBVIOUS
<1>6. PICK b : b = Body(e)
  OBVIOUS
<1>7. /\ a \in Seq(Byte) /\ Len(a) = BoundaryOffset(cs, w)
      /\ \A k \in 1..w : \A n \in 1..Packed[cs[k]] : a[BoundaryOffset(cs, k - 1) + n] = <<cs[k], n>>
  BY <1>4, <1>5, PackedShape
<1>8. a \in Seq(StoredByte)
  BY <1>7 DEF StoredByte
<1>9. ByteStart(e) = BoundaryOffset(x, s) /\ ByteEnd(e) + 1 = BoundaryOffset(x, e.end)
      /\ BoundaryOffset(x, s) \in Nat /\ BoundaryOffset(x, e.end) \in Nat
  <2>1. ByteStart(e) = BoundaryOffset(x, s) /\ ByteEnd(e) = BoundaryOffset(x, e.end) - 1
    BY <1>1, <1>2, RangeOfPart
  <2>2. BoundaryOffset(x, s) \in Nat /\ BoundaryOffset(x, e.end) \in Nat
    BY <1>3, OffsetRecursion
  <2> QED
    BY <2>1, <2>2
<1>10. /\ b \in Seq(StoredByte) /\ Len(b) = BoundaryOffset(x, e.end) - BoundaryOffset(x, s)
       /\ \A p \in 1..Len(b) : b[p] = Serialized(x)[BoundaryOffset(x, s) + p]
  BY <1>1, <1>6, <1>9, BodyPlace
<1>11. \A i \in 0..w : BoundaryOffset(x, s + i) = BoundaryOffset(x, s) + BoundaryOffset(cs, i)
  <2>1. w \in 0..(Len(x) - s) /\ w <= Len(cs)
    BY <1>3, <1>4
  <2> QED
    BY <1>3, <1>4, <2>1, OffsetShift
<1>12. \A i \in 0..w : BoundaryOffset(cs, i) \in Nat
  BY <1>4, OffsetRecursion
<1>13. Len(a) <= Len(b)
  <2>1. BoundaryOffset(x, s + w) <= BoundaryOffset(x, e.end)
    BY <1>3, OffsetMonotone
  <2>2. BoundaryOffset(x, s + w) = BoundaryOffset(x, s) + BoundaryOffset(cs, w) /\ BoundaryOffset(cs, w) \in Nat
    BY <1>4, <1>11, <1>12
  <2> QED
    BY <1>7, <1>9, <1>10, <2>1, <2>2
<1>14. ASSUME NEW p \in 1..Len(a)
       PROVE  a[p] = b[p]
  <2>1. PICK k \in 1..w : \E n \in 1..Packed[cs[k]] : p = BoundaryOffset(cs, k - 1) + n
    <3>1. p \in 1..BoundaryOffset(cs, Len(cs))
      BY <1>4, <1>7
    <3>2. \E k \in 1..Len(cs) : \E n \in 1..Packed[cs[k]] : p = BoundaryOffset(cs, k - 1) + n
      BY <1>4, <3>1, OffsetLocates
    <3> QED
      BY <1>4, <3>2
  <2>2. PICK n \in 1..Packed[cs[k]] : p = BoundaryOffset(cs, k - 1) + n
    BY <2>1
  <2>3. a[p] = <<cs[k], n>> /\ cs[k] = x[s + k] /\ k - 1 \in 0..w
    <3>1. a[p] = <<cs[k], n>>
      BY <1>7, <2>2
    <3>2. cs[k] = x[s + k]
      BY <1>4
    <3>3. k - 1 \in 0..w
      BY <1>4
    <3> QED
      BY <3>1, <3>2, <3>3
  <2>4. s + k \in 1..Len(x) /\ (s + k) - 1 = s + (k - 1)
    <3>1. s \in Nat /\ w \in Nat /\ Len(x) \in Nat /\ s + w <= Len(x)
      BY <1>3, <1>4
    <3> QED
      BY <3>1
  <2>5. Serialized(x)[BoundaryOffset(x, (s + k) - 1) + n] = <<x[s + k], n>>
    BY <1>3, <2>3, <2>4, SerializedShape
  <2>6. Packed[cs[k]] \in Nat
    BY <1>4, ReconstructAssumption
  <2>7. BoundaryOffset(x, (s + k) - 1) + n = BoundaryOffset(x, s) + p
    <3>1. BoundaryOffset(x, s + (k - 1)) = BoundaryOffset(x, s) + BoundaryOffset(cs, k - 1)
      BY <1>11, <2>3
    <3>2. BoundaryOffset(cs, k - 1) \in Nat /\ BoundaryOffset(x, s) \in Nat /\ n \in Nat
      BY <1>9, <1>12, <2>3, <2>6
    <3>3. \A u, v \in Nat : (u + v) + n = u + (v + n)
      BY <3>2
    <3> QED
      BY <2>2, <2>4, <3>1, <3>2, <3>3
  <2>8. p \in 1..Len(b)
    BY <1>8, <1>10, <1>13
  <2> QED
    BY <1>10, <2>3, <2>5, <2>7, <2>8
<1>15. IsPrefix(a, b)
  BY <1>8, <1>10, <1>13, <1>14, PrefixMeans
<1> QED
  BY <1>4, <1>5, <1>6, <1>15

\* find() succeeds: a term's own entry covers it.
LEMMA EntryExists ==
    ASSUME NEW ts \in Seq(Term), NEW k \in 1..Len(ts)
    PROVE  EntryFor(ts, k) \in 1..Len(ts) /\ Covers(ts[EntryFor(ts, k)], ts[k])
<1> DEFINE S == {i \in 1..Len(ts) : Covers(ts[i], ts[k])}
<1>1. k \in S
  <2>1. ts[k] \in Term
    OBVIOUS
  <2>2. ts[k].start \in Nat /\ ts[k].end \in Nat
    BY <2>1 DEF Term
  <2> QED
    BY <2>2 DEF Covers
<1>2. PICK i \in S : \A j \in S : i <= j
  <2>1. S \subseteq Nat /\ S # {}
    BY <1>1
  <2> HIDE DEF S
  <2> QED
    BY <2>1, LeastNat
<1>3. i \in 1..Len(ts) /\ Covers(ts[i], ts[k]) /\ \A h \in 1..(i - 1) : ~Covers(ts[h], ts[k])
  BY <1>2
<1>4. \E j \in 1..Len(ts) : Covers(ts[j], ts[k]) /\ \A h \in 1..(j - 1) : ~Covers(ts[h], ts[k])
  BY <1>3
<1> QED
  BY <1>4, Zenon DEF EntryFor

\* Terms and entries of a plan that spells a file.
LEMMA PlanParts ==
    ASSUME NEW f \in Seq(Chunk), NEW ts \in Seq(Term), Tiles(ts, f, Len(f)), NEW k \in 1..Len(ts)
    PROVE  LET e == ts[EntryFor(ts, k)]
               t == ts[k]
           IN  /\ Part(e) /\ Part(t) /\ Spells(t, f)
               /\ e.xorb = t.xorb /\ e.start <= t.start /\ e.end >= t.end
               /\ t.at \in Nat /\ Width(t) \in 1..(e.end - e.start)
               /\ Width(t) \in 1..(Len(e.xorb) - e.start)
               /\ t.at + Width(t) <= Len(f)
<1> DEFINE e == ts[EntryFor(ts, k)]
           t == ts[k]
<1>1. e \in Term /\ t \in Term /\ Spells(e, f) /\ Spells(t, f) /\ Covers(e, t)
  BY EntryExists DEF Tiles
<1> HIDE DEF e, t
<1>2. Part(e) /\ Part(t)
  BY <1>1 DEF Term, Spells, Part
<1>3. e.xorb = t.xorb /\ e.start <= t.start /\ e.end >= t.end /\ t.at \in Nat /\ t.at + Width(t) <= Len(f)
  BY <1>1 DEF Covers, Term, Spells
<1>4. Len(e.xorb) \in Nat
  BY <1>1 DEF Term, Xorb
<1>5. Width(t) \in 1..(e.end - e.start) /\ Width(t) \in 1..(Len(e.xorb) - e.start)
  BY <1>2, <1>3, <1>4 DEF Part, Width
<1> QED
  BY <1>1, <1>2, <1>3, <1>5 DEF e, t

\* What a term decodes to has the term's width and, where the term is read from
\* its own place, is what the file has there.
LEMMA DecodedExact ==
    ASSUME NEW f \in Seq(Chunk), NEW ts \in Seq(Term), Tiles(ts, f, Len(f)), NEW k \in 1..Len(ts),
           NEW cs \in Decode(Body(ts[EntryFor(ts, k)]), ts[k])
    PROVE  /\ cs \in Seq(Chunk) /\ Len(cs) = Width(ts[k])
           /\ Aligned(ts, k) => cs = SubSeq(f, ts[k].at + 1, ts[k].at + Width(ts[k]))
<1>1. PICK e : e = ts[EntryFor(ts, k)]
  OBVIOUS
<1>2. PICK t : t = ts[k]
  OBVIOUS
<1>3. PICK w : w = Width(t)
  OBVIOUS
<1>4. /\ Part(e) /\ Part(t) /\ Spells(t, f) /\ e.xorb = t.xorb /\ t.at \in Nat
      /\ w \in 1..(Len(e.xorb) - e.start) /\ t.at + w <= Len(f)
  BY <1>1, <1>2, <1>3, PlanParts
<1>5. cs \in [1..w -> Chunk] /\ IsPrefix(PackedBytes(cs), Body(e))
  BY <1>1, <1>2, <1>3 DEF Decode
<1>6. w \in Nat /\ t.start \in Nat
  BY <1>4 DEF Part, Xorb
<1>7. cs \in Seq(Chunk) /\ Len(cs) = w
  BY <1>5, <1>6
<1>8. ASSUME e.start = t.start
      PROVE  cs = SubSeq(f, t.at + 1, t.at + w)
  <2>1. \A i \in 1..w : cs[i] = t.xorb[t.start + i]
    BY <1>4, <1>5, <1>8, DecodedIsThere
  <2>2. \A d \in 0..(w - 1) : t.xorb[t.start + d + 1] = f[t.at + d + 1]
    BY <1>3, <1>4 DEF Spells
  <2>3. \A i \in 1..w : t.xorb[t.start + i] = f[t.at + i]
    <3> SUFFICES ASSUME NEW i \in 1..w PROVE t.xorb[t.start + i] = f[t.at + i]
      OBVIOUS
    <3>1. i - 1 \in 0..(w - 1) /\ t.start + (i - 1) + 1 = t.start + i /\ t.at + (i - 1) + 1 = t.at + i
      BY <1>4, <1>6
    <3>2. t.xorb[t.start + (i - 1) + 1] = f[t.at + (i - 1) + 1]
      BY <2>2, <3>1
    <3> QED
      BY <3>1, <3>2
  <2>4. PICK b : b = t.at
    OBVIOUS
  <2>5. PICK m : m = b + w
    OBVIOUS
  <2>6. b \in 0..Len(f) /\ m \in 0..Len(f) /\ b <= m /\ m - b = w
    BY <1>4, <1>6, <2>4, <2>5
  <2>7. PICK s : s = SubSeq(f, b + 1, m)
    OBVIOUS
  <2>8. s \in Seq(Chunk) /\ Len(s) = w /\ \A p \in 1..w : s[p] = f[b + p]
    BY <2>6, <2>7, Cut
  <2>9. \A i \in 1..Len(cs) : cs[i] = s[i]
    BY <1>7, <2>1, <2>3, <2>4, <2>8
  <2>10. cs = s
    BY <1>7, <2>8, <2>9, SeqEqual
  <2> QED
    BY <2>4, <2>5, <2>7, <2>10
<1> QED
  BY <1>1, <1>2, <1>3, <1>7, <1>8 DEF Aligned

\* A term of which nothing can be decoded has lost its object, if offsets fit
\* a u64.
LEMMA UndecodableIsMissing ==
    ASSUME NEW f \in Seq(Chunk), NEW ts \in Seq(Term), Tiles(ts, f, Len(f)), NEW k \in 1..Len(ts),
           Decode(Body(ts[EntryFor(ts, k)]), ts[k]) = {},
           BoundaryOffset(ts[k].xorb, Len(ts[k].xorb)) < U64
    PROVE  ts[EntryFor(ts, k)].xorb \notin blobs
<1>1. PICK e : e = ts[EntryFor(ts, k)]
  OBVIOUS
<1>2. PICK w : w = Width(ts[k])
  OBVIOUS
<1>3. Part(e) /\ w \in 1..(e.end - e.start) /\ e.xorb = ts[k].xorb
  BY <1>1, <1>2, PlanParts
<1>4. e.xorb \in Seq(Chunk) /\ e.end \in 0..Len(e.xorb) /\ Len(e.xorb) \in e.end..Len(e.xorb)
      /\ Len(e.xorb) \in 0..Len(e.xorb)
  BY <1>3 DEF Part, Xorb
<1>5. BoundaryOffset(e.xorb, e.end) <= BoundaryOffset(e.xorb, Len(e.xorb))
  BY <1>4, OffsetMonotone
<1>6. BoundaryOffset(e.xorb, e.end) \in Nat /\ BoundaryOffset(e.xorb, Len(e.xorb)) \in Nat
  BY <1>4, OffsetRecursion
<1>7. BoundaryOffset(e.xorb, e.end) < U64
  BY <1>3, <1>5, <1>6, RangesAssumption
<1>8. e.xorb \in blobs => \E cs \in [1..w -> Chunk] : IsPrefix(PackedBytes(cs), Body(e))
  BY <1>3, <1>7, DecodeSucceeds
<1>9. \A cs \in [1..w -> Chunk] : ~IsPrefix(PackedBytes(cs), Body(e))
  BY <1>1, <1>2 DEF Decode
<1> QED
  BY <1>1, <1>8, <1>9

-----------------------------------------------------------------------------
(* The invariant *)

\* Xorbs keep to the cap on chunks: the agents' packing loop obeys it, and
\* nobody else makes xorbs.
SmallXorbs ==
    /\ \A x \in xorbs : Len(x) <= MaxXorbChunks
    /\ \A a \in Client : storing[a] # None => Len(storing[a]) <= MaxXorbChunks
    /\ \A a \in Client : putting[a] # None => Len(putting[a]) <= MaxXorbChunks

\* What holds of a read of f under way with plan ts and result o: the plan
\* spells the file, in xorbs that keep to the cap, and what is read so far is
\* right.
SoundRead(f, ts, o) ==
    /\ f = None => ts = <<>> /\ o = <<>>
    /\ f # None => Tiles(ts, f, Len(f))
    /\ \A k \in 1..Len(ts) : Len(ts[k].xorb) <= MaxXorbChunks
    /\ \A k \in 1..Len(o) :
         /\ Len(o[k]) = Width(ts[k])
         /\ Aligned(ts, k) => o[k] = SubSeq(f, ts[k].at + 1, ts[k].at + Width(ts[k]))

ReadSound(r) == SoundRead(rfile[r], plan[r], out[r])

RInv ==
    /\ IInv
    /\ SmallXorbs
    /\ ReaderTypeOK
    /\ \A r \in Reader : ReadSound(r)

LEMMA SmallXorbsStep == TypeOK /\ SmallXorbs /\ [Next]_vars => SmallXorbs'
<1> SUFFICES ASSUME TypeOK, SmallXorbs, [Next]_vars PROVE SmallXorbs'
  OBVIOUS
<1> USE DEF xetdVars, index, gc, put
<1>1. /\ storing \in [Client -> Xorb \cup {None}] /\ putting \in [Client -> Xorb \cup {None}]
  BY DEF TypeOK, XetdTypeOK
<1>2. ASSUME UNCHANGED <<xorbs, storing, putting>>
      PROVE  SmallXorbs'
  BY <1>2 DEF SmallXorbs
<1>3. ASSUME NEW a \in Client, UploadXorb(a)
      PROVE  SmallXorbs'
  <2>1. PICK j \in (pos[a] + 1)..Len(content[a]) :
            /\ NovelRun(content[a], locs[a], pos[a], j)
            /\ LET x == SubSeq(content[a], pos[a] + 1, j)
               IN  PutXorbFound(a, x) \/ PutXorbMissed(a, x)
    BY <1>3 DEF UploadXorb
  <2> DEFINE x == SubSeq(content[a], pos[a] + 1, j)
  <2>2. pos[a] \in Nat /\ content[a] \in Seq(Chunk)
    BY <1>3, Running, XetdAssumption DEF UploadXorb, Walking
  <2>3. j - pos[a] <= MaxXorbChunks
    BY <2>1, <2>2, XetAssumption DEF NovelRun, Fits
  <2>4. Len(x) = j - pos[a]
    BY <2>1, <2>2
  <2>5. Len(x) <= MaxXorbChunks
    BY <2>3, <2>4
  <2>6. /\ UNCHANGED <<xorbs, putting>>
        /\ storing' = storing \/ storing' = [storing EXCEPT ![a] = x]
    BY <2>1 DEF PutXorbFound, PutXorbMissed
  <2> HIDE DEF x
  <2> QED
    BY <1>1, <2>5, <2>6 DEF SmallXorbs
<1>4. ASSUME NEW a \in Client, UploadStored(a) \/ UploadGivesWay(a)
      PROVE  SmallXorbs'
  <2>1. /\ storing[a] # None /\ UNCHANGED xorbs
        /\ storing' = [storing EXCEPT ![a] = None]
        /\ putting' = putting \/ putting' = [putting EXCEPT ![a] = storing[a]]
    BY <1>4 DEF UploadStored, PutXorbStored, UploadGivesWay, PutXorbGivesWay
  <2> QED
    BY <1>1, <2>1 DEF SmallXorbs
<1>5. ASSUME NEW a \in Client, UploadIndexed(a)
      PROVE  SmallXorbs'
  <2>1. /\ putting[a] # None /\ xorbs' = xorbs \cup {putting[a]} /\ UNCHANGED storing
        /\ putting' = [putting EXCEPT ![a] = None]
    BY <1>5 DEF UploadIndexed, PutXorbIndex
  <2> QED
    BY <1>1, <2>1 DEF SmallXorbs
<1>6. ASSUME NEW a \in Client, RequestLost(a)
      PROVE  SmallXorbs'
  <2>1. /\ xorbs' = xorbs /\ putting' = [putting EXCEPT ![a] = None]
        /\ storing' = [storing EXCEPT ![a] = None]
    BY <1>6 DEF RequestLost, PutXorbDropped
  <2> QED
    BY <1>1, <2>1 DEF SmallXorbs
<1>7. CASE ServerRestart
  BY <1>7 DEF ServerRestart, Restart, SmallXorbs
<1>8. ASSUME NEW g \in Collector, GcRequest(g) \/ SweepStep(g)
      PROVE  SmallXorbs'
  <2>1. UNCHANGED <<storing, putting>> /\ (xorbs' = xorbs \/ xorbs' = xorbs \ {deleted[g]})
    BY <1>8 DEF GcRequest, GcMark, GcDropped, SweepStep, GcDelete, GcDeleteFails, Sweep, GcForget
  <2> QED
    BY <2>1 DEF SmallXorbs
<1>9. ASSUME NEW x \in stray, Land(x)
      PROVE  SmallXorbs'
  BY <1>2, <1>9 DEF Land, StrayLands
<1> QED
  BY <1>2, <1>3, <1>4, <1>5, <1>6, <1>7, <1>8, <1>9
  DEF Next, Fault, AgentStep, StartIngest, QueryChunk, WalkHit,
      Register, RegisterFile, RegisterRefused, RegisterReplyLost, vars

\* A failed read leaves nothing behind.
LEMMA ReadFailsStep ==
    ASSUME RInv, NEW r \in Reader, ReadFails(r)
    PROVE  ReaderTypeOK' /\ \A q \in Reader : ReadSound(q)'
<1>1. /\ rfile' = [rfile EXCEPT ![r] = None] /\ plan' = [plan EXCEPT ![r] = <<>>]
      /\ out' = [out EXCEPT ![r] = <<>>]
  BY DEF ReadFails
<1>2. /\ rfile \in [Reader -> Contents \cup {None}] /\ plan \in [Reader -> Seq(Term)]
      /\ out \in [Reader -> Seq(Seq(Chunk))]
  BY DEF RInv, ReaderTypeOK
<1>3. /\ rfile'[r] = None /\ plan'[r] = <<>> /\ out'[r] = <<>>
      /\ \A q \in Reader \ {r} : rfile'[q] = rfile[q] /\ plan'[q] = plan[q] /\ out'[q] = out[q]
  BY <1>1, <1>2
<1>4. ReaderTypeOK'
  <2>1. rfile' \in [Reader -> Contents \cup {None}] /\ plan' \in [Reader -> Seq(Term)]
        /\ out' \in [Reader -> Seq(Seq(Chunk))]
    BY <1>1, <1>2
  <2>2. \A q \in Reader : Len(out'[q]) <= Len(plan'[q])
    <3>1. \A q \in Reader : Len(out[q]) <= Len(plan[q])
      BY DEF RInv, ReaderTypeOK
    <3>2. Len(out'[r]) <= Len(plan'[r])
      BY <1>3
    <3> QED
      BY <1>3, <3>1, <3>2
  <2> QED
    BY <2>1, <2>2 DEF ReaderTypeOK
<1>5. ReadSound(r)'
  BY <1>3 DEF ReadSound, SoundRead
<1>6. ASSUME NEW q \in Reader \ {r}
      PROVE  ReadSound(q)'
  BY <1>3 DEF RInv, ReadSound
<1> QED
  BY <1>4, <1>5, <1>6

\* A plan is the registered terms of the file, which spell it (FilesDenote).
LEMMA QueryPlanStep ==
    ASSUME RInv, NEW r \in Reader, NEW f \in Contents, QueryPlan(r, f)
    PROVE  ReaderTypeOK' /\ \A q \in Reader : ReadSound(q)'
<1>1. /\ rfile' = [rfile EXCEPT ![r] = f] /\ plan' = [plan EXCEPT ![r] = files[f]]
      /\ out' = [out EXCEPT ![r] = <<>>]
      /\ f \in Registered /\ XorbsOf(files[f]) \subseteq xorbs
  BY DEF QueryPlan, Resolvable
<1>2. /\ rfile \in [Reader -> Contents \cup {None}] /\ plan \in [Reader -> Seq(Term)]
      /\ out \in [Reader -> Seq(Seq(Chunk))]
  BY DEF RInv, ReaderTypeOK
<1>3. files[f] \in Seq(Term) /\ Tiles(files[f], f, Len(f)) /\ f # None
  <2>1. files[f] # None /\ files[f] \in Seq(Term) \cup {None} /\ Tiles(files[f], f, Len(f))
    BY <1>1 DEF RInv, IInv, TypeOK, XetdTypeOK, FilesDenote, Registered
  <2>2. f # None
    BY XetdAssumption
  <2> QED
    BY <2>1, <2>2
<1>4. \A k \in 1..Len(files[f]) : Len(files[f][k].xorb) <= MaxXorbChunks
  BY <1>1 DEF XorbsOf, RInv, SmallXorbs
<1>5. /\ rfile'[r] = f /\ plan'[r] = files[f] /\ out'[r] = <<>>
      /\ \A q \in Reader \ {r} : rfile'[q] = rfile[q] /\ plan'[q] = plan[q] /\ out'[q] = out[q]
  BY <1>1, <1>2
<1>6. ReaderTypeOK'
  <2>1. rfile' \in [Reader -> Contents \cup {None}] /\ plan' \in [Reader -> Seq(Term)]
        /\ out' \in [Reader -> Seq(Seq(Chunk))]
    BY <1>1, <1>2, <1>3
  <2>2. Len(files[f]) \in Nat
    BY <1>3
  <2>3. \A q \in Reader : Len(out'[q]) <= Len(plan'[q])
    BY <1>5, <2>2 DEF RInv, ReaderTypeOK
  <2> QED
    BY <2>1, <2>3 DEF ReaderTypeOK
<1>7. ReadSound(r)'
  <2>1. SoundRead(f, files[f], <<>>)
    BY <1>3, <1>4 DEF SoundRead
  <2> QED
    BY <1>5, <2>1 DEF ReadSound
<1>8. ASSUME NEW q \in Reader \ {r}
      PROVE  ReadSound(q)'
  BY <1>5 DEF RInv, ReadSound
<1> QED
  BY <1>6, <1>7, <1>8

\* A term is added as it decodes.
LEMMA FetchTermStep ==
    ASSUME RInv, NEW r \in Reader, FetchTerm(r)
    PROVE  ReaderTypeOK' /\ \A q \in Reader : ReadSound(q)'
<1>1. PICK cs \in Decoded(r) : out' = [out EXCEPT ![r] = Append(out[r], cs)]
  BY DEF FetchTerm
<1>2. rfile' = rfile /\ plan' = plan /\ Len(out[r]) < Len(plan[r])
  BY DEF FetchTerm, Fetching
<1>3. /\ rfile \in [Reader -> Contents \cup {None}] /\ plan \in [Reader -> Seq(Term)]
      /\ out \in [Reader -> Seq(Seq(Chunk))] /\ \A q \in Reader : Len(out[q]) <= Len(plan[q])
  BY DEF RInv, ReaderTypeOK
<1>4. PICK f : f = rfile[r]
  OBVIOUS
<1>5. PICK ts : ts = plan[r]
  OBVIOUS
<1>6. PICK o : o = out[r]
  OBVIOUS
<1>7. PICK k : k = Len(o) + 1
  OBVIOUS
<1>8. /\ f \in Contents \cup {None} /\ ts \in Seq(Term) /\ o \in Seq(Seq(Chunk))
      /\ k \in 1..Len(ts) /\ Len(o) \in Nat
  BY <1>2, <1>3, <1>4, <1>5, <1>6, <1>7
<1>9. SoundRead(f, ts, o)
  BY <1>4, <1>5, <1>6 DEF RInv, ReadSound
<1>10. f # None
  BY <1>8, <1>9 DEF SoundRead
<1>11. f \in Seq(Chunk) /\ Tiles(ts, f, Len(f))
  BY <1>8, <1>9, <1>10, XetdAssumption DEF SoundRead
<1>12. cs \in Decode(Body(ts[EntryFor(ts, k)]), ts[k])
  BY <1>1, <1>5, <1>6, <1>7 DEF Decoded, NextEntry
<1>13. /\ cs \in Seq(Chunk) /\ Len(cs) = Width(ts[k])
       /\ Aligned(ts, k) => cs = SubSeq(f, ts[k].at + 1, ts[k].at + Width(ts[k]))
  BY <1>8, <1>11, <1>12, DecodedExact
<1>14. PICK o2 : o2 = Append(o, cs)
  OBVIOUS
<1>15. /\ o2 \in Seq(Seq(Chunk)) /\ Len(o2) = k /\ o2[k] = cs
       /\ \A j \in 1..Len(o) : o2[j] = o[j]
  BY <1>7, <1>8, <1>13, <1>14
<1>16. SoundRead(f, ts, o2)
  <2>1. ASSUME NEW j \in 1..Len(o2)
        PROVE  /\ Len(o2[j]) = Width(ts[j])
               /\ Aligned(ts, j) => o2[j] = SubSeq(f, ts[j].at + 1, ts[j].at + Width(ts[j]))
    <3>1. j = k \/ j \in 1..Len(o)
      BY <1>7, <1>8, <1>15
    <3>2. CASE j = k
      BY <1>13, <1>15, <3>2
    <3>3. CASE j \in 1..Len(o)
      BY <1>9, <1>15, <3>3 DEF SoundRead
    <3> QED
      BY <3>1, <3>2, <3>3
  <2> QED
    BY <1>9, <1>10, <2>1 DEF SoundRead
<1>17. out'[r] = o2 /\ \A q \in Reader \ {r} : out'[q] = out[q]
  BY <1>1, <1>3, <1>6, <1>14
<1>18. ReaderTypeOK'
  <2>1. out' \in [Reader -> Seq(Seq(Chunk))]
    BY <1>1, <1>3, <1>6, <1>14, <1>15
  <2>2. \A q \in Reader : Len(out'[q]) <= Len(plan[q])
    <3>1. Len(o2) <= Len(plan[r])
      BY <1>5, <1>8, <1>15
    <3> QED
      BY <1>3, <1>17, <3>1
  <2> QED
    BY <1>2, <1>3, <2>1, <2>2 DEF ReaderTypeOK
<1>19. ASSUME NEW q \in Reader
       PROVE  ReadSound(q)'
  <2>1. CASE q = r
    BY <1>2, <1>4, <1>5, <1>16, <1>17, <2>1 DEF ReadSound
  <2>2. CASE q # r
    BY <1>2, <1>17, <2>2 DEF RInv, ReadSound
  <2> QED
    BY <2>1, <2>2
<1> QED
  BY <1>18, <1>19

LEMMA ReaderInitInductive == ReaderInit => RInv
<1> SUFFICES ASSUME ReaderInit PROVE RInv
  OBVIOUS
<1>1. IInv
  BY InitInductive DEF ReaderInit
<1>2. SmallXorbs
  BY DEF ReaderInit, Init, XetdInit, SmallXorbs
<1>3. /\ rfile = [r \in Reader |-> None] /\ plan = [r \in Reader |-> <<>>]
      /\ out = [r \in Reader |-> <<>>]
  BY DEF ReaderInit
<1>4. ReaderTypeOK
  BY <1>3 DEF ReaderTypeOK
<1>5. \A r \in Reader : ReadSound(r)
  BY <1>3 DEF ReadSound, SoundRead
<1> QED
  BY <1>1, <1>2, <1>4, <1>5 DEF RInv

LEMMA ReaderNextInductive == RInv /\ [ReaderNext]_allVars => RInv'
<1> SUFFICES ASSUME RInv, [ReaderNext]_allVars PROVE RInv'
  OBVIOUS
<1>1. [Next]_vars
  BY DEF ReaderNext, allVars, QueryPlan, PlanRefused, ReadFails, FetchTerm, FetchUndecodable
<1>2. IInv'
  BY <1>1, NextInductive DEF RInv
<1>3. SmallXorbs'
  BY <1>1, SmallXorbsStep DEF RInv, IInv
<1>4. ReaderTypeOK' /\ \A q \in Reader : ReadSound(q)'
  <2>1. CASE UNCHANGED readerVars
    BY <2>1 DEF readerVars, RInv, ReaderTypeOK, ReadSound
  <2>2. ASSUME NEW r \in Reader, NEW f \in Contents, QueryPlan(r, f) \/ PlanRefused(r, f)
        PROVE  ReaderTypeOK' /\ \A q \in Reader : ReadSound(q)'
    BY <2>2, QueryPlanStep, ReadFailsStep DEF PlanRefused
  <2>3. ASSUME NEW r \in Reader, FetchTerm(r) \/ FetchUndecodable(r)
        PROVE  ReaderTypeOK' /\ \A q \in Reader : ReadSound(q)'
    BY <2>3, FetchTermStep, ReadFailsStep DEF FetchUndecodable
  <2> QED
    BY <2>1, <2>2, <2>3 DEF ReaderNext, allVars
<1> QED
  BY <1>2, <1>3, <1>4 DEF RInv

\* The invariant holds in every reachable state, for any number of agents,
\* collectors, readers and failures.
THEOREM ReaderInductive == ReaderSpec => []RInv
BY ReaderInitInductive, ReaderNextInductive, PTL DEF ReaderSpec

-----------------------------------------------------------------------------
(* The theorems *)

\* Every variable of a reader keeps its type, and a reader never does more
\* terms than its plan has.
THEOREM ReaderTypeCorrect == ReaderSpec => []ReaderTypeOK
BY ReaderInductive, PTL DEF RInv

\* A read that returns has the length of the file, and every term that is read
\* from its own place contributes the file's chunks at that place, whatever
\* re-registrations, collections and restarts happened after the plan was
\* made.  The chunk offsets need not fit a u64: a range that wraps makes the
\* read fail, never return something else.
THEOREM AlignedReadsAreExact == ReaderSpec => []AlignedReadExact
<1>1. RInv => AlignedReadExact
  <2> SUFFICES ASSUME RInv, NEW r \in Reader, Returned(r)
               PROVE  LET width(k) == Len(out[r][k])
                          at(k) == plan[r][k].at
                      IN  /\ plan[r] = <<>> => rfile[r] = <<>>
                          /\ \A k \in 1..Len(plan[r]) :
                               /\ k = 1 => at(k) = 0
                               /\ at(k) + width(k) = IF k = Len(plan[r]) THEN Len(rfile[r]) ELSE at(k + 1)
                               /\ Aligned(plan[r], k) =>
                                    out[r][k] = SubSeq(rfile[r], at(k) + 1, at(k) + width(k))
    BY DEF AlignedReadExact
  <2>1. PICK f : f = rfile[r]
    OBVIOUS
  <2>2. PICK ts : ts = plan[r]
    OBVIOUS
  <2>3. PICK o : o = out[r]
    OBVIOUS
  <2>4. /\ f \in Contents \cup {None} /\ ts \in Seq(Term) /\ o \in Seq(Seq(Chunk))
        /\ Len(o) <= Len(ts) /\ ~(Len(o) < Len(ts)) /\ f # None
    BY <2>1, <2>2, <2>3 DEF RInv, ReaderTypeOK, Returned, Fetching
  <2>5. f \in Seq(Chunk) /\ Len(o) = Len(ts) /\ Len(ts) \in Nat
    BY <2>4, XetdAssumption
  <2>6. SoundRead(f, ts, o) /\ Tiles(ts, f, Len(f))
    BY <2>1, <2>2, <2>3, <2>4 DEF RInv, ReadSound, SoundRead
  <2>7. ts = <<>> => f = <<>>
    BY <2>5, <2>6 DEF Tiles
  <2>8. ASSUME NEW k \in 1..Len(ts)
        PROVE  /\ k = 1 => ts[k].at = 0
               /\ ts[k].at + Len(o[k]) = IF k = Len(ts) THEN Len(f) ELSE ts[k + 1].at
               /\ Aligned(ts, k) => o[k] = SubSeq(f, ts[k].at + 1, ts[k].at + Len(o[k]))
    <3>1. /\ Len(o[k]) = Width(ts[k])
          /\ Aligned(ts, k) => o[k] = SubSeq(f, ts[k].at + 1, ts[k].at + Width(ts[k]))
      BY <2>5, <2>6 DEF SoundRead
    <3>2. k = Len(ts) \/ k < Len(ts)
      BY <2>5
    <3>3. /\ k = 1 => ts[k].at = 0
          /\ k = Len(ts) => ts[k].at + Width(ts[k]) = Len(f)
          /\ k < Len(ts) => ts[k].at + Width(ts[k]) = ts[k + 1].at
      BY <2>6 DEF Tiles
    <3> QED
      BY <3>1, <3>2, <3>3
  <2> QED
    BY <2>1, <2>2, <2>3, <2>7, <2>8
<1> QED
  BY <1>1, ReaderInductive, PTL

\* If the offsets of a xorb that keeps to the cap on chunks fit a u64, a read
\* under way fails only because the object it asks for is gone: the entry
\* find() picks, the range computed from its offsets, what parse_range clips and
\* what get_range cuts hold the whole of the term.
THEOREM ReadsFailOnlyIfMissing ==
    ASSUME \A x \in Xorb : Len(x) <= MaxXorbChunks => BoundaryOffset(x, Len(x)) < U64
    PROVE  ReaderSpec => FailsOnlyIfMissing
<1>1. ASSUME RInv, [ReaderNext]_allVars, NEW r \in Reader, Fetching(r), rfile'[r] = None
      PROVE  NextEntry(r).xorb \notin blobs
  <2>1. PICK f : f = rfile[r]
    OBVIOUS
  <2>2. PICK ts : ts = plan[r]
    OBVIOUS
  <2>3. PICK k : k = Len(out[r]) + 1
    OBVIOUS
  <2>4. /\ rfile \in [Reader -> Contents \cup {None}]
        /\ f \in Contents \cup {None} /\ ts \in Seq(Term) /\ out[r] \in Seq(Seq(Chunk))
        /\ k \in 1..Len(ts) /\ SoundRead(f, ts, out[r])
    BY <1>1, <2>1, <2>2, <2>3 DEF RInv, ReaderTypeOK, Fetching, ReadSound
  <2>5. f # None /\ f \in Seq(Chunk) /\ Tiles(ts, f, Len(f)) /\ Len(ts[k].xorb) <= MaxXorbChunks
    BY <2>4, XetdAssumption DEF SoundRead
  <2>6. FetchUndecodable(r)
    <3>1. rfile' # rfile
      BY <1>1, <2>1, <2>5
    <3>2. ASSUME NEW q \in Reader, NEW g \in Contents, QueryPlan(q, g) \/ PlanRefused(q, g)
          PROVE  FALSE
      <4>1. q # r /\ \E v : rfile' = [rfile EXCEPT ![q] = v]
        BY <1>1, <3>2 DEF QueryPlan, PlanRefused, ReadFails
      <4> QED
        BY <1>1, <2>1, <2>4, <2>5, <4>1
    <3>3. ASSUME NEW q \in Reader, FetchUndecodable(q), q # r
          PROVE  FALSE
      <4>1. rfile' = [rfile EXCEPT ![q] = None]
        BY <3>3 DEF FetchUndecodable, ReadFails
      <4> QED
        BY <1>1, <2>1, <2>4, <2>5, <3>3, <4>1
    <3> QED
      BY <1>1, <3>1, <3>2, <3>3 DEF ReaderNext, FetchTerm, allVars, readerVars
  <2>7. Decode(Body(ts[EntryFor(ts, k)]), ts[k]) = {}
    BY <2>2, <2>3, <2>6 DEF FetchUndecodable, Decoded, NextEntry
  <2>8. ts[k].xorb \in Xorb
    <3>1. ts[k] \in Term
      BY <2>4
    <3> QED
      BY <3>1 DEF Term
  <2>9. BoundaryOffset(ts[k].xorb, Len(ts[k].xorb)) < U64
    BY <2>5, <2>8
  <2>10. ts[EntryFor(ts, k)].xorb \notin blobs
    BY <2>4, <2>5, <2>7, <2>9, UndecodableIsMissing
  <2> QED
    BY <2>2, <2>3, <2>10 DEF NextEntry
<1>2. RInv /\ [ReaderNext]_allVars =>
        [\A r \in Reader : Fetching(r) /\ rfile'[r] = None => NextEntry(r).xorb \notin blobs]_allVars
  BY <1>1
<1> QED
  BY <1>2, ReaderInductive, PTL DEF ReaderSpec, FailsOnlyIfMissing
=============================================================================
