----------------------------- MODULE TreeProofs -----------------------------
(***************************************************************************)
(* Proofs about the mount's names (module Tree): for any keys, any order   *)
(* of the entries, any creations and any write-backs, the inodes are a     *)
(* tree, a path that resolves to a file is the path the file is written    *)
(* back to, an unambiguous entry is served under its path, and a directory *)
(* stream lists every child once.                                          *)
(***************************************************************************)
EXTENDS Tree, NatFacts, SequenceTheorems, FiniteSetTheorems

-----------------------------------------------------------------------------
(* Loops.  FoldLeft goes over sets of indices; what matters are the sets 1..k *)

\* The largest index of a set.
LEMMA MaxIndex ==
    ASSUME NEW m \in Nat \ {0}, NEW q \in SUBSET (1..m), m \in q
    PROVE  Max(q) = m
<1>1. q \subseteq 0..m /\ q # {}
  OBVIOUS
<1>2. Max(q) \in q /\ Max(q) >= m
  BY <1>1, MaxOfBounded
<1>3. Max(q) \in 1..m
  BY <1>2
<1> QED
  BY <1>2, <1>3

\* What the loop over the components keeps: if base is in V[0] and every turn k
\* leads from V[k - 1] to V[k], the loop ends in V[n].
LEMMA EnterDirLoop ==
    ASSUME NEW base, NEW s, NEW n \in Nat, DOMAIN s = 1..n, NEW V, base \in V[0],
           \A k \in 1..n : \A t \in V[k - 1] : EnterDir(t, s[k]) \in V[k]
    PROVE  FoldLeft(EnterDir, base, s) \in V[n]
<1> DEFINE step(g, q) == IF q = {} THEN base ELSE EnterDir(g[q \ {Max(q)}], s[Max(q)])
           Loop(g, m) == g = [q \in SUBSET (1..m) |-> g[q]] /\ \A q \in SUBSET (1..m) : g[q] = step(g, q)
           P(m) == \E g : Loop(g, m)
           S == {m \in 0..n : P(m)}
<1>1. P(0)
  <2> DEFINE z == [q \in SUBSET (1..0) |-> base]
  <2>1. \A q \in SUBSET (1..0) : q = {}
    OBVIOUS
  <2>2. Loop(z, 0)
    BY <2>1
  <2> QED
    BY <2>2
<1>2. ASSUME NEW m \in 1..n, P(m - 1)
      PROVE  P(m)
  <2>1. PICK g : Loop(g, m - 1)
    BY <1>2
  <2> DEFINE h == [q \in SUBSET (1..m) |-> IF m \in q THEN EnterDir(g[q \ {m}], s[m]) ELSE g[q]]
  <2>2. ASSUME NEW q \in SUBSET (1..m)
        PROVE  h[q] = step(h, q)
    <3>1. CASE m \in q
      <4>1. Max(q) = m /\ q # {}
        BY <3>1, MaxIndex
      <4>2. q \ {m} \in SUBSET (1..m) /\ m \notin q \ {m}
        OBVIOUS
      <4>3. h[q \ {m}] = g[q \ {m}] /\ h[q] = EnterDir(g[q \ {m}], s[m])
        BY <3>1, <4>2
      <4> HIDE DEF h
      <4> QED
        BY <4>1, <4>3
    <3>2. CASE m \notin q
      <4>1. q \in SUBSET (1..(m - 1))
        BY <3>2
      <4>2. h[q] = g[q] /\ g[q] = step(g, q)
        BY <2>1, <3>2, <4>1
      <4>3. CASE q = {}
        <5> HIDE DEF h
        <5> QED
          BY <4>2, <4>3
      <4>4. CASE q # {}
        <5>1. q \ {Max(q)} \in SUBSET (1..m) /\ m \notin q \ {Max(q)}
          BY <3>2
        <5>2. h[q \ {Max(q)}] = g[q \ {Max(q)}]
          BY <5>1
        <5> HIDE DEF h
        <5> QED
          BY <4>2, <4>4, <5>2
      <4> QED
        BY <4>3, <4>4
    <3> QED
      BY <3>1, <3>2
  <2>3. h = [q \in SUBSET (1..m) |-> h[q]]
    OBVIOUS
  <2>4. Loop(h, m)
    <3> HIDE DEF h, step
    <3> QED
      BY <2>2, <2>3
  <2> HIDE DEF h, Loop
  <2> QED
    BY <2>4
<1>3. \A m \in 0..n : m \in S
  <2> HIDE DEF P
  <2>1. 0 \in S /\ \A k \in 1..n : k - 1 \in S => k \in S
    BY <1>1, <1>2
  <2> HIDE DEF S
  <2> QED
    BY <2>1, InductionUpTo
<1>4. P(n)
  <2> HIDE DEF P
  <2> QED
    BY <1>3
<1> DEFINE R(g) == g = [q \in SUBSET (1..n) |-> step(g, q)]
           iter == CHOOSE g : R(g)
<1>5. R(iter)
  <2>1. PICK g : Loop(g, n)
    BY <1>4
  <2>2. R(g)
    <3> HIDE DEF step
    <3> QED
      BY <2>1
  <2> QED
    BY <2>2
<1>6. FoldLeft(EnterDir, base, s) = iter[1..n]
  BY DEF FoldLeft, MapThenFoldSet
<1>7. \A q \in SUBSET (1..n) : iter[q] = step(iter, q)
  <2> HIDE DEF iter, step
  <2> QED
    BY <1>5
<1> HIDE DEF iter, R
<1> DEFINE U == {k \in 0..n : iter[1..k] \in V[k]}
<1>8. 0 \in U
  <2>1. 1..0 = {} /\ {} \in SUBSET (1..n) /\ 0 \in 0..n
    OBVIOUS
  <2>2. iter[1..0] = base
    BY <1>7, <2>1
  <2> QED
    BY <2>1, <2>2
<1>9. ASSUME NEW k \in 1..n, k - 1 \in U
      PROVE  k \in U
  <2>1. 1..k \in SUBSET (1..n) /\ k \in 1..k
    OBVIOUS
  <2>2. Max(1..k) = k
    BY MaxIndex
  <2>3. (1..k) \ {k} = 1..(k - 1)
    OBVIOUS
  <2>4. iter[1..k] = EnterDir(iter[1..(k - 1)], s[k])
    <3>1. 1..k # {}
      BY <2>1
    <3> QED
      BY <1>7, <2>1, <2>2, <2>3, <3>1
  <2> QED
    BY <1>9, <2>4
<1>10. \A k \in 0..n : k \in U
  <2> HIDE DEF U
  <2> QED
    BY <1>8, <1>9, InductionUpTo
<1> QED
  BY <1>6, <1>10

\* What the loop over the entries keeps: if base is in V[0] and every turn k
\* leads from V[k - 1] to V[k], the loop ends in V[n].
LEMMA AddEntryLoop ==
    ASSUME NEW base, NEW s, NEW n \in Nat, DOMAIN s = 1..n, NEW V, base \in V[0],
           \A k \in 1..n : \A t \in V[k - 1] : AddEntry(t, s[k]) \in V[k]
    PROVE  FoldLeft(AddEntry, base, s) \in V[n]
<1> DEFINE step(g, q) == IF q = {} THEN base ELSE AddEntry(g[q \ {Max(q)}], s[Max(q)])
           Loop(g, m) == g = [q \in SUBSET (1..m) |-> g[q]] /\ \A q \in SUBSET (1..m) : g[q] = step(g, q)
           P(m) == \E g : Loop(g, m)
           S == {m \in 0..n : P(m)}
<1>1. P(0)
  <2> DEFINE z == [q \in SUBSET (1..0) |-> base]
  <2>1. \A q \in SUBSET (1..0) : q = {}
    OBVIOUS
  <2>2. Loop(z, 0)
    BY <2>1
  <2> QED
    BY <2>2
<1>2. ASSUME NEW m \in 1..n, P(m - 1)
      PROVE  P(m)
  <2>1. PICK g : Loop(g, m - 1)
    BY <1>2
  <2> DEFINE h == [q \in SUBSET (1..m) |-> IF m \in q THEN AddEntry(g[q \ {m}], s[m]) ELSE g[q]]
  <2>2. ASSUME NEW q \in SUBSET (1..m)
        PROVE  h[q] = step(h, q)
    <3>1. CASE m \in q
      <4>1. Max(q) = m /\ q # {}
        BY <3>1, MaxIndex
      <4>2. q \ {m} \in SUBSET (1..m) /\ m \notin q \ {m}
        OBVIOUS
      <4>3. h[q \ {m}] = g[q \ {m}] /\ h[q] = AddEntry(g[q \ {m}], s[m])
        BY <3>1, <4>2
      <4> HIDE DEF h
      <4> QED
        BY <4>1, <4>3
    <3>2. CASE m \notin q
      <4>1. q \in SUBSET (1..(m - 1))
        BY <3>2
      <4>2. h[q] = g[q] /\ g[q] = step(g, q)
        BY <2>1, <3>2, <4>1
      <4>3. CASE q = {}
        <5> HIDE DEF h
        <5> QED
          BY <4>2, <4>3
      <4>4. CASE q # {}
        <5>1. q \ {Max(q)} \in SUBSET (1..m) /\ m \notin q \ {Max(q)}
          BY <3>2
        <5>2. h[q \ {Max(q)}] = g[q \ {Max(q)}]
          BY <5>1
        <5> HIDE DEF h
        <5> QED
          BY <4>2, <4>4, <5>2
      <4> QED
        BY <4>3, <4>4
    <3> QED
      BY <3>1, <3>2
  <2>3. h = [q \in SUBSET (1..m) |-> h[q]]
    OBVIOUS
  <2>4. Loop(h, m)
    <3> HIDE DEF h, step
    <3> QED
      BY <2>2, <2>3
  <2> HIDE DEF h, Loop
  <2> QED
    BY <2>4
<1>3. \A m \in 0..n : m \in S
  <2> HIDE DEF P
  <2>1. 0 \in S /\ \A k \in 1..n : k - 1 \in S => k \in S
    BY <1>1, <1>2
  <2> HIDE DEF S
  <2> QED
    BY <2>1, InductionUpTo
<1>4. P(n)
  <2> HIDE DEF P
  <2> QED
    BY <1>3
<1> DEFINE R(g) == g = [q \in SUBSET (1..n) |-> step(g, q)]
           iter == CHOOSE g : R(g)
<1>5. R(iter)
  <2>1. PICK g : Loop(g, n)
    BY <1>4
  <2>2. R(g)
    <3> HIDE DEF step
    <3> QED
      BY <2>1
  <2> QED
    BY <2>2
<1>6. FoldLeft(AddEntry, base, s) = iter[1..n]
  BY DEF FoldLeft, MapThenFoldSet
<1>7. \A q \in SUBSET (1..n) : iter[q] = step(iter, q)
  <2> HIDE DEF iter, step
  <2> QED
    BY <1>5
<1> HIDE DEF iter, R
<1> DEFINE U == {k \in 0..n : iter[1..k] \in V[k]}
<1>8. 0 \in U
  <2>1. 1..0 = {} /\ {} \in SUBSET (1..n) /\ 0 \in 0..n
    OBVIOUS
  <2>2. iter[1..0] = base
    BY <1>7, <2>1
  <2> QED
    BY <2>1, <2>2
<1>9. ASSUME NEW k \in 1..n, k - 1 \in U
      PROVE  k \in U
  <2>1. 1..k \in SUBSET (1..n) /\ k \in 1..k
    OBVIOUS
  <2>2. Max(1..k) = k
    BY MaxIndex
  <2>3. (1..k) \ {k} = 1..(k - 1)
    OBVIOUS
  <2>4. iter[1..k] = AddEntry(iter[1..(k - 1)], s[k])
    <3>1. 1..k # {}
      BY <2>1
    <3> QED
      BY <1>7, <2>1, <2>2, <2>3, <3>1
  <2> QED
    BY <1>9, <2>4
<1>10. \A k \in 0..n : k \in U
  <2> HIDE DEF U
  <2> QED
    BY <1>8, <1>9, InductionUpTo
<1> QED
  BY <1>6, <1>10

\* What the kernel's walk keeps, likewise.
LEMMA WalkLoop ==
    ASSUME NEW base, NEW s, NEW n \in Nat, DOMAIN s = 1..n, NEW V, base \in V[0],
           \A k \in 1..n : \A t \in V[k - 1] : Walk(t, s[k]) \in V[k]
    PROVE  FoldLeft(Walk, base, s) \in V[n]
<1> DEFINE step(g, q) == IF q = {} THEN base ELSE Walk(g[q \ {Max(q)}], s[Max(q)])
           Loop(g, m) == g = [q \in SUBSET (1..m) |-> g[q]] /\ \A q \in SUBSET (1..m) : g[q] = step(g, q)
           P(m) == \E g : Loop(g, m)
           S == {m \in 0..n : P(m)}
<1>1. P(0)
  <2> DEFINE z == [q \in SUBSET (1..0) |-> base]
  <2>1. \A q \in SUBSET (1..0) : q = {}
    OBVIOUS
  <2>2. Loop(z, 0)
    BY <2>1
  <2> QED
    BY <2>2
<1>2. ASSUME NEW m \in 1..n, P(m - 1)
      PROVE  P(m)
  <2>1. PICK g : Loop(g, m - 1)
    BY <1>2
  <2> DEFINE h == [q \in SUBSET (1..m) |-> IF m \in q THEN Walk(g[q \ {m}], s[m]) ELSE g[q]]
  <2>2. ASSUME NEW q \in SUBSET (1..m)
        PROVE  h[q] = step(h, q)
    <3>1. CASE m \in q
      <4>1. Max(q) = m /\ q # {}
        BY <3>1, MaxIndex
      <4>2. q \ {m} \in SUBSET (1..m) /\ m \notin q \ {m}
        OBVIOUS
      <4>3. h[q \ {m}] = g[q \ {m}] /\ h[q] = Walk(g[q \ {m}], s[m])
        BY <3>1, <4>2
      <4> HIDE DEF h
      <4> QED
        BY <4>1, <4>3
    <3>2. CASE m \notin q
      <4>1. q \in SUBSET (1..(m - 1))
        BY <3>2
      <4>2. h[q] = g[q] /\ g[q] = step(g, q)
        BY <2>1, <3>2, <4>1
      <4>3. CASE q = {}
        <5> HIDE DEF h
        <5> QED
          BY <4>2, <4>3
      <4>4. CASE q # {}
        <5>1. q \ {Max(q)} \in SUBSET (1..m) /\ m \notin q \ {Max(q)}
          BY <3>2
        <5>2. h[q \ {Max(q)}] = g[q \ {Max(q)}]
          BY <5>1
        <5> HIDE DEF h
        <5> QED
          BY <4>2, <4>4, <5>2
      <4> QED
        BY <4>3, <4>4
    <3> QED
      BY <3>1, <3>2
  <2>3. h = [q \in SUBSET (1..m) |-> h[q]]
    OBVIOUS
  <2>4. Loop(h, m)
    <3> HIDE DEF h, step
    <3> QED
      BY <2>2, <2>3
  <2> HIDE DEF h, Loop
  <2> QED
    BY <2>4
<1>3. \A m \in 0..n : m \in S
  <2> HIDE DEF P
  <2>1. 0 \in S /\ \A k \in 1..n : k - 1 \in S => k \in S
    BY <1>1, <1>2
  <2> HIDE DEF S
  <2> QED
    BY <2>1, InductionUpTo
<1>4. P(n)
  <2> HIDE DEF P
  <2> QED
    BY <1>3
<1> DEFINE R(g) == g = [q \in SUBSET (1..n) |-> step(g, q)]
           iter == CHOOSE g : R(g)
<1>5. R(iter)
  <2>1. PICK g : Loop(g, n)
    BY <1>4
  <2>2. R(g)
    <3> HIDE DEF step
    <3> QED
      BY <2>1
  <2> QED
    BY <2>2
<1>6. FoldLeft(Walk, base, s) = iter[1..n]
  BY DEF FoldLeft, MapThenFoldSet
<1>7. \A q \in SUBSET (1..n) : iter[q] = step(iter, q)
  <2> HIDE DEF iter, step
  <2> QED
    BY <1>5
<1> HIDE DEF iter, R
<1> DEFINE U == {k \in 0..n : iter[1..k] \in V[k]}
<1>8. 0 \in U
  <2>1. 1..0 = {} /\ {} \in SUBSET (1..n) /\ 0 \in 0..n
    OBVIOUS
  <2>2. iter[1..0] = base
    BY <1>7, <2>1
  <2> QED
    BY <2>1, <2>2
<1>9. ASSUME NEW k \in 1..n, k - 1 \in U
      PROVE  k \in U
  <2>1. 1..k \in SUBSET (1..n) /\ k \in 1..k
    OBVIOUS
  <2>2. Max(1..k) = k
    BY MaxIndex
  <2>3. (1..k) \ {k} = 1..(k - 1)
    OBVIOUS
  <2>4. iter[1..k] = Walk(iter[1..(k - 1)], s[k])
    <3>1. 1..k # {}
      BY <2>1
    <3> QED
      BY <1>7, <2>1, <2>2, <2>3, <3>1
  <2> QED
    BY <1>9, <2>4
<1>10. \A k \in 0..n : k \in U
  <2> HIDE DEF U
  <2> QED
    BY <1>8, <1>9, InductionUpTo
<1> QED
  BY <1>6, <1>10

-----------------------------------------------------------------------------
(* Trees *)

\* The nodes are a tree: parent and children agree, a parent is a directory that
\* was there before its children, and a child is listed once.
Linked(ns) ==
    /\ ns \in Seq(Node)
    /\ Len(ns) > 0 => ns[1].kind = "dir"
    /\ \A i \in 2..Len(ns) :
         /\ ns[i].name \in Names
         /\ ns[i].parent \in 1..(i - 1)
         /\ ns[ns[i].parent].kind = "dir"
         /\ \E k \in 1..Len(ns[ns[i].parent].children) : ns[ns[i].parent].children[k] = i
    /\ \A i \in 1..Len(ns) : \A k \in 1..Len(ns[i].children) :
         ns[i].children[k] \in 2..Len(ns) /\ ns[ns[i].children[k]].parent = i
    /\ \A i \in 1..Len(ns) : \A k, l \in 1..Len(ns[i].children) :
         ns[i].children[k] = ns[i].children[l] => k = l

-----------------------------------------------------------------------------
(* Paths *)

\* The equation by which full_path goes up from a node.
IsPaths(ns, up) ==
    up = [j \in 1..Len(ns) |-> IF j = Root THEN <<>> ELSE Append(up[ns[j].parent], ns[j].name)]

\* The path of every node.
Paths(ns) == CHOOSE up : IsPaths(ns, up)

\* full_path returns the path.
LEMMA FullPathIs ==
    ASSUME NEW i
    PROVE  FullPath(i) = [abs |-> TRUE, comps |-> Paths(nodes)[i]]
BY DEF FullPath, Paths, IsPaths

\* Every chain of parents ends at the root.
LEMMA PathsExist ==
    ASSUME NEW ns, Linked(ns)
    PROVE  IsPaths(ns, Paths(ns))
<1>1. Len(ns) \in Nat
  BY DEF Linked
<1>2. \A j \in 2..Len(ns) : ns[j].parent \in 1..(j - 1)
  BY DEF Linked
<1> DEFINE def(up, j) == IF j = Root THEN <<>> ELSE Append(up[ns[j].parent], ns[j].name)
           P(n) == \E up : up = [j \in 1..n |-> def(up, j)]
           S == {n \in 0..Len(ns) : P(n)}
<1>3. P(0)
  <2> DEFINE z == [j \in 1..0 |-> <<>>]
  <2>1. z = [j \in 1..0 |-> def(z, j)]
    OBVIOUS
  <2> HIDE DEF z, def
  <2> QED
    BY <2>1
<1>4. ASSUME NEW n \in 1..Len(ns), P(n - 1)
      PROVE  P(n)
  <2>1. PICK up : up = [j \in 1..(n - 1) |-> def(up, j)]
    BY <1>4
  <2> DEFINE u == [j \in 1..n |-> IF j = n THEN def(up, n) ELSE up[j]]
  <2>2. ASSUME NEW j \in 1..n
        PROVE  u[j] = def(u, j)
    <3>1. CASE j = Root
      <4>1. up[1] = <<>> \/ n = 1
        <5>1. n = 1 \/ 1 \in 1..(n - 1)
          BY <1>1
        <5> QED
          BY <2>1, <5>1 DEF Root
      <4> QED
        BY <3>1, <4>1 DEF Root
    <3>2. CASE j # Root
      <4>1. j \in 2..Len(ns)
        BY <1>1, <3>2 DEF Root
      <4>2. PICK q : q = ns[j].parent
        OBVIOUS
      <4>3. q \in 1..(j - 1)
        BY <1>2, <4>1, <4>2
      <4>4. q \in 1..n /\ q # n
        BY <1>1, <4>3
      <4>5. u[q] = up[q]
        BY <4>4
      <4>6. u[j] = def(up, j)
        <5>1. CASE j = n
          BY <5>1
        <5>2. CASE j # n
          <6>1. j \in 1..(n - 1)
            BY <5>2
          <6> QED
            BY <2>1, <5>2, <6>1
        <5> QED
          BY <5>1, <5>2
      <4> HIDE DEF u
      <4> QED
        BY <3>2, <4>2, <4>5, <4>6
    <3> QED
      BY <3>1, <3>2
  <2>3. u = [j \in 1..n |-> u[j]]
    OBVIOUS
  <2> HIDE DEF u, def
  <2>4. u = [j \in 1..n |-> def(u, j)]
    BY <2>2, <2>3
  <2> QED
    BY <2>4
<1>5. P(Len(ns))
  <2> HIDE DEF P
  <2>1. 0 \in S /\ \A n \in 1..Len(ns) : n - 1 \in S => n \in S
    BY <1>1, <1>3, <1>4
  <2> HIDE DEF S
  <2>2. \A n \in 0..Len(ns) : n \in S
    BY <1>1, <2>1, InductionUpTo
  <2> USE DEF S
  <2> QED
    BY <1>1, <2>2
<1>6. \E up : IsPaths(ns, up)
  BY <1>5 DEF IsPaths
<1> QED
  BY <1>6 DEF Paths

\* The paths, step by step.
LEMMA PathsOf ==
    ASSUME NEW ns, Linked(ns)
    PROVE  /\ Len(ns) > 0 => Paths(ns)[1] = <<>>
           /\ \A i \in 2..Len(ns) : Paths(ns)[i] = Append(Paths(ns)[ns[i].parent], ns[i].name)
           /\ \A i \in 1..Len(ns) : Paths(ns)[i] \in Seq(Names)
<1>1. Len(ns) \in Nat
  BY DEF Linked
<1>2. IsPaths(ns, Paths(ns))
  BY PathsExist
<1>3. Len(ns) > 0 => Paths(ns)[1] = <<>>
  <2>1. Len(ns) > 0 => 1 \in 1..Len(ns)
    BY <1>1
  <2> QED
    BY <1>2, <2>1 DEF IsPaths, Root
<1>4. ASSUME NEW i \in 2..Len(ns)
      PROVE  Paths(ns)[i] = Append(Paths(ns)[ns[i].parent], ns[i].name)
  <2>1. i \in 1..Len(ns) /\ i # 1
    BY <1>1
  <2> QED
    BY <1>2, <2>1 DEF IsPaths, Root
<1> DEFINE S == {n \in 0..Len(ns) : \A i \in 1..n : Paths(ns)[i] \in Seq(Names)}
<1>5. 0 \in S
  BY <1>1
<1>6. ASSUME NEW n \in 1..Len(ns), n - 1 \in S
      PROVE  n \in S
  <2>1. Paths(ns)[n] \in Seq(Names)
    <3>1. CASE n = 1
      <4>1. Paths(ns)[n] = <<>>
        BY <1>1, <1>3, <3>1
      <4> QED
        BY <4>1, EmptySeq
    <3>2. CASE n # 1
      <4>1. n \in 2..Len(ns)
        BY <1>1, <3>2
      <4>2. ns[n].parent \in 1..(n - 1) /\ ns[n].name \in Names
        BY <4>1 DEF Linked
      <4>3. Paths(ns)[ns[n].parent] \in Seq(Names)
        BY <1>6, <4>2
      <4>4. Append(Paths(ns)[ns[n].parent], ns[n].name) \in Seq(Names)
        BY <4>2, <4>3, AppendProperties
      <4> QED
        BY <1>4, <4>1, <4>4
    <3> QED
      BY <3>1, <3>2
  <2>2. \A i \in 1..n : i = n \/ i \in 1..(n - 1)
    OBVIOUS
  <2> QED
    BY <1>1, <1>6, <2>1, <2>2
<1>7. \A n \in 0..Len(ns) : n \in S
  <2> HIDE DEF S
  <2> QED
    BY <1>1, <1>5, <1>6, InductionUpTo
<1>8. \A i \in 1..Len(ns) : Paths(ns)[i] \in Seq(Names)
  BY <1>1, <1>7
<1> QED
  BY <1>3, <1>4, <1>8

\* Nodes keep their paths while names and parents stay.
LEMMA PathsSame ==
    ASSUME NEW ns, Linked(ns), NEW m, Linked(m), Len(ns) <= Len(m),
           \A i \in 1..Len(ns) : m[i].parent = ns[i].parent /\ m[i].name = ns[i].name
    PROVE  \A i \in 1..Len(ns) : Paths(m)[i] = Paths(ns)[i]
<1>1. Len(ns) \in Nat /\ Len(m) \in Nat
  BY DEF Linked
<1> DEFINE S == {n \in 0..Len(ns) : \A i \in 1..n : Paths(m)[i] = Paths(ns)[i]}
<1>2. 0 \in S
  BY <1>1
<1>3. ASSUME NEW n \in 1..Len(ns), n - 1 \in S
      PROVE  n \in S
  <2>1. Paths(m)[n] = Paths(ns)[n]
    <3>1. CASE n = 1
      <4>1. Len(ns) > 0 /\ Len(m) > 0
        BY <1>1
      <4> QED
        BY <3>1, <4>1, PathsOf
    <3>2. CASE n # 1
      <4>1. n \in 2..Len(ns) /\ n \in 2..Len(m)
        BY <1>1, <3>2
      <4>2. ns[n].parent \in 1..(n - 1)
        BY <4>1 DEF Linked
      <4>3. Paths(m)[ns[n].parent] = Paths(ns)[ns[n].parent]
        BY <1>3, <4>2
      <4>4. Paths(m)[n] = Append(Paths(m)[m[n].parent], m[n].name)
        BY <4>1, PathsOf
      <4>5. Paths(ns)[n] = Append(Paths(ns)[ns[n].parent], ns[n].name)
        BY <4>1, PathsOf
      <4> QED
        BY <4>3, <4>4, <4>5
    <3> QED
      BY <3>1, <3>2
  <2>2. \A i \in 1..n : i = n \/ i \in 1..(n - 1)
    OBVIOUS
  <2> QED
    BY <1>1, <1>3, <2>1, <2>2
<1>4. \A n \in 0..Len(ns) : n \in S
  <2> HIDE DEF S
  <2> QED
    BY <1>1, <1>2, <1>3, InductionUpTo
<1> QED
  BY <1>1, <1>4

\* Two paths that end in a name are equal only if they agree in both parts.
LEMMA AppendOnce ==
    ASSUME NEW S, NEW s \in Seq(S), NEW t \in Seq(S), NEW a \in S, NEW b \in S,
           Append(s, a) = Append(t, b)
    PROVE  s = t /\ a = b
<1>1. /\ Len(s) \in Nat /\ Len(t) \in Nat
      /\ Len(Append(s, a)) = Len(s) + 1 /\ Len(Append(t, b)) = Len(t) + 1
      /\ Append(s, a)[Len(s) + 1] = a /\ Append(t, b)[Len(t) + 1] = b
      /\ \A i \in 1..Len(s) : Append(s, a)[i] = s[i]
      /\ \A i \in 1..Len(t) : Append(t, b)[i] = t[i]
  BY AppendProperties
<1>2. Len(s) = Len(t) /\ a = b
  BY <1>1
<1>3. \A i \in 1..Len(s) : s[i] = t[i]
  BY <1>1, <1>2
<1> QED
  BY <1>2, <1>3, SeqEqual

\* What begins a longer sequence, up to its last element and without it.
LEMMA AppendFront ==
    ASSUME NEW S, NEW s \in Seq(S), NEW a \in S
    PROVE  \A m \in 0..Len(s) : SubSeq(Append(s, a), 1, m) = SubSeq(s, 1, m)
<1> SUFFICES ASSUME NEW m \in 0..Len(s)
             PROVE  SubSeq(Append(s, a), 1, m) = SubSeq(s, 1, m)
  OBVIOUS
<1>1. Len(s) \in Nat /\ \A i \in 1..Len(s) : s[i] \in S
  BY LenProperties, ElementOfSeq
<1>2. \A i \in 1..Len(s) : Append(s, a)[i] = s[i]
  BY AppendProperties
<1>3. \A i \in 1..m : i \in 1..Len(s)
  BY <1>1
<1>4. /\ SubSeq(s, 1, m) \in Seq(S) /\ Len(SubSeq(s, 1, m)) = IF 1 <= m THEN m - 1 + 1 ELSE 0
      /\ \A i \in 1..(m - 1 + 1) : SubSeq(s, 1, m)[i] = s[1 + i - 1]
  <2>1. \A i \in 1..m : s[i] \in S
    BY <1>1, <1>3
  <2>2. m \in Int /\ 1 \in Int
    BY <1>1
  <2> QED
    BY <2>1, <2>2, SubSeqProperties
<1>5. /\ SubSeq(Append(s, a), 1, m) \in Seq(S)
      /\ Len(SubSeq(Append(s, a), 1, m)) = IF 1 <= m THEN m - 1 + 1 ELSE 0
      /\ \A i \in 1..(m - 1 + 1) : SubSeq(Append(s, a), 1, m)[i] = Append(s, a)[1 + i - 1]
  <2>1. \A i \in 1..m : Append(s, a)[i] \in S
    BY <1>1, <1>2, <1>3
  <2>2. m \in Int /\ 1 \in Int
    BY <1>1
  <2> QED
    BY <2>1, <2>2, SubSeqProperties
<1>6. \A i \in 1..m : SubSeq(s, 1, m)[i] = s[i] /\ SubSeq(Append(s, a), 1, m)[i] = Append(s, a)[i]
  BY <1>1, <1>4, <1>5
<1>7. Len(SubSeq(s, 1, m)) = m /\ Len(SubSeq(Append(s, a), 1, m)) = m
  BY <1>1, <1>4, <1>5
<1>8. \A i \in 1..m : SubSeq(s, 1, m)[i] = SubSeq(Append(s, a), 1, m)[i]
  BY <1>2, <1>3, <1>6
<1> QED
  BY <1>4, <1>5, <1>7, <1>8, SeqEqual

\* The first k names of a path, and one more.
LEMMA OneMoreName ==
    ASSUME NEW S, NEW c \in Seq(S)
    PROVE  /\ \A k \in 0..Len(c) : SubSeq(c, 1, k) \in Seq(S) /\ Len(SubSeq(c, 1, k)) = k
           /\ \A k \in 1..Len(c) : SubSeq(c, 1, k) = Append(SubSeq(c, 1, k - 1), c[k])
<1>1. Len(c) \in Nat /\ \A i \in 1..Len(c) : c[i] \in S
  BY LenProperties, ElementOfSeq
<1>2. ASSUME NEW k \in 0..Len(c)
      PROVE  /\ SubSeq(c, 1, k) \in Seq(S) /\ Len(SubSeq(c, 1, k)) = k
             /\ \A i \in 1..k : SubSeq(c, 1, k)[i] = c[i]
  <2>1. \A i \in 1..k : c[i] \in S
    BY <1>1
  <2>2. k \in Int /\ 1 \in Int
    BY <1>1
  <2>3. /\ SubSeq(c, 1, k) \in Seq(S) /\ Len(SubSeq(c, 1, k)) = IF 1 <= k THEN k - 1 + 1 ELSE 0
        /\ \A i \in 1..(k - 1 + 1) : SubSeq(c, 1, k)[i] = c[1 + i - 1]
    BY <2>1, <2>2, SubSeqProperties
  <2>4. Len(SubSeq(c, 1, k)) = k
    BY <1>1, <2>3
  <2>5. \A i \in 1..k : SubSeq(c, 1, k)[i] = c[i]
    BY <1>1, <2>3
  <2> QED
    BY <2>3, <2>4, <2>5
<1>3. ASSUME NEW k \in 1..Len(c)
      PROVE  SubSeq(c, 1, k) = Append(SubSeq(c, 1, k - 1), c[k])
  <2>1. k \in 0..Len(c) /\ k - 1 \in 0..Len(c) /\ k \in Nat
    BY <1>1
  <2>2. PICK s \in Seq(S) : s = SubSeq(c, 1, k - 1)
    BY <1>2, <2>1
  <2>3. Len(s) = k - 1 /\ \A i \in 1..(k - 1) : s[i] = c[i]
    BY <1>2, <2>1, <2>2
  <2>4. /\ Append(s, c[k]) \in Seq(S) /\ Len(Append(s, c[k])) = Len(s) + 1
        /\ \A i \in 1..Len(s) : Append(s, c[k])[i] = s[i]
        /\ Append(s, c[k])[Len(s) + 1] = c[k]
    BY <1>1, AppendProperties
  <2>5. Len(Append(s, c[k])) = k /\ Append(s, c[k])[k] = c[k]
    BY <2>1, <2>3, <2>4
  <2>6. \A i \in 1..k : Append(s, c[k])[i] = c[i]
    <3>1. \A i \in 1..k : i = k \/ i \in 1..(k - 1)
      BY <2>1
    <3> QED
      BY <2>3, <2>4, <2>5, <3>1
  <2>7. /\ SubSeq(c, 1, k) \in Seq(S) /\ Len(SubSeq(c, 1, k)) = k
        /\ \A i \in 1..k : SubSeq(c, 1, k)[i] = c[i]
    BY <1>2, <2>1
  <2>8. \A i \in 1..k : SubSeq(c, 1, k)[i] = Append(s, c[k])[i]
    BY <2>6, <2>7
  <2>9. SubSeq(c, 1, k) = Append(s, c[k])
    BY <2>4, <2>5, <2>7, <2>8, SeqEqual
  <2> QED
    BY <2>2, <2>9
<1> QED
  BY <1>2, <1>3

\* Every path that begins the path of a node is the path of a directory.
LEMMA Ancestors ==
    ASSUME NEW ns, Linked(ns), NEW i \in 1..Len(ns), NEW l \in Nat, l < Len(Paths(ns)[i])
    PROVE  \E j \in 1..Len(ns) : ns[j].kind = "dir" /\ Paths(ns)[j] = SubSeq(Paths(ns)[i], 1, l)
<1>1. Len(ns) \in Nat
  BY DEF Linked
<1> DEFINE Has(p) == \E j \in 1..Len(ns) : ns[j].kind = "dir" /\ Paths(ns)[j] = p
           Good(n) == \A k \in Nat : k < Len(Paths(ns)[n]) => Has(SubSeq(Paths(ns)[n], 1, k))
           S == {n \in 0..Len(ns) : \A m \in 1..n : Good(m)}
<1>2. 0 \in S
  BY <1>1
<1>3. ASSUME NEW n \in 1..Len(ns), n - 1 \in S
      PROVE  n \in S
  <2>1. Good(n)
    <3>1. CASE n = 1
      <4>1. Paths(ns)[n] = <<>>
        BY <1>1, <3>1, PathsOf
      <4>2. Len(Paths(ns)[n]) = 0
        BY <4>1
      <4> QED
        BY <4>2
    <3>2. CASE n # 1
      <4>1. n \in 2..Len(ns)
        BY <1>1, <3>2
      <4>2. PICK p : p = ns[n].parent
        OBVIOUS
      <4>3. p \in 1..(n - 1) /\ ns[p].kind = "dir" /\ ns[n].name \in Names
        BY <4>1, <4>2 DEF Linked
      <4>4. p \in 1..Len(ns)
        BY <1>1, <4>3
      <4>5. PICK s \in Seq(Names) : s = Paths(ns)[p]
        BY <4>4, PathsOf
      <4>6. PICK a \in Names : a = ns[n].name
        BY <4>3
      <4>7. Paths(ns)[n] = Append(s, a)
        BY <4>1, <4>2, <4>5, <4>6, PathsOf
      <4>8. Len(s) \in Nat /\ Len(Paths(ns)[n]) = Len(s) + 1
        BY <4>7, AppendProperties, LenProperties
      <4>9. Good(p)
        BY <1>3, <4>3
      <4>10. ASSUME NEW k \in Nat, k < Len(Paths(ns)[n])
             PROVE  Has(SubSeq(Paths(ns)[n], 1, k))
        <5>1. k \in 0..Len(s)
          BY <4>8, <4>10
        <5>2. SubSeq(Paths(ns)[n], 1, k) = SubSeq(s, 1, k)
          BY <4>7, <5>1, AppendFront
        <5>3. CASE k = Len(s)
          <6>1. SubSeq(s, 1, k) = s
            BY <5>3, SubSeqFull
          <6> QED
            BY <4>3, <4>4, <4>5, <5>2, <6>1
        <5>4. CASE k < Len(s)
          BY <4>5, <4>9, <5>2, <5>4
        <5> QED
          BY <4>8, <5>1, <5>3, <5>4
      <4> QED
        BY <4>10
    <3> QED
      BY <3>1, <3>2
  <2>2. \A m \in 1..n : m = n \/ m \in 1..(n - 1)
    OBVIOUS
  <2> HIDE DEF Good
  <2> QED
    BY <1>1, <1>3, <2>1, <2>2
<1>4. \A n \in 0..Len(ns) : n \in S
  <2> HIDE DEF S
  <2> QED
    BY <1>1, <1>2, <1>3, InductionUpTo
<1>5. Good(i)
  <2> HIDE DEF Good
  <2> QED
    BY <1>1, <1>4
<1> QED
  BY <1>5

-----------------------------------------------------------------------------
(* One more node *)

\* What one more node changes.
LEMMA AddNodeShape ==
    ASSUME NEW ns \in Seq(Node), NEW p \in 1..Len(ns), NEW name \in Names,
           NEW kind \in {"dir", "file"}, NEW hash \in Hash \cup {None},
           NEW m, m = AddNode(ns, name, kind, p, hash), NEW n, n = Len(ns) + 1
    PROVE  /\ m \in Seq(Node) /\ Len(m) = n
           /\ \A i \in 1..Len(ns) : /\ m[i].name = ns[i].name /\ m[i].kind = ns[i].kind
                                    /\ m[i].parent = ns[i].parent /\ m[i].hash = ns[i].hash
           /\ \A i \in 1..Len(ns) : i # p => m[i] = ns[i]
           /\ m[p].children = Append(ns[p].children, n)
           /\ m[n] = [name |-> name, kind |-> kind, parent |-> p, children |-> <<>>, hash |-> hash]
<1> DEFINE new == [name |-> name, kind |-> kind, parent |-> p, children |-> <<>>, hash |-> hash]
           old == [ns[p] EXCEPT !.children = Append(@, n)]
           q == [ns EXCEPT ![p] = old]
<1>1. Len(ns) \in Nat /\ n \in Nat /\ n \notin 1..Len(ns) /\ ns[p] \in Node
  OBVIOUS
<1>2. new \in Node
  BY DEF Node
<1>3. ns[p].children \in Seq(Nat) /\ Append(ns[p].children, n) \in Seq(Nat)
  BY <1>1 DEF Node
<1>4. /\ old \in Node /\ old.children = Append(ns[p].children, n) /\ old.name = ns[p].name
      /\ old.kind = ns[p].kind /\ old.parent = ns[p].parent /\ old.hash = ns[p].hash
  BY <1>1, <1>3 DEF Node
<1>5. m = Append(q, new)
  BY <1>1 DEF AddNode
<1> HIDE DEF new, old
<1>6. /\ q \in Seq(Node) /\ Len(q) = Len(ns) /\ q[p] = old
      /\ \A i \in 1..Len(ns) : i # p => q[i] = ns[i]
  BY <1>4
<1> HIDE DEF q
<1>7. m \in Seq(Node) /\ Len(m) = n /\ m[n] = new /\ \A i \in 1..Len(ns) : m[i] = q[i]
  BY <1>1, <1>2, <1>5, <1>6
<1>8. \A i \in 1..Len(ns) : i # p => m[i] = ns[i]
  BY <1>6, <1>7
<1>9. m[p] = old
  BY <1>6, <1>7
<1> QED
  BY <1>4, <1>7, <1>8, <1>9 DEF new

\* One more node below a directory makes a tree of a tree.
LEMMA AddNodeLinked ==
    ASSUME NEW ns, Linked(ns), NEW p \in 1..Len(ns), ns[p].kind = "dir", NEW name \in Names,
           NEW kind \in {"dir", "file"}, NEW hash \in Hash \cup {None}
    PROVE  Linked(AddNode(ns, name, kind, p, hash))
<1>1. PICK m : m = AddNode(ns, name, kind, p, hash)
  OBVIOUS
<1>2. PICK n : n = Len(ns) + 1
  OBVIOUS
<1>3. ns \in Seq(Node) /\ Len(ns) \in Nat
  BY DEF Linked
<1>4. /\ m \in Seq(Node) /\ Len(m) = n
      /\ \A i \in 1..Len(ns) : /\ m[i].kind = ns[i].kind /\ m[i].parent = ns[i].parent
                               /\ m[i].name = ns[i].name
      /\ \A i \in 1..Len(ns) : i # p => m[i] = ns[i]
      /\ m[p].children = Append(ns[p].children, n)
      /\ m[n] = [name |-> name, kind |-> kind, parent |-> p, children |-> <<>>, hash |-> hash]
  BY <1>1, <1>2, <1>3, AddNodeShape
<1>5. m[n].parent = p /\ m[n].children = <<>>
  BY <1>4
<1>6. PICK c : c = ns[p].children
  OBVIOUS
<1>7. c \in Seq(Nat) /\ Len(c) \in Nat
  <2>1. ns[p] \in Node
    BY <1>3
  <2> QED
    BY <1>6, <2>1 DEF Node
<1>8. PICK d : d = m[p].children
  OBVIOUS
<1>9. d = Append(c, n) /\ Len(d) = Len(c) + 1 /\ d[Len(c) + 1] = n /\ \A k \in 1..Len(c) : d[k] = c[k]
  BY <1>2, <1>3, <1>4, <1>6, <1>7, <1>8
<1>10. \A i \in 1..n : i = n \/ i \in 1..Len(ns)
  BY <1>2, <1>3
<1>11. \A k \in 1..Len(c) : c[k] \in 2..Len(ns) /\ ns[c[k]].parent = p
  BY <1>6 DEF Linked
<1>12. ASSUME NEW i \in 2..n
       PROVE  /\ m[i].parent \in 1..(i - 1)
              /\ m[m[i].parent].kind = "dir"
              /\ \E k \in 1..Len(m[m[i].parent].children) : m[m[i].parent].children[k] = i
  <2>1. CASE i = n
    <3>1. m[i].parent = p /\ p \in 1..(i - 1) /\ m[p].kind = "dir"
      BY <1>2, <1>3, <1>4, <1>5, <2>1
    <3>2. Len(c) + 1 \in 1..Len(d) /\ d[Len(c) + 1] = i
      BY <1>7, <1>9, <2>1
    <3> QED
      BY <1>8, <3>1, <3>2
  <2>2. CASE i # n
    <3>1. i \in 2..Len(ns) /\ i \in 1..Len(ns)
      BY <1>2, <1>3, <2>2
    <3>2. PICK j : j = ns[i].parent
      OBVIOUS
    <3>3. /\ j \in 1..(i - 1) /\ ns[j].kind = "dir"
          /\ \E k \in 1..Len(ns[j].children) : ns[j].children[k] = i
      BY <3>1, <3>2 DEF Linked
    <3>4. j \in 1..Len(ns) /\ m[i].parent = j
      BY <1>4, <3>1, <3>2, <3>3
    <3>5. m[j].kind = "dir"
      BY <1>4, <3>3, <3>4
    <3>6. \E k \in 1..Len(m[j].children) : m[j].children[k] = i
      <4>1. CASE j = p
        <5>1. PICK k \in 1..Len(c) : c[k] = i
          BY <1>6, <3>3, <4>1
        <5>2. k \in 1..Len(d) /\ d[k] = i
          BY <1>7, <1>9, <5>1
        <5> QED
          BY <1>8, <4>1, <5>2
      <4>2. CASE j # p
        BY <1>4, <3>3, <3>4, <4>2
      <4> QED
        BY <4>1, <4>2
    <3> QED
      BY <3>3, <3>4, <3>5, <3>6
  <2> QED
    BY <2>1, <2>2
<1>13. ASSUME NEW i \in 1..n
       PROVE  /\ \A k \in 1..Len(m[i].children) :
                    m[i].children[k] \in 2..n /\ m[m[i].children[k]].parent = i
              /\ \A k, l \in 1..Len(m[i].children) :
                    m[i].children[k] = m[i].children[l] => k = l
  <2>1. CASE i = n
    BY <1>5, <2>1
  <2>2. CASE i # n /\ i # p
    <3>1. i \in 1..Len(ns) /\ m[i] = ns[i]
      BY <1>4, <1>10, <2>2
    <3>2. \A k \in 1..Len(ns[i].children) :
             ns[i].children[k] \in 2..Len(ns) /\ ns[ns[i].children[k]].parent = i
      BY <3>1 DEF Linked
    <3>3. \A j \in 2..Len(ns) : j \in 2..n /\ m[j].parent = ns[j].parent
      BY <1>2, <1>3, <1>4
    <3>4. \A k, l \in 1..Len(ns[i].children) : ns[i].children[k] = ns[i].children[l] => k = l
      BY <3>1 DEF Linked
    <3> QED
      BY <3>1, <3>2, <3>3, <3>4
  <2>3. CASE i = p
    <3>1. ASSUME NEW k \in 1..Len(d)
          PROVE  d[k] \in 2..n /\ m[d[k]].parent = p
      <4>1. CASE k = Len(c) + 1
        <5>1. n \in 2..n
          BY <1>2, <1>3
        <5> QED
          BY <1>5, <1>9, <4>1, <5>1
      <4>2. CASE k \in 1..Len(c)
        <5>1. d[k] = c[k] /\ c[k] \in 2..Len(ns) /\ ns[c[k]].parent = p
          BY <1>9, <1>11, <4>2
        <5>2. c[k] \in 2..n /\ c[k] \in 1..Len(ns)
          BY <1>2, <1>3, <5>1
        <5> QED
          BY <1>4, <5>1, <5>2
      <4> QED
        BY <1>7, <1>9, <4>1, <4>2
    <3>2. ASSUME NEW k \in 1..Len(d), NEW l \in 1..Len(d), d[k] = d[l]
          PROVE  k = l
      <4>1. \A x, y \in 1..Len(c) : c[x] = c[y] => x = y
        BY <1>6 DEF Linked
      <4>2. \A x \in 1..Len(c) : c[x] # n
        BY <1>2, <1>3, <1>11
      <4>3. \A x \in 1..Len(d) : x = Len(c) + 1 \/ x \in 1..Len(c)
        BY <1>7, <1>9
      <4> QED
        BY <1>9, <3>2, <4>1, <4>2, <4>3
    <3> QED
      BY <1>8, <2>3, <3>1, <3>2
  <2> QED
    BY <2>1, <2>2, <2>3
<1>14. m[1].kind = "dir"
  <2>1. 1 \in 1..Len(ns) /\ Len(ns) > 0
    BY <1>3
  <2> QED
    BY <1>4, <2>1 DEF Linked
<1>15. ASSUME NEW i \in 2..n
       PROVE  m[i].name \in Names
  <2>1. CASE i = n
    BY <1>4, <2>1
  <2>2. CASE i # n
    <3>1. i \in 2..Len(ns) /\ i \in 1..Len(ns)
      BY <1>2, <1>3, <2>2
    <3> QED
      BY <1>4, <3>1 DEF Linked
  <2> QED
    BY <2>1, <2>2
<1>16. m \in Seq(Node) /\ Len(m) = n
  BY <1>4
<1>17. Linked(m)
  BY <1>12, <1>13, <1>14, <1>15, <1>16 DEF Linked
<1> QED
  BY <1>1, <1>17

\* The paths with one more node.
LEMMA AddNodePaths ==
    ASSUME NEW ns, Linked(ns), NEW p \in 1..Len(ns), ns[p].kind = "dir", NEW name \in Names,
           NEW kind \in {"dir", "file"}, NEW hash \in Hash \cup {None},
           NEW m, m = AddNode(ns, name, kind, p, hash)
    PROVE  /\ \A i \in 1..Len(ns) : Paths(m)[i] = Paths(ns)[i]
           /\ Paths(m)[Len(ns) + 1] = Append(Paths(ns)[p], name)
<1>1. ns \in Seq(Node) /\ Len(ns) \in Nat
  BY DEF Linked
<1>2. Linked(m)
  BY AddNodeLinked
<1>3. PICK n : n = Len(ns) + 1
  OBVIOUS
<1>4. /\ Len(m) = n
      /\ \A i \in 1..Len(ns) : m[i].name = ns[i].name /\ m[i].parent = ns[i].parent
      /\ m[n] = [name |-> name, kind |-> kind, parent |-> p, children |-> <<>>, hash |-> hash]
  BY <1>1, <1>3, AddNodeShape
<1>5. \A i \in 1..Len(ns) : Paths(m)[i] = Paths(ns)[i]
  <2>1. Len(ns) <= Len(m)
    BY <1>1, <1>3, <1>4
  <2> QED
    BY <1>2, <1>4, <2>1, PathsSame
<1>6. n \in 2..Len(m)
  BY <1>1, <1>3, <1>4
<1>7. Paths(m)[n] = Append(Paths(m)[m[n].parent], m[n].name)
  BY <1>2, <1>6, PathsOf
<1>8. m[n].parent = p /\ m[n].name = name
  BY <1>4
<1> QED
  BY <1>3, <1>5, <1>7, <1>8

-----------------------------------------------------------------------------
(* connect: the entries e of the catalog in the order in which they are added *)

\* The path p leads to a directory above the path c.
Above(p, c) == Len(p) < Len(c) /\ p = SubSeq(c, 1, Len(p))

\* dir_ino holds the directories, each under its path.
DirsKept(ns, dir_ino) ==
    /\ \A p \in DOMAIN dir_ino : /\ dir_ino[p] \in 2..Len(ns)
                                 /\ ns[dir_ino[p]].kind = "dir"
                                 /\ Paths(ns)[dir_ino[p]] = p
    /\ \A i \in 2..Len(ns) : ns[i].kind = "dir" =>
         Paths(ns)[i] \in DOMAIN dir_ino /\ dir_ino[Paths(ns)[i]] = i

\* Every directory is there for one of the first m entries.
DirsNeeded(ns, e, m) ==
    \A i \in 2..Len(ns) : ns[i].kind = "dir" => \E l \in 1..m : Above(Paths(ns)[i], e[l].comps)

\* The file i is that of entry number k: no other file has its path, unless
\* another entry has.
FileOf(ns, e, m, k, i) ==
    /\ ns[i].kind = "file" /\ Paths(ns)[i] = e[k].comps /\ ns[i].hash = catalog[e[k]]
    /\ (\A l \in 1..m : e[l].comps = e[k].comps => l = k) =>
         \A j \in 1..Len(ns) : ns[j].kind = "file" /\ Paths(ns)[j] = e[k].comps => j = i

\* The files are those of the first m entries.
FilesKept(ns, e, m) ==
    /\ \A i \in 1..Len(ns) : ns[i].kind = "file" =>
         ns[i].hash # None /\ \E l \in 1..m : e[l].comps = Paths(ns)[i]
    /\ \A k \in 1..m : e[k].comps # <<>> => \E i \in 1..Len(ns) : FileOf(ns, e, m, k, i)

\* The local variables of connect.
TreeState == [nodes : Seq(Node), dir_ino : UNION {[D -> Nat] : D \in SUBSET Seq(Names)},
              parent : Nat, accum : Seq(Names)]

\* After m entries.
Building(e, m) ==
    {t \in TreeState : /\ Linked(t.nodes) /\ Len(t.nodes) > 0
                       /\ DirsKept(t.nodes, t.dir_ino)
                       /\ DirsNeeded(t.nodes, e, m)
                       /\ FilesKept(t.nodes, e, m)}

\* While entry number m is added, after k of its directories.
Entering(e, m, k) ==
    {t \in TreeState : /\ Linked(t.nodes) /\ Len(t.nodes) > 0
                       /\ DirsKept(t.nodes, t.dir_ino)
                       /\ DirsNeeded(t.nodes, e, m)
                       /\ FilesKept(t.nodes, e, m - 1)
                       /\ t.parent \in 1..Len(t.nodes) /\ t.nodes[t.parent].kind = "dir"
                       /\ t.accum = SubSeq(e[m].comps, 1, k)
                       /\ Paths(t.nodes)[t.parent] = t.accum}

\* EnterDir is about to make a directory of entry number m below p.
DirDue(ns, p, name, e, m, dir_ino) ==
    /\ Linked(ns) /\ p \in 1..Len(ns) /\ ns[p].kind = "dir" /\ name \in Names
    /\ DirsKept(ns, dir_ino) /\ DirsNeeded(ns, e, m) /\ FilesKept(ns, e, m - 1)
    /\ Append(Paths(ns)[p], name) \notin DOMAIN dir_ino
    /\ Above(Append(Paths(ns)[p], name), e[m].comps)

\* AddEntry is about to make the file of entry number m below p.
FileDue(ns, p, name, e, m, dir_ino) ==
    /\ Linked(ns) /\ p \in 1..Len(ns) /\ ns[p].kind = "dir" /\ name \in Names
    /\ DirsKept(ns, dir_ino) /\ DirsNeeded(ns, e, m) /\ FilesKept(ns, e, m - 1)
    /\ e[m].comps = Append(Paths(ns)[p], name)
    /\ catalog[e[m]] \in Hash

\* A new directory, at a path that is not in dir_ino.
LEMMA NewDir ==
    ASSUME NEW ns, NEW p, NEW name, NEW e, NEW m \in Nat \ {0}, NEW dir_ino,
           DirDue(ns, p, name, e, m, dir_ino)
    PROVE  /\ DirsKept(AddNode(ns, name, "dir", p, None),
                       Insert(dir_ino, Append(Paths(ns)[p], name), Len(ns) + 1))
           /\ DirsNeeded(AddNode(ns, name, "dir", p, None), e, m)
           /\ FilesKept(AddNode(ns, name, "dir", p, None), e, m - 1)
<1> USE DEF DirDue
<1>1. PICK path : path = Append(Paths(ns)[p], name)
  OBVIOUS
<1>2. PICK ms : ms = AddNode(ns, name, "dir", p, None)
  OBVIOUS
<1>3. PICK ino : ino = Len(ns) + 1
  OBVIOUS
<1>4. PICK di : di = Insert(dir_ino, path, ino)
  OBVIOUS
<1>5. /\ Linked(ns) /\ p \in 1..Len(ns) /\ ns[p].kind = "dir" /\ name \in Names
       /\ "dir" \in {"dir", "file"} /\ None \in Hash \cup {None}
  OBVIOUS
<1>6. DirsKept(ns, dir_ino) /\ DirsNeeded(ns, e, m) /\ FilesKept(ns, e, m - 1)
  OBVIOUS
<1>7. path \notin DOMAIN dir_ino /\ Above(path, e[m].comps)
  BY <1>1
<1> HIDE DEF DirDue
<1>8. ns \in Seq(Node) /\ Len(ns) \in Nat
  BY <1>5 DEF Linked
<1>9. /\ Len(ms) = ino
      /\ \A i \in 1..Len(ns) : ms[i].kind = ns[i].kind /\ ms[i].hash = ns[i].hash
      /\ ms[ino] = [name |-> name, kind |-> "dir", parent |-> p, children |-> <<>>, hash |-> None]
  BY <1>8, <1>2, <1>3, <1>5, AddNodeShape
<1>10. ms[ino].kind = "dir"
  BY <1>9
<1>11. (\A i \in 1..Len(ns) : Paths(ms)[i] = Paths(ns)[i]) /\ Paths(ms)[ino] = path
  <2>1. /\ \A i \in 1..Len(ns) : Paths(ms)[i] = Paths(ns)[i]
        /\ Paths(ms)[Len(ns) + 1] = Append(Paths(ns)[p], name)
    BY <1>2, <1>5, AddNodePaths
  <2> QED
    BY <1>1, <1>3, <2>1
<1>12. ino \in 2..Len(ms) /\ \A i \in 1..Len(ms) : i = ino \/ i \in 1..Len(ns)
  BY <1>8, <1>9, <1>3, <1>5
<1>13. \A i \in 2..Len(ms) : i = ino \/ i \in 2..Len(ns)
  BY <1>8, <1>9, <1>3
<1>14. \A i \in 1..Len(ns) : i \in 1..Len(ms) /\ i # ino
  BY <1>8, <1>9, <1>3
<1>15. \A i \in 2..Len(ns) : i \in 2..Len(ms) /\ i \in 1..Len(ns)
  BY <1>8, <1>9, <1>3
<1>16. /\ DOMAIN di = {path} \cup DOMAIN dir_ino
      /\ di[path] = ino
      /\ \A q \in DOMAIN dir_ino : di[q] = dir_ino[q]
  BY <1>4, <1>7 DEF Insert
<1>17. DirsKept(ms, di)
  <2>1. ASSUME NEW q \in DOMAIN di
        PROVE  di[q] \in 2..Len(ms) /\ ms[di[q]].kind = "dir" /\ Paths(ms)[di[q]] = q
    <3>1. CASE q = path
      BY <1>10, <1>11, <1>12, <1>16, <3>1
    <3>2. CASE q \in DOMAIN dir_ino
      <4>1. di[q] = dir_ino[q]
        BY <1>16, <3>2
      <4>2. dir_ino[q] \in 2..Len(ns) /\ ns[dir_ino[q]].kind = "dir" /\ Paths(ns)[dir_ino[q]] = q
        BY <1>6, <3>2 DEF DirsKept
      <4> QED
        BY <1>9, <1>11, <1>15, <4>1, <4>2
    <3> QED
      BY <1>16, <3>1, <3>2
  <2>2. ASSUME NEW i \in 2..Len(ms), ms[i].kind = "dir"
        PROVE  Paths(ms)[i] \in DOMAIN di /\ di[Paths(ms)[i]] = i
    <3>1. CASE i = ino
      BY <1>11, <1>16, <3>1
    <3>2. CASE i \in 2..Len(ns)
      <4>1. Paths(ns)[i] \in DOMAIN dir_ino /\ dir_ino[Paths(ns)[i]] = i
        BY <1>9, <1>15, <1>6, <2>2, <3>2 DEF DirsKept
      <4>2. Paths(ms)[i] = Paths(ns)[i]
        BY <1>11, <1>15, <3>2
      <4> QED
        BY <1>16, <4>1, <4>2
    <3> QED
      BY <1>13, <3>1, <3>2
  <2> QED
    BY <2>1, <2>2 DEF DirsKept
<1>18. DirsNeeded(ms, e, m)
  <2>1. ASSUME NEW i \in 2..Len(ms), ms[i].kind = "dir"
        PROVE  \E l \in 1..m : Above(Paths(ms)[i], e[l].comps)
    <3>1. CASE i = ino
      <4>1. m \in 1..m
        OBVIOUS
      <4> QED
        BY <1>11, <1>7, <3>1, <4>1
    <3>2. CASE i \in 2..Len(ns)
      <4>1. Paths(ms)[i] = Paths(ns)[i] /\ ns[i].kind = "dir"
        BY <1>9, <1>11, <1>15, <2>1, <3>2
      <4> QED
        BY <1>6, <3>2, <4>1 DEF DirsNeeded
    <3> QED
      BY <1>13, <3>1, <3>2
  <2> QED
    BY <2>1 DEF DirsNeeded
<1>19. ASSUME NEW j \in 1..Len(ms), ms[j].kind = "file"
       PROVE  j \in 1..Len(ns) /\ ns[j].kind = "file" /\ Paths(ms)[j] = Paths(ns)[j] /\ ms[j].hash = ns[j].hash
  BY <1>9, <1>10, <1>11, <1>12, <1>19
<1>20. FilesKept(ms, e, m - 1)
  <2>1. ASSUME NEW i \in 1..Len(ms), ms[i].kind = "file"
        PROVE  ms[i].hash # None /\ \E l \in 1..(m - 1) : e[l].comps = Paths(ms)[i]
    BY <1>19, <1>6, <2>1 DEF FilesKept
  <2>2. ASSUME NEW k \in 1..(m - 1), e[k].comps # <<>>
        PROVE  \E i \in 1..Len(ms) : FileOf(ms, e, m - 1, k, i)
    <3>1. PICK i \in 1..Len(ns) : FileOf(ns, e, m - 1, k, i)
      BY <1>6, <2>2 DEF FilesKept
    <3>2. i \in 1..Len(ms) /\ FileOf(ms, e, m - 1, k, i)
      BY <1>9, <1>11, <1>14, <1>19, <3>1 DEF FileOf
    <3> QED
      BY <3>2
  <2> QED
    BY <2>1, <2>2 DEF FilesKept
<1> QED
  BY <1>17, <1>18, <1>20, <1>1, <1>2, <1>3, <1>4

\* The file of entry number m.
LEMMA NewFile ==
    ASSUME NEW ns, NEW p, NEW name, NEW e, NEW m \in Nat \ {0}, NEW dir_ino,
           FileDue(ns, p, name, e, m, dir_ino)
    PROVE  /\ Linked(AddNode(ns, name, "file", p, catalog[e[m]]))
           /\ Len(AddNode(ns, name, "file", p, catalog[e[m]])) > 0
           /\ DirsKept(AddNode(ns, name, "file", p, catalog[e[m]]), dir_ino)
           /\ DirsNeeded(AddNode(ns, name, "file", p, catalog[e[m]]), e, m)
           /\ FilesKept(AddNode(ns, name, "file", p, catalog[e[m]]), e, m)
<1> USE DEF FileDue
<1>1. PICK hash \in Hash : hash = catalog[e[m]]
  OBVIOUS
<1>2. PICK ms : ms = AddNode(ns, name, "file", p, hash)
  OBVIOUS
<1>3. /\ Linked(ns) /\ p \in 1..Len(ns) /\ ns[p].kind = "dir" /\ name \in Names
       /\ "file" \in {"dir", "file"} /\ hash \in Hash \cup {None}
  OBVIOUS
<1>4. DirsKept(ns, dir_ino) /\ DirsNeeded(ns, e, m) /\ FilesKept(ns, e, m - 1)
  OBVIOUS
<1>5. e[m].comps = Append(Paths(ns)[p], name)
  OBVIOUS
<1> HIDE DEF FileDue
<1>6. ns \in Seq(Node) /\ Len(ns) \in Nat
  BY <1>3 DEF Linked
<1>7. PICK ino : ino = Len(ns) + 1
  OBVIOUS
<1>8. /\ Len(ms) = ino
      /\ \A i \in 1..Len(ns) : ms[i].kind = ns[i].kind /\ ms[i].hash = ns[i].hash
      /\ ms[ino] = [name |-> name, kind |-> "file", parent |-> p, children |-> <<>>, hash |-> hash]
  BY <1>6, <1>7, <1>2, <1>3, AddNodeShape
<1>9. ms[ino].kind = "file" /\ ms[ino].hash = hash
  BY <1>8
<1>10. (\A i \in 1..Len(ns) : Paths(ms)[i] = Paths(ns)[i]) /\ Paths(ms)[ino] = e[m].comps
  <2>1. /\ \A i \in 1..Len(ns) : Paths(ms)[i] = Paths(ns)[i]
        /\ Paths(ms)[Len(ns) + 1] = Append(Paths(ns)[p], name)
    BY <1>2, <1>3, AddNodePaths
  <2> QED
    BY <1>7, <1>5, <2>1
<1>11. ino \in 1..Len(ms) /\ \A i \in 1..Len(ms) : i = ino \/ i \in 1..Len(ns)
  BY <1>6, <1>7, <1>8
<1>12. \A i \in 2..Len(ms) : i = ino \/ i \in 2..Len(ns)
  BY <1>6, <1>7, <1>8
<1>13. \A i \in 1..Len(ns) : i \in 1..Len(ms)
  BY <1>6, <1>7, <1>8
<1>14. \A i \in 2..Len(ns) : i \in 2..Len(ms) /\ i \in 1..Len(ns)
  BY <1>6, <1>7, <1>8
<1>15. DirsKept(ms, dir_ino)
  <2>1. ASSUME NEW q \in DOMAIN dir_ino
        PROVE  /\ dir_ino[q] \in 2..Len(ms) /\ ms[dir_ino[q]].kind = "dir"
               /\ Paths(ms)[dir_ino[q]] = q
    <3>1. dir_ino[q] \in 2..Len(ns) /\ ns[dir_ino[q]].kind = "dir" /\ Paths(ns)[dir_ino[q]] = q
      BY <1>4 DEF DirsKept
    <3> QED
      BY <1>8, <1>10, <1>14, <3>1
  <2>2. ASSUME NEW i \in 2..Len(ms), ms[i].kind = "dir"
        PROVE  Paths(ms)[i] \in DOMAIN dir_ino /\ dir_ino[Paths(ms)[i]] = i
    <3>1. i \in 2..Len(ns) /\ ns[i].kind = "dir" /\ Paths(ms)[i] = Paths(ns)[i]
      BY <1>8, <1>9, <1>10, <1>12, <1>14, <2>2
    <3> QED
      BY <1>4, <3>1 DEF DirsKept
  <2> QED
    BY <2>1, <2>2 DEF DirsKept
<1>16. DirsNeeded(ms, e, m)
  <2>1. ASSUME NEW i \in 2..Len(ms), ms[i].kind = "dir"
        PROVE  \E l \in 1..m : Above(Paths(ms)[i], e[l].comps)
    <3>1. i \in 2..Len(ns) /\ ns[i].kind = "dir" /\ Paths(ms)[i] = Paths(ns)[i]
      BY <1>8, <1>9, <1>10, <1>12, <1>14, <2>1
    <3> QED
      BY <1>4, <3>1 DEF DirsNeeded
  <2> QED
    BY <2>1 DEF DirsNeeded
<1>17. hash # None
  BY TreeAssumption
<1>18. m \in 1..m /\ (\A l \in 1..(m - 1) : l \in 1..m /\ l # m) /\ \A l \in 1..m : l = m \/ l \in 1..(m - 1)
  OBVIOUS
<1>19. ASSUME NEW i \in 1..Len(ns), ns[i].kind = "file"
       PROVE  ns[i].hash # None /\ \E l \in 1..(m - 1) : e[l].comps = Paths(ns)[i]
  BY <1>19, <1>4 DEF FilesKept
<1>20. ASSUME NEW i \in 1..Len(ms), ms[i].kind = "file"
       PROVE  ms[i].hash # None /\ \E l \in 1..m : e[l].comps = Paths(ms)[i]
  <2>1. CASE i = ino
    BY <1>9, <1>10, <1>17, <1>18, <2>1
  <2>2. CASE i \in 1..Len(ns)
    <3>1. ns[i].kind = "file" /\ Paths(ms)[i] = Paths(ns)[i] /\ ms[i].hash = ns[i].hash
      BY <1>8, <1>10, <1>20, <2>2
    <3> QED
      BY <1>18, <1>19, <2>2, <3>1
  <2> QED
    BY <1>11, <2>1, <2>2
<1>21. FileOf(ms, e, m, m, ino)
  <2>1. ASSUME \A l \in 1..m : e[l].comps = e[m].comps => l = m,
               NEW j \in 1..Len(ms), ms[j].kind = "file", Paths(ms)[j] = e[m].comps
        PROVE  j = ino
    <3>1. CASE j \in 1..Len(ns)
      <4>1. ns[j].kind = "file" /\ Paths(ns)[j] = e[m].comps
        BY <1>8, <1>10, <2>1, <3>1
      <4>2. PICK l \in 1..(m - 1) : e[l].comps = e[m].comps
        BY <1>19, <3>1, <4>1
      <4> QED
        BY <1>18, <2>1, <4>2
    <3> QED
      BY <1>11, <3>1
  <2> QED
    BY <1>9, <1>10, <1>1, <2>1 DEF FileOf
<1>22. ASSUME NEW k \in 1..(m - 1), e[k].comps # <<>>
       PROVE  \E i \in 1..Len(ms) : FileOf(ms, e, m, k, i)
  <2>1. PICK i \in 1..Len(ns) : FileOf(ns, e, m - 1, k, i)
    BY <1>22, <1>4 DEF FilesKept
  <2>2. ms[i].kind = "file" /\ Paths(ms)[i] = e[k].comps /\ ms[i].hash = catalog[e[k]]
    BY <1>8, <1>10, <2>1 DEF FileOf
  <2>3. ASSUME \A l \in 1..m : e[l].comps = e[k].comps => l = k,
               NEW j \in 1..Len(ms), ms[j].kind = "file", Paths(ms)[j] = e[k].comps
        PROVE  j = i
    <3>1. \A l \in 1..(m - 1) : e[l].comps = e[k].comps => l = k
      BY <1>18, <2>3
    <3>2. e[m].comps # e[k].comps
      BY <1>18, <2>3
    <3>3. j \in 1..Len(ns)
      BY <1>10, <1>11, <2>3, <3>2
    <3>4. ns[j].kind = "file" /\ Paths(ns)[j] = e[k].comps
      BY <1>8, <1>10, <2>3, <3>3
    <3> QED
      BY <2>1, <3>1, <3>3, <3>4 DEF FileOf
  <2>4. FileOf(ms, e, m, k, i)
    BY <2>2, <2>3 DEF FileOf
  <2> QED
    BY <1>13, <2>4
<1>23. FilesKept(ms, e, m)
  <2>1. ASSUME NEW k \in 1..m, e[k].comps # <<>>
        PROVE  \E i \in 1..Len(ms) : FileOf(ms, e, m, k, i)
    BY <1>11, <1>18, <1>21, <1>22, <2>1
  <2> QED
    BY <1>20, <2>1 DEF FilesKept
<1>24. Linked(ms)
  BY <1>2, <1>3, AddNodeLinked
<1>25. Len(ms) > 0
  BY <1>6, <1>7, <1>8
<1> QED
  BY <1>15, <1>16, <1>23, <1>1, <1>2, <1>24, <1>25

\* One turn of the loop over the components.
LEMMA EnterDirKeeps ==
    ASSUME NEW e, NEW m \in Nat \ {0}, NEW c \in Seq(Names), c = e[m].comps,
           NEW k \in 1..(Len(c) - 1), NEW t \in Entering(e, m, k - 1)
    PROVE  EnterDir(t, c[k]) \in Entering(e, m, k)
<1>1. /\ t \in TreeState /\ Linked(t.nodes) /\ Len(t.nodes) > 0
      /\ DirsKept(t.nodes, t.dir_ino) /\ DirsNeeded(t.nodes, e, m) /\ FilesKept(t.nodes, e, m - 1)
      /\ t.parent \in 1..Len(t.nodes) /\ t.nodes[t.parent].kind = "dir"
      /\ t.accum = SubSeq(c, 1, k - 1) /\ Paths(t.nodes)[t.parent] = t.accum
  BY DEF Entering
<1>2. Len(c) \in Nat /\ k \in Nat /\ k < Len(c) /\ k \in 1..Len(c) /\ k \in 0..Len(c) /\ c[k] \in Names
  BY LenProperties, ElementOfSeq
<1>3. PICK accum : accum = Append(t.accum, c[k])
  OBVIOUS
<1>4. accum = SubSeq(c, 1, k) /\ accum \in Seq(Names) /\ Len(accum) = k
  BY <1>1, <1>2, <1>3, OneMoreName
<1>5. Above(accum, e[m].comps)
  BY <1>2, <1>4 DEF Above
<1>6. /\ t.nodes \in Seq(Node) /\ t.dir_ino \in UNION {[D -> Nat] : D \in SUBSET Seq(Names)}
      /\ t.parent \in Nat /\ t.accum \in Seq(Names)
      /\ t = [nodes |-> t.nodes, dir_ino |-> t.dir_ino, parent |-> t.parent, accum |-> t.accum]
  BY <1>1 DEF TreeState
<1>7. Len(t.nodes) \in Nat
  BY <1>6, LenProperties
<1>8. PICK ns : ns = t.nodes
  OBVIOUS
<1>9. PICK p : p = t.parent
  OBVIOUS
<1>10. PICK dir_ino : dir_ino = t.dir_ino
  OBVIOUS
<1>11. PICK name : name = c[k]
  OBVIOUS
<1>12. /\ Linked(ns) /\ ns \in Seq(Node) /\ p \in 1..Len(ns) /\ ns[p].kind = "dir" /\ name \in Names
       /\ accum = Append(Paths(ns)[p], name)
  BY <1>1, <1>2, <1>3, <1>6, <1>8, <1>9, <1>11
<1>13. DirsKept(ns, dir_ino) /\ DirsNeeded(ns, e, m) /\ FilesKept(ns, e, m - 1)
  BY <1>1, <1>8, <1>10
<1>14. CASE accum \in DOMAIN t.dir_ino
  <2>1. PICK ino : ino = t.dir_ino[accum]
    OBVIOUS
  <2>2. ino \in 2..Len(t.nodes) /\ t.nodes[ino].kind = "dir" /\ Paths(t.nodes)[ino] = accum
    BY <1>1, <1>14, <2>1 DEF DirsKept
  <2>3. ino \in 1..Len(t.nodes) /\ ino \in Nat
    BY <1>7, <2>2
  <2>4. PICK u : u = [t EXCEPT !.parent = ino, !.accum = accum]
    OBVIOUS
  <2>5. EnterDir(t, c[k]) = u
    BY <1>3, <1>14, <2>1, <2>4 DEF EnterDir
  <2>6. u \in TreeState
    BY <1>1, <1>4, <2>3, <2>4 DEF TreeState
  <2>7. u.nodes = t.nodes /\ u.dir_ino = t.dir_ino /\ u.parent = ino /\ u.accum = accum
    BY <1>1, <2>4 DEF TreeState
  <2>8. u \in Entering(e, m, k)
    BY <1>1, <1>4, <2>2, <2>3, <2>6, <2>7 DEF Entering
  <2> QED
    BY <2>5, <2>8
<1>15. CASE accum \notin DOMAIN t.dir_ino
  <2>1. PICK ino : ino = Len(t.nodes) + 1
    OBVIOUS
  <2>2. PICK ms : ms = AddNode(ns, name, "dir", p, None)
    OBVIOUS
  <2>3. PICK di : di = Insert(t.dir_ino, accum, ino)
    OBVIOUS
  <2>4. "dir" \in {"dir", "file"} /\ None \in Hash \cup {None}
    OBVIOUS
  <2>5. Linked(ms)
    BY <1>12, <2>2, <2>4, AddNodeLinked
  <2>6. /\ ms \in Seq(Node) /\ Len(ms) = ino
        /\ ms[ino] = [name |-> c[k], kind |-> "dir", parent |-> t.parent, children |-> <<>>, hash |-> None]
    <3>1. ino = Len(ns) + 1
      BY <1>8, <2>1
    <3>2. /\ ms \in Seq(Node) /\ Len(ms) = ino
          /\ ms[ino] = [name |-> name, kind |-> "dir", parent |-> p, children |-> <<>>, hash |-> None]
      BY <1>12, <2>2, <2>4, <3>1, AddNodeShape
    <3> QED
      BY <1>9, <1>11, <3>2
  <2>7. Paths(ms)[ino] = accum
    <3>1. Paths(ms)[Len(ns) + 1] = Append(Paths(ns)[p], name)
      BY <1>12, <2>2, <2>4, AddNodePaths
    <3> QED
      BY <1>12, <1>8, <2>1, <3>1
  <2>8. DirsKept(ms, di) /\ DirsNeeded(ms, e, m) /\ FilesKept(ms, e, m - 1)
    <3>1. DirDue(ns, p, name, e, m, dir_ino)
      BY <1>5, <1>15, <1>12, <1>13, <1>10 DEF DirDue
    <3>2. ms = AddNode(ns, name, "dir", p, None) /\ di = Insert(dir_ino, Append(Paths(ns)[p], name), Len(ns) + 1)
      BY <1>12, <1>8, <1>10, <2>1, <2>2, <2>3
    <3> QED
      BY <3>1, <3>2, NewDir
  <2>9. di \in UNION {[D -> Nat] : D \in SUBSET Seq(Names)}
    <3>1. PICK D \in SUBSET Seq(Names) : t.dir_ino \in [D -> Nat]
      BY <1>6
    <3>2. D \cup {accum} \in SUBSET Seq(Names)
      BY <1>4
    <3>3. di \in [D \cup {accum} -> Nat]
      BY <1>7, <2>1, <2>3, <3>1 DEF Insert
    <3> QED
      BY <3>2, <3>3
  <2>10. PICK u : u = [nodes |-> ms, dir_ino |-> di, parent |-> ino, accum |-> accum]
    OBVIOUS
  <2>11. EnterDir(t, c[k]) = u
    BY <1>3, <1>15, <1>8, <1>9, <1>11, <2>1, <2>2, <2>3, <2>10 DEF EnterDir
  <2>12. u.nodes = ms /\ u.dir_ino = di /\ u.parent = ino /\ u.accum = accum
    BY <2>10
  <2>13. ino \in 1..Len(ms) /\ ino \in Nat /\ Len(ms) > 0
    BY <1>7, <2>1, <2>6
  <2>14. u \in TreeState
    BY <1>4, <2>6, <2>9, <2>10, <2>13 DEF TreeState
  <2>15. ms[ino].kind = "dir"
    BY <2>6
  <2>16. u \in Entering(e, m, k)
    BY <1>4, <2>5, <2>7, <2>8, <2>12, <2>13, <2>14, <2>15 DEF Entering
  <2> QED
    BY <2>11, <2>16
<1> QED
  BY <1>14, <1>15

\* One turn of the loop over the entries.
LEMMA AddEntryKeeps ==
    ASSUME NEW e, NEW m \in Nat \ {0}, e[m].comps \in Seq(Names), catalog[e[m]] \in Hash,
           NEW t \in Building(e, m - 1)
    PROVE  AddEntry(t, e[m]) \in Building(e, m)
<1>1. /\ t \in TreeState /\ Linked(t.nodes) /\ Len(t.nodes) > 0
      /\ DirsKept(t.nodes, t.dir_ino) /\ DirsNeeded(t.nodes, e, m - 1) /\ FilesKept(t.nodes, e, m - 1)
  BY DEF Building
<1>2. DirsNeeded(t.nodes, e, m)
  <2>1. \A l \in 1..(m - 1) : l \in 1..m
    OBVIOUS
  <2> QED
    BY <1>1, <2>1 DEF DirsNeeded
<1>3. PICK c \in Seq(Names) : c = e[m].comps
  OBVIOUS
<1>4. Len(c) \in Nat
  BY LenProperties
<1>5. CASE c = <<>>
  <2>1. AddEntry(t, e[m]) = t
    BY <1>3, <1>5 DEF AddEntry
  <2>2. \A l \in 1..m : l = m \/ l \in 1..(m - 1)
    OBVIOUS
  <2>3. FilesKept(t.nodes, e, m)
    <3>1. ASSUME NEW i \in 1..Len(t.nodes), t.nodes[i].kind = "file"
          PROVE  t.nodes[i].hash # None /\ \E l \in 1..m : e[l].comps = Paths(t.nodes)[i]
      <4>1. \A l \in 1..(m - 1) : l \in 1..m
        OBVIOUS
      <4> QED
        BY <1>1, <3>1, <4>1 DEF FilesKept
    <3>2. ASSUME NEW k \in 1..m, e[k].comps # <<>>
          PROVE  \E i \in 1..Len(t.nodes) : FileOf(t.nodes, e, m, k, i)
      <4>1. k \in 1..(m - 1)
        BY <1>3, <1>5, <2>2, <3>2
      <4>2. PICK i \in 1..Len(t.nodes) : FileOf(t.nodes, e, m - 1, k, i)
        BY <1>1, <3>2, <4>1 DEF FilesKept
      <4>3. \A l \in 1..(m - 1) : l \in 1..m
        OBVIOUS
      <4>4. FileOf(t.nodes, e, m, k, i)
        BY <4>2, <4>3 DEF FileOf
      <4> QED
        BY <4>4
    <3> QED
      BY <3>1, <3>2 DEF FilesKept
  <2> QED
    BY <1>1, <1>2, <2>1, <2>3 DEF Building
<1>6. CASE c # <<>>
  <2>1. PICK n \in Nat : n = Len(c) - 1 /\ Len(c) = n + 1 /\ Len(c) \in 1..Len(c)
    <3>1. Len(c) \in Nat \ {0}
      BY <1>6, EmptySeq
    <3>2. Len(c) - 1 \in Nat /\ Len(c) = (Len(c) - 1) + 1 /\ Len(c) \in 1..Len(c)
      BY <3>1
    <3> QED
      BY <3>2
  <2>2. PICK s : s = Front(c)
    OBVIOUS
  <2>3. s = SubSeq(c, 1, n)
    BY <2>1, <2>2 DEF Front
  <2>4. /\ s \in Seq(Names) /\ DOMAIN s = 1..n /\ Append(s, c[n + 1]) = c
        /\ \A k \in 1..n : s[k] = c[k]
    <3>1. n \in 0..Len(c) /\ n + 1 \in 1..Len(c) /\ (n + 1) - 1 = n
      BY <1>4, <2>1
    <3>2. s \in Seq(Names) /\ Len(s) = n
      BY <2>3, <3>1, OneMoreName
    <3>3. SubSeq(c, 1, n + 1) = Append(s, c[n + 1])
      BY <2>3, <3>1, OneMoreName
    <3>4. SubSeq(c, 1, n + 1) = c
      BY <2>1, SubSeqFull
    <3>5. c[n + 1] \in Names
      BY <3>1, ElementOfSeq
    <3>6. \A k \in 1..Len(s) : Append(s, c[n + 1])[k] = s[k]
      BY <3>2, <3>5, AppendProperties
    <3> QED
      BY <3>2, <3>3, <3>4, <3>6, LenProperties
  <2>5. PICK base : base = [t EXCEPT !.parent = Root, !.accum = <<>>]
    OBVIOUS
  <2>6. base \in Entering(e, m, 0)
    <3>1. base.nodes = t.nodes /\ base.dir_ino = t.dir_ino /\ base.parent = 1 /\ base.accum = <<>>
      BY <1>1, <2>5 DEF TreeState, Root
    <3>2. base \in TreeState
      <4>1. <<>> \in Seq(Names) /\ Root \in Nat
        BY EmptySeq DEF Root
      <4> QED
        BY <1>1, <2>5, <4>1 DEF TreeState
    <3>3. 1 \in 1..Len(t.nodes) /\ t.nodes[1].kind = "dir" /\ Paths(t.nodes)[1] = <<>>
      <4>1. Len(t.nodes) \in Nat
        BY <1>1 DEF Linked
      <4>2. 1 \in 1..Len(t.nodes)
        BY <1>1, <4>1
      <4>3. t.nodes[1].kind = "dir"
        BY <1>1 DEF Linked
      <4> QED
        BY <1>1, <4>2, <4>3, PathsOf
    <3>4. SubSeq(c, 1, 0) = <<>>
      BY SubSeqEmpty
    <3> QED
      BY <1>1, <1>2, <1>3, <3>1, <3>2, <3>3, <3>4 DEF Entering
  <2> DEFINE V == [k \in 0..n |-> Entering(e, m, k)]
  <2>7. base \in V[0]
    <3>1. 0 \in 0..n
      BY <2>1
    <3> QED
      BY <2>6, <3>1
  <2>8. ASSUME NEW k \in 1..n, NEW u \in V[k - 1]
        PROVE  EnterDir(u, s[k]) \in V[k]
    <3>1. k \in 1..(Len(c) - 1) /\ k - 1 \in 0..n /\ k \in 0..n
      BY <2>1
    <3>2. u \in Entering(e, m, k - 1)
      BY <2>8, <3>1
    <3>3. EnterDir(u, c[k]) \in Entering(e, m, k)
      BY <1>3, <3>1, <3>2, EnterDirKeeps
    <3> QED
      BY <2>4, <3>1, <3>3
  <2>9. PICK d : d = FoldLeft(EnterDir, base, s)
    OBVIOUS
  <2>10. d \in V[n]
    <3> HIDE DEF V
    <3> QED
      BY <2>1, <2>4, <2>7, <2>8, <2>9, EnterDirLoop
  <2>11. d \in Entering(e, m, n)
    <3>1. n \in 0..n
      BY <2>1
    <3> QED
      BY <2>10, <3>1
  <2>12. /\ d \in TreeState /\ Linked(d.nodes) /\ Len(d.nodes) > 0
         /\ DirsKept(d.nodes, d.dir_ino) /\ DirsNeeded(d.nodes, e, m) /\ FilesKept(d.nodes, e, m - 1)
         /\ d.parent \in 1..Len(d.nodes) /\ d.nodes[d.parent].kind = "dir"
         /\ Paths(d.nodes)[d.parent] = s
    BY <1>3, <2>3, <2>11 DEF Entering
  <2>13. PICK ns : ns = d.nodes
    OBVIOUS
  <2>14. PICK p : p = d.parent
    OBVIOUS
  <2>15. PICK dir_ino : dir_ino = d.dir_ino
    OBVIOUS
  <2>16. /\ Linked(ns) /\ ns \in Seq(Node) /\ p \in 1..Len(ns) /\ ns[p].kind = "dir" /\ Paths(ns)[p] = s
         /\ DirsKept(ns, dir_ino) /\ DirsNeeded(ns, e, m) /\ FilesKept(ns, e, m - 1)
    <3>1. d.nodes \in Seq(Node)
      BY <2>12 DEF Linked
    <3> QED
      BY <2>12, <2>13, <2>14, <2>15, <3>1
  <2>17. PICK name \in Names : name = c[n + 1] /\ name = Last(c)
    <3>1. c[n + 1] \in Names
      BY <2>1, ElementOfSeq
    <3> QED
      BY <2>1, <3>1 DEF Last
  <2>18. PICK ms : ms = AddNode(ns, name, "file", p, catalog[e[m]])
    OBVIOUS
  <2>19. FileDue(ns, p, name, e, m, dir_ino)
    BY <1>3, <2>4, <2>17, <2>16 DEF FileDue
  <2>20. Linked(ms) /\ Len(ms) > 0 /\ DirsKept(ms, dir_ino) /\ DirsNeeded(ms, e, m) /\ FilesKept(ms, e, m)
    BY <2>18, <2>19, NewFile
  <2>21. ms \in Seq(Node)
    BY <2>20 DEF Linked
  <2>22. PICK u : u = [d EXCEPT !.nodes = ms]
    OBVIOUS
  <2>23. u \in TreeState /\ u.nodes = ms /\ u.dir_ino = d.dir_ino
    BY <2>12, <2>21, <2>22 DEF TreeState
  <2>24. AddEntry(t, e[m]) = u
    BY <1>3, <1>6, <2>2, <2>5, <2>9, <2>17, <2>18, <2>22, <2>13, <2>14 DEF AddEntry
  <2> QED
    BY <2>20, <2>23, <2>24, <2>15 DEF Building
<1> QED
  BY <1>5, <1>6

-----------------------------------------------------------------------------
(* Where the nodes come from *)

\* No two directories have the same path.
UniqueDirs(ns) ==
    \A i, j \in 1..Len(ns) :
        ns[i].kind = "dir" /\ ns[j].kind = "dir" /\ Paths(ns)[i] = Paths(ns)[j] => i = j

\* A directory is above an entry of the catalog sh, and a file that has a hash
\* is one's.
Origins(ns, sh) ==
    /\ \A i \in 2..Len(ns) : ns[i].kind = "dir" =>
         \E k \in Present(sh) : Above(Paths(ns)[i], k.comps)
    /\ \A i \in 1..Len(ns) : ns[i].kind = "file" /\ ns[i].hash # None =>
         \E k \in Present(sh) : Paths(ns)[i] = k.comps

\* A file that was created and not yet written back has its path alone.
NewAlone(ns) ==
    \A i, j \in 1..Len(ns) :
        ns[i].kind = "file" /\ ns[i].hash = None /\ Paths(ns)[i] = Paths(ns)[j] => i = j

\* The file i, alone at its path, serves the entry k of the catalog sh.
HomeOf(ns, sh, k, i) ==
    /\ ns[i].kind = "file" /\ Paths(ns)[i] = k.comps /\ ns[i].hash = sh[k]
    /\ \A j \in 1..Len(ns) : Paths(ns)[j] = k.comps => j = i

Homes(ns, sh) ==
    \A k \in Present(sh) : Unambiguous(k, sh) => \E i \in 1..Len(ns) : HomeOf(ns, sh, k, i)

Placed(ns, sh) == UniqueDirs(ns) /\ Origins(ns, sh) /\ NewAlone(ns) /\ Homes(ns, sh)

\* Beginnings of paths.
LEMMA Beginnings ==
    ASSUME NEW S, NEW s \in Seq(S), NEW u \in Seq(S)
    PROVE  /\ IsPrefix(s, s)
           /\ Above(s, u) => IsPrefix(s, u) /\ s # u
           /\ IsPrefix(s, u) /\ s # u => Above(s, u)
<1>1. Len(s) \in Nat /\ Len(u) \in Nat
  BY LenProperties
<1>2. SubSeq(s, 1, Len(s)) = s /\ SubSeq(u, 1, Len(u)) = u
  BY SubSeqFull
<1>3. IsPrefix(s, s)
  BY <1>1 DEF IsPrefix
<1>4. Above(s, u) => IsPrefix(s, u) /\ s # u
  BY <1>1, <1>2 DEF Above, IsPrefix
<1>5. IsPrefix(s, u) /\ s # u => Above(s, u)
  <2> SUFFICES ASSUME IsPrefix(s, u), s # u
               PROVE  Above(s, u)
    OBVIOUS
  <2>1. Len(s) <= Len(u) /\ s = SubSeq(u, 1, Len(s))
    BY <1>2 DEF IsPrefix
  <2>2. Len(s) # Len(u)
    BY <1>2, <2>1
  <2> QED
    BY <1>1, <2>1, <2>2 DEF Above
<1> QED
  BY <1>3, <1>4, <1>5

\* Only the root has the empty path.
LEMMA RootPath ==
    ASSUME NEW ns, Linked(ns), NEW i \in 1..Len(ns)
    PROVE  Paths(ns)[i] = <<>> <=> i = 1
<1>1. Len(ns) \in Nat
  BY DEF Linked
<1>2. CASE i = 1
  <2>1. Len(ns) > 0
    BY <1>1
  <2> QED
    BY <1>2, <2>1, PathsOf
<1>3. CASE i # 1
  <2>1. i \in 2..Len(ns)
    BY <1>1, <1>3
  <2>2. PICK p : p = ns[i].parent
    OBVIOUS
  <2>3. p \in 1..(i - 1) /\ ns[i].name \in Names
    BY <2>1, <2>2 DEF Linked
  <2>4. p \in 1..Len(ns)
    BY <1>1, <2>3
  <2>5. PICK s \in Seq(Names) : s = Paths(ns)[p]
    BY <2>4, PathsOf
  <2>6. PICK a \in Names : a = ns[i].name
    BY <2>3
  <2>7. Paths(ns)[i] = Append(s, a)
    BY <2>1, <2>2, <2>5, <2>6, PathsOf
  <2>8. Append(s, a) # <<>>
    BY AppendProperties
  <2> QED
    BY <1>3, <2>7, <2>8
<1> QED
  BY <1>2, <1>3

\* The components of a key.
LEMMA KeyComps ==
    ASSUME NEW k \in Key
    PROVE  k.comps \in Seq(Names) /\ k = [abs |-> k.abs, comps |-> k.comps]
<1>1. k \in [abs : BOOLEAN, comps : Seq(Names)]
  BY TreeAssumption
<1> QED
  BY <1>1

\* The entries of the volume in some order: each of them once.
LEMMA Listed ==
    ASSUME NEW e \in SetToSeqs(Present(catalog))
    PROVE  \E N \in Nat : /\ e \in [1..N -> Present(catalog)]
                          /\ \A i, j \in 1..N : e[i] = e[j] => i = j
                          /\ \A k \in Present(catalog) : \E i \in 1..N : e[i] = k
<1> DEFINE S == Present(catalog)
           N == Cardinality(S)
<1>1. IsFiniteSet(S)
  <2>1. S \in SUBSET Key
    BY DEF Present
  <2> HIDE DEF S
  <2> QED
    BY <2>1, TreeAssumption, FS_Subset
<1>2. N \in Nat
  BY <1>1, FS_CardinalityType
<1>3. e \in [1..N -> S] /\ \A i, j \in 1..N : i # j => e[i] # e[j]
  BY DEF SetToSeqs
<1> HIDE DEF S, N
<1>4. e \in Injection(1..N, S)
  BY <1>3 DEF Injection, IsInjective
<1>5. Cardinality(1..N) = N
  <2>1. 1 \in Int /\ N \in Int
    BY <1>2
  <2>2. Cardinality(1..N) = IF 1 > N THEN 0 ELSE N - 1 + 1
    BY <2>1, FS_Interval
  <2> QED
    BY <1>2, <2>2
<1>6. e \in Surjection(1..N, S)
  <2>1. Cardinality(1..N) = Cardinality(S)
    BY <1>5 DEF N
  <2> QED
    BY <1>1, <1>4, <2>1, FS_Injection
<1>7. \A k \in S : \E i \in 1..N : e[i] = k
  BY <1>6 DEF Surjection
<1> QED
  BY <1>2, <1>3, <1>7 DEF S

\* The root alone is a tree.
LEMMA RootLinked == Linked(<<RootNode>>) /\ Len(<<RootNode>>) = 1 /\ <<RootNode>>[1].kind = "dir"
<1>1. PICK ns : ns = <<RootNode>>
  OBVIOUS
<1>2. RootNode \in Node
  <2>1. <<>> \in Seq(Nat)
    BY EmptySeq
  <2> QED
    BY <2>1 DEF RootNode, Node, Root
<1>3. ns \in Seq(Node) /\ Len(ns) = 1 /\ ns[1] = RootNode
  BY <1>1, <1>2
<1>4. ns[1].children = <<>> /\ ns[1].kind = "dir"
  BY <1>3 DEF RootNode
<1>5. Len(ns[1].children) = 0
  BY <1>4
<1>6. \A i \in 1..Len(ns) : i = 1
  BY <1>3
<1>7. Linked(ns)
  BY <1>3, <1>4, <1>5, <1>6 DEF Linked
<1> QED
  BY <1>1, <1>3, <1>4, <1>7

\* What connect starts from.
LEMMA BuildingStarts ==
    ASSUME NEW e
    PROVE  [nodes |-> <<RootNode>>, dir_ino |-> <<>>, parent |-> Root, accum |-> <<>>] \in Building(e, 0)
<1>1. PICK t : t = [nodes |-> <<RootNode>>, dir_ino |-> <<>>, parent |-> Root, accum |-> <<>>]
  OBVIOUS
<1>2. PICK ns : ns = <<RootNode>>
  OBVIOUS
<1>3. Linked(ns) /\ Len(ns) = 1 /\ ns[1].kind = "dir"
  BY <1>2, RootLinked
<1>4. ns \in Seq(Node)
  BY <1>3 DEF Linked
<1>5. PICK d : d = <<>>
  OBVIOUS
<1>6. DOMAIN d = {} /\ d \in UNION {[D -> Nat] : D \in SUBSET Seq(Names)}
  <2>1. d \in Seq(Nat) /\ Len(d) = 0
    BY <1>5, EmptySeq
  <2>2. d \in [1..0 -> Nat] /\ DOMAIN d = 1..0
    BY <2>1, LenProperties
  <2>3. 1..0 = {}
    OBVIOUS
  <2>4. {} \in SUBSET Seq(Names) /\ d \in [{} -> Nat]
    BY <2>2, <2>3
  <2> QED
    BY <2>2, <2>3, <2>4
<1>7. Root \in Nat /\ <<>> \in Seq(Names)
  BY EmptySeq DEF Root
<1>8. t.nodes = ns /\ t.dir_ino = d
  BY <1>1, <1>2, <1>5
<1>9. t \in TreeState
  BY <1>1, <1>2, <1>4, <1>5, <1>6, <1>7 DEF TreeState
<1>10. 2..Len(ns) = {} /\ 1..0 = {} /\ \A i \in 1..Len(ns) : ns[i].kind # "file"
  <2>1. \A i \in 1..Len(ns) : i = 1
    BY <1>3
  <2> QED
    BY <1>3, <2>1
<1>11. DirsKept(ns, d) /\ DirsNeeded(ns, e, 0) /\ FilesKept(ns, e, 0)
  BY <1>6, <1>10 DEF DirsKept, DirsNeeded, FilesKept
<1>12. Len(ns) > 0
  BY <1>3
<1>13. t \in Building(e, 0)
  BY <1>3, <1>8, <1>9, <1>11, <1>12 DEF Building
<1> QED
  BY <1>1, <1>13

\* What connect ends in.
LEMMA BuildingEnds ==
    ASSUME catalog \in [Key -> Hash \cup {None}],
           NEW N \in Nat, NEW e \in [1..N -> Present(catalog)]
    PROVE  FoldLeft(AddEntry,
                    [nodes |-> <<RootNode>>, dir_ino |-> <<>>, parent |-> Root, accum |-> <<>>],
                    e) \in Building(e, N)
<1>1. PICK base : base = [nodes |-> <<RootNode>>, dir_ino |-> <<>>, parent |-> Root, accum |-> <<>>]
  OBVIOUS
<1> DEFINE V == [k \in 0..N |-> Building(e, k)]
<1>2. base \in V[0]
  <2>1. base \in Building(e, 0)
    BY <1>1, BuildingStarts
  <2>2. 0 \in 0..N
    OBVIOUS
  <2> QED
    BY <2>1, <2>2
<1>3. ASSUME NEW k \in 1..N, NEW u \in V[k - 1]
      PROVE  AddEntry(u, e[k]) \in V[k]
  <2>1. k \in Nat \ {0} /\ k - 1 \in 0..N /\ k \in 0..N
    OBVIOUS
  <2>2. u \in Building(e, k - 1)
    BY <1>3, <2>1
  <2>3. e[k] \in Present(catalog)
    OBVIOUS
  <2>4. e[k] \in Key /\ catalog[e[k]] # None
    BY <2>3 DEF Present
  <2>5. e[k].comps \in Seq(Names)
    BY <2>4, KeyComps
  <2>6. catalog[e[k]] \in Hash
    BY <2>4
  <2>7. AddEntry(u, e[k]) \in Building(e, k)
    BY <2>1, <2>2, <2>5, <2>6, AddEntryKeeps
  <2> QED
    BY <2>1, <2>7
<1>4. DOMAIN e = 1..N
  OBVIOUS
<1>5. FoldLeft(AddEntry, base, e) \in V[N]
  <2> HIDE DEF V
  <2> QED
    BY <1>2, <1>3, <1>4, AddEntryLoop
<1>6. V[N] = Building(e, N)
  <2>1. N \in 0..N
    OBVIOUS
  <2> QED
    BY <2>1
<1> HIDE DEF V
<1> QED
  BY <1>1, <1>5, <1>6

\* The nodes that connect makes.
LEMMA ConnectPlaces ==
    ASSUME catalog \in [Key -> Hash \cup {None}], NEW e \in SetToSeqs(Present(catalog)), NEW ns,
           ns = FoldLeft(AddEntry,
                         [nodes |-> <<RootNode>>, dir_ino |-> <<>>, parent |-> Root, accum |-> <<>>],
                         e).nodes
    PROVE  Linked(ns) /\ Len(ns) > 0 /\ Placed(ns, catalog)
<1>1. PICK N \in Nat : /\ e \in [1..N -> Present(catalog)]
                       /\ \A i, j \in 1..N : e[i] = e[j] => i = j
                       /\ \A k \in Present(catalog) : \E i \in 1..N : e[i] = k
  BY Listed
<1>2. PICK t \in Building(e, N) : ns = t.nodes
  BY <1>1, BuildingEnds
<1>3. /\ Linked(ns) /\ Len(ns) > 0 /\ DirsKept(ns, t.dir_ino)
      /\ DirsNeeded(ns, e, N) /\ FilesKept(ns, e, N)
  BY <1>2 DEF Building
<1>4. Len(ns) \in Nat
  <2>1. Linked(ns)
    BY <1>3
  <2> QED
    BY <2>1 DEF Linked
<1>5. \A l \in 1..N : e[l] \in Present(catalog) /\ e[l] \in Key
  BY <1>1 DEF Present
<1>6. \A i \in 1..Len(ns) : i = 1 \/ i \in 2..Len(ns)
  BY <1>4
<1>7. UniqueDirs(ns)
  <2>1. ASSUME NEW i \in 1..Len(ns), NEW j \in 1..Len(ns), ns[i].kind = "dir", ns[j].kind = "dir",
               Paths(ns)[i] = Paths(ns)[j]
        PROVE  i = j
    <3>1. CASE i = 1 \/ j = 1
      <4>1. Paths(ns)[i] = <<>> <=> i = 1
        BY <1>3, RootPath
      <4>2. Paths(ns)[j] = <<>> <=> j = 1
        BY <1>3, RootPath
      <4> QED
        BY <2>1, <3>1, <4>1, <4>2
    <3>2. CASE i # 1 /\ j # 1
      <4>1. i \in 2..Len(ns) /\ j \in 2..Len(ns)
        BY <1>6, <3>2
      <4>2. t.dir_ino[Paths(ns)[i]] = i /\ t.dir_ino[Paths(ns)[j]] = j
        BY <1>3, <2>1, <4>1 DEF DirsKept
      <4> QED
        BY <2>1, <4>2
    <3> QED
      BY <3>1, <3>2
  <2> QED
    BY <2>1 DEF UniqueDirs
<1>8. Origins(ns, catalog)
  BY <1>3, <1>5 DEF Origins, DirsNeeded, FilesKept
<1>9. NewAlone(ns)
  BY <1>3 DEF NewAlone, FilesKept
<1>10. ASSUME NEW k \in Present(catalog), Unambiguous(k, catalog)
       PROVE  \E i \in 1..Len(ns) : HomeOf(ns, catalog, k, i)
  <2>1. k \in Key /\ k.comps \in Seq(Names)
    BY KeyComps DEF Present
  <2>2. /\ k.comps # <<>>
        /\ \A j \in Present(catalog) : j # k /\ j.comps # <<>> =>
             ~IsPrefix(j.comps, k.comps) /\ ~IsPrefix(k.comps, j.comps)
    BY <1>10 DEF Unambiguous
  <2>3. PICK l \in 1..N : e[l] = k
    BY <1>1
  <2>4. PICK i \in 1..Len(ns) : FileOf(ns, e, N, l, i)
    BY <1>3, <2>2, <2>3 DEF FilesKept
  <2>5. ASSUME NEW q \in 1..N, e[q].comps = k.comps
        PROVE  q = l
    <3>1. IsPrefix(k.comps, k.comps)
      BY <2>1, Beginnings
    <3>2. e[q] = k
      BY <1>5, <2>2, <2>5, <3>1
    <3> QED
      BY <1>1, <2>3, <3>2
  <2>6. /\ ns[i].kind = "file" /\ Paths(ns)[i] = k.comps /\ ns[i].hash = catalog[k]
        /\ \A j \in 1..Len(ns) : ns[j].kind = "file" /\ Paths(ns)[j] = k.comps => j = i
    BY <2>3, <2>4, <2>5 DEF FileOf
  <2>7. ASSUME NEW j \in 1..Len(ns), Paths(ns)[j] = k.comps, ns[j].kind = "dir"
        PROVE  FALSE
    <3>1. Paths(ns)[j] = <<>> <=> j = 1
      BY <1>3, RootPath
    <3>2. j \in 2..Len(ns)
      BY <1>6, <2>2, <2>7, <3>1
    <3>3. PICK q \in 1..N : Above(k.comps, e[q].comps)
      BY <1>3, <2>7, <3>2 DEF DirsNeeded
    <3>4. e[q] \in Present(catalog) /\ e[q] \in Key /\ e[q].comps \in Seq(Names)
      BY <1>5, KeyComps
    <3>5. IsPrefix(k.comps, e[q].comps) /\ e[q].comps # k.comps
      BY <2>1, <3>3, <3>4, Beginnings
    <3>6. e[q].comps # <<>>
      <4>1. Len(k.comps) < Len(e[q].comps) /\ Len(k.comps) \in Nat
        BY <2>1, <3>3, LenProperties DEF Above
      <4>2. Len(e[q].comps) # 0
        BY <4>1
      <4> QED
        BY <4>2
    <3> QED
      BY <2>2, <3>4, <3>5, <3>6
  <2>8. \A j \in 1..Len(ns) : ns[j].kind \in {"dir", "file"}
    <3>1. ns \in Seq(Node)
      BY <1>3 DEF Linked
    <3>2. \A j \in 1..Len(ns) : ns[j] \in Node
      BY <3>1, ElementOfSeq
    <3> QED
      BY <3>2 DEF Node
  <2>9. HomeOf(ns, catalog, k, i)
    BY <2>6, <2>7, <2>8 DEF HomeOf
  <2> QED
    BY <2>9
<1>11. Homes(ns, catalog)
  BY <1>10 DEF Homes
<1> QED
  BY <1>3, <1>7, <1>8, <1>9, <1>11 DEF Placed

\* A node above a home is a directory.
LEMMA AboveHome ==
    ASSUME NEW ns, Linked(ns), NEW sh, Placed(ns, sh), NEW k \in Present(sh), Unambiguous(k, sh),
           NEW i \in 1..Len(ns), HomeOf(ns, sh, k, i),
           NEW j \in 1..Len(ns), Above(Paths(ns)[j], k.comps)
    PROVE  ns[j].kind = "dir"
<1>1. k \in Key /\ k.comps \in Seq(Names)
  BY KeyComps DEF Present
<1>2. PICK s \in Seq(Names) : s = Paths(ns)[j]
  BY PathsOf
<1>3. /\ Len(s) < Len(k.comps) /\ s = SubSeq(k.comps, 1, Len(s)) /\ Len(s) \in Nat
      /\ IsPrefix(s, k.comps) /\ s # k.comps
  BY <1>1, <1>2, LenProperties, Beginnings DEF Above
<1>4. ns[j].kind \in {"dir", "file"} /\ (Len(ns) > 0 => ns[1].kind = "dir")
  <2>1. ns \in Seq(Node)
    BY DEF Linked
  <2>2. ns[j] \in Node
    BY <2>1, ElementOfSeq
  <2> QED
    BY <2>2 DEF Node, Linked
<1>5. ASSUME ns[j].kind = "file", ns[j].hash # None
      PROVE  FALSE
  <2>1. PICK l \in Present(sh) : s = l.comps
    BY <1>2, <1>5 DEF Placed, Origins
  <2>2. l # k
    BY <1>3, <2>1
  <2>3. s # <<>>
    <3>1. s = <<>> <=> j = 1
      BY <1>2, RootPath
    <3>2. Len(ns) > 0
      BY DEF Linked
    <3> QED
      BY <1>4, <1>5, <3>1, <3>2
  <2> QED
    BY <1>3, <2>1, <2>2, <2>3 DEF Unambiguous
<1>6. ASSUME ns[j].kind = "file", ns[j].hash = None
      PROVE  FALSE
  <2>1. Paths(ns)[i] = k.comps
    BY DEF HomeOf
  <2>2. PICK q \in 1..Len(ns) : ns[q].kind = "dir" /\ Paths(ns)[q] = SubSeq(k.comps, 1, Len(s))
    <3>1. Len(s) \in Nat /\ Len(s) < Len(Paths(ns)[i])
      BY <1>3, <2>1
    <3>2. \E q \in 1..Len(ns) : ns[q].kind = "dir" /\ Paths(ns)[q] = SubSeq(Paths(ns)[i], 1, Len(s))
      BY <3>1, Ancestors
    <3> QED
      BY <2>1, <3>2
  <2>3. j = q
    BY <1>2, <1>3, <1>6, <2>2 DEF Placed, NewAlone
  <2> QED
    BY <1>6, <2>2, <2>3
<1> QED
  BY <1>4, <1>5, <1>6

\* What lookup finds.
LEMMA LookupFinds ==
    ASSUME Linked(nodes), NEW d \in 1..Len(nodes), NEW name
    PROVE  \/ /\ Lookup(d, name) = None
              /\ \A c \in 2..Len(nodes) : nodes[c].parent = d => nodes[c].name # name
           \/ /\ Lookup(d, name) \in 2..Len(nodes)
              /\ nodes[Lookup(d, name)].parent = d /\ nodes[Lookup(d, name)].name = name
<1>1. PICK children : children = nodes[d].children
  OBVIOUS
<1>2. PICK found : found = {k \in 1..Len(children) : nodes[children[k]].name = name}
  OBVIOUS
<1>3. Lookup(d, name) = IF found = {} THEN None ELSE children[Min(found)]
  BY <1>1, <1>2 DEF Lookup
<1>4. \A k \in 1..Len(children) : children[k] \in 2..Len(nodes) /\ nodes[children[k]].parent = d
  BY <1>1 DEF Linked
<1>5. \A c \in 2..Len(nodes) : nodes[c].parent = d => \E k \in 1..Len(children) : children[k] = c
  BY <1>1 DEF Linked
<1>6. CASE found = {}
  <2>1. \A k \in 1..Len(children) : nodes[children[k]].name # name
    BY <1>2, <1>6
  <2> QED
    BY <1>3, <1>5, <1>6, <2>1
<1>7. CASE found # {}
  <2>1. found \subseteq Nat
    BY <1>2
  <2>2. \E n \in found : \A m \in found : n <= m
    BY <1>7, <2>1, LeastNat
  <2>3. Min(found) \in found
    BY <2>2 DEF Min
  <2>4. PICK k \in 1..Len(children) : k = Min(found) /\ nodes[children[k]].name = name
    BY <1>2, <2>3
  <2> QED
    BY <1>3, <1>4, <1>7, <2>4
<1> QED
  BY <1>6, <1>7

\* A walk ends nowhere or at a node of the path walked.
LEMMA WalkEnds ==
    ASSUME Linked(nodes), Len(nodes) > 0, NEW comps \in Seq(Names)
    PROVE  \/ Resolve(comps) = None
           \/ Resolve(comps) \in 1..Len(nodes) /\ Paths(nodes)[Resolve(comps)] = comps
<1>1. Len(comps) \in Nat /\ DOMAIN comps = 1..Len(comps) /\ Len(nodes) \in Nat
  BY LenProperties DEF Linked
<1> DEFINE At(k) == {i \in 1..Len(nodes) : Paths(nodes)[i] = SubSeq(comps, 1, k)}
           V == [k \in 0..Len(comps) |-> {None} \cup At(k)]
<1>2. Root \in V[0]
  <2>1. Root \in 1..Len(nodes) /\ Paths(nodes)[Root] = <<>>
    BY <1>1, PathsOf DEF Root
  <2>2. SubSeq(comps, 1, 0) = <<>>
    BY SubSeqEmpty
  <2>3. 0 \in 0..Len(comps)
    BY <1>1
  <2> QED
    BY <2>1, <2>2, <2>3
<1>3. ASSUME NEW k \in 1..Len(comps), NEW i \in V[k - 1]
      PROVE  Walk(i, comps[k]) \in V[k]
  <2>1. k - 1 \in 0..Len(comps) /\ k \in 0..Len(comps)
    BY <1>1
  <2>2. V[k] = {None} \cup At(k) /\ V[k - 1] = {None} \cup At(k - 1)
    BY <2>1
  <2>3. CASE i \notin Dirs
    BY <2>2, <2>3 DEF Walk
  <2>4. CASE i \in Dirs
    <3>1. i \in 1..Len(nodes)
      BY <2>4 DEF Dirs
    <3>2. i # None
      BY <1>1, <3>1, TreeAssumption
    <3>3. Paths(nodes)[i] = SubSeq(comps, 1, k - 1)
      BY <2>2, <3>2
    <3>4. PICK c : c = Lookup(i, comps[k])
      OBVIOUS
    <3>5. CASE c = None
      BY <2>2, <2>4, <3>4, <3>5 DEF Walk
    <3>6. CASE c \in 2..Len(nodes) /\ nodes[c].parent = i /\ nodes[c].name = comps[k]
      <4>1. Paths(nodes)[c] = Append(Paths(nodes)[i], comps[k])
        BY <3>6, PathsOf
      <4>2. Paths(nodes)[c] = SubSeq(comps, 1, k)
        BY <3>3, <4>1, OneMoreName
      <4>3. c \in 1..Len(nodes)
        BY <1>1, <3>6
      <4> QED
        BY <2>2, <2>4, <3>4, <4>2, <4>3 DEF Walk
    <3> QED
      BY <3>1, <3>4, <3>5, <3>6, LookupFinds
  <2> QED
    BY <2>3, <2>4
<1>4. Resolve(comps) \in V[Len(comps)]
  <2> HIDE DEF V
  <2> QED
    BY <1>1, <1>2, <1>3, WalkLoop DEF Resolve
<1>5. V[Len(comps)] = {None} \cup At(Len(comps))
  <2>1. Len(comps) \in 0..Len(comps)
    BY <1>1
  <2> QED
    BY <2>1
<1>6. SubSeq(comps, 1, Len(comps)) = comps
  BY SubSeqFull
<1> HIDE DEF V
<1> QED
  BY <1>4, <1>5, <1>6

\* A walk along the path of an unambiguous entry ends at its home.
LEMMA WalkHome ==
    ASSUME Linked(nodes), NEW sh, Placed(nodes, sh), NEW k \in Present(sh), Unambiguous(k, sh),
           NEW h \in 1..Len(nodes), HomeOf(nodes, sh, k, h)
    PROVE  Resolve(k.comps) = h
<1>1. k \in Key /\ k.comps \in Seq(Names)
  BY KeyComps DEF Present
<1>2. PICK comps \in Seq(Names) : comps = k.comps
  BY <1>1
<1>3. Len(comps) \in Nat /\ DOMAIN comps = 1..Len(comps) /\ Len(nodes) \in Nat /\ Len(nodes) > 0
  BY LenProperties DEF Linked
<1>4. Paths(nodes)[h] = comps /\ \A j \in 1..Len(nodes) : Paths(nodes)[j] = comps => j = h
  BY <1>2 DEF HomeOf
<1> DEFINE V == [m \in 0..Len(comps) |-> {i \in 1..Len(nodes) : Paths(nodes)[i] = SubSeq(comps, 1, m)}]
<1>5. Root \in V[0]
  <2>1. Root \in 1..Len(nodes) /\ Paths(nodes)[Root] = <<>>
    BY <1>3, PathsOf DEF Root
  <2>2. SubSeq(comps, 1, 0) = <<>>
    BY SubSeqEmpty
  <2>3. 0 \in 0..Len(comps)
    BY <1>3
  <2> QED
    BY <2>1, <2>2, <2>3
<1>6. ASSUME NEW m \in 1..Len(comps), NEW i \in V[m - 1]
      PROVE  Walk(i, comps[m]) \in V[m]
  <2>1. m - 1 \in 0..Len(comps) /\ m \in 0..Len(comps) /\ m \in Nat /\ m - 1 \in Nat /\ comps[m] \in Names
    BY <1>3, ElementOfSeq
  <2>2. PICK p \in Seq(Names) : p = SubSeq(comps, 1, m - 1) /\ Len(p) = m - 1
    BY <2>1, OneMoreName
  <2>3. SubSeq(comps, 1, m) = Append(p, comps[m])
    BY <2>2, OneMoreName
  <2>4. i \in 1..Len(nodes) /\ Paths(nodes)[i] = p
    BY <2>1, <2>2
  <2>5. nodes[i].kind = "dir"
    <3>1. Above(p, k.comps)
      BY <1>2, <1>3, <2>1, <2>2 DEF Above
    <3> QED
      BY <2>4, <3>1, AboveHome
  <2>6. PICK j \in 1..Len(nodes) : Paths(nodes)[j] = Append(p, comps[m])
    <3>1. CASE m = Len(comps)
      <4>1. Append(p, comps[m]) = comps
        BY <2>3, <3>1, SubSeqFull
      <4> QED
        BY <1>4, <4>1
    <3>2. CASE m < Len(comps)
      <4>1. m < Len(Paths(nodes)[h]) /\ SubSeq(Paths(nodes)[h], 1, m) = Append(p, comps[m])
        BY <1>4, <2>3, <3>2
      <4>2. \E j \in 1..Len(nodes) : nodes[j].kind = "dir" /\ Paths(nodes)[j] = SubSeq(Paths(nodes)[h], 1, m)
        <5>1. m \in Nat /\ m < Len(Paths(nodes)[h])
          BY <2>1, <4>1
        <5> QED
          BY <5>1, Ancestors
      <4> QED
        BY <4>1, <4>2
    <3>3. m = Len(comps) \/ m < Len(comps)
      <4>1. Len(comps) \in Nat
        BY <1>3
      <4> HIDE DEF V
      <4> QED
        BY <4>1
    <3> QED
      BY <3>1, <3>2, <3>3
  <2>7. j \in 2..Len(nodes)
    <3>1. Append(p, comps[m]) # <<>>
      BY <2>1, AppendProperties
    <3>2. Paths(nodes)[j] = <<>> <=> j = 1
      BY RootPath
    <3> QED
      BY <1>3, <2>6, <3>1, <3>2
  <2>8. PICK q : q = nodes[j].parent
    OBVIOUS
  <2>9. q \in 1..(j - 1) /\ nodes[q].kind = "dir" /\ nodes[j].name \in Names
    BY <2>7, <2>8 DEF Linked
  <2>10. q \in 1..Len(nodes)
    BY <1>3, <2>7, <2>9
  <2>11. Paths(nodes)[q] \in Seq(Names)
    BY <2>10, PathsOf
  <2>12. Paths(nodes)[j] = Append(Paths(nodes)[q], nodes[j].name)
    BY <2>7, <2>8, PathsOf
  <2>13. Paths(nodes)[q] = p /\ nodes[j].name = comps[m]
    <3>1. PICK u \in Seq(Names) : u = Paths(nodes)[q]
      BY <2>11
    <3>2. PICK a \in Names : a = nodes[j].name
      BY <2>9
    <3>3. PICK b \in Names : b = comps[m]
      BY <2>1
    <3>4. Append(u, a) = Append(p, b)
      BY <2>6, <2>12, <3>1, <3>2, <3>3
    <3>5. u = p /\ a = b
      BY <3>4, AppendOnce
    <3> QED
      BY <3>1, <3>2, <3>3, <3>5
  <2>14. q = i
    BY <2>4, <2>5, <2>9, <2>10, <2>13 DEF Placed, UniqueDirs
  <2>15. PICK c : c = Lookup(i, comps[m])
    OBVIOUS
  <2>16. c \in 2..Len(nodes) /\ nodes[c].parent = i /\ nodes[c].name = comps[m]
    <3>1. \/ \A g \in 2..Len(nodes) : nodes[g].parent = i => nodes[g].name # comps[m]
          \/ c \in 2..Len(nodes) /\ nodes[c].parent = i /\ nodes[c].name = comps[m]
      BY <2>4, <2>15, LookupFinds
    <3>2. nodes[j].parent = i /\ nodes[j].name = comps[m]
      BY <2>8, <2>13, <2>14
    <3> QED
      BY <2>7, <3>1, <3>2
  <2>17. Paths(nodes)[c] = SubSeq(comps, 1, m)
    BY <2>3, <2>4, <2>16, PathsOf
  <2>18. i \in Dirs
    BY <2>4, <2>5 DEF Dirs
  <2>19. Walk(i, comps[m]) = c /\ c \in 1..Len(nodes)
    BY <1>3, <2>15, <2>16, <2>18 DEF Walk
  <2> QED
    BY <2>1, <2>17, <2>19
<1>7. Resolve(comps) \in V[Len(comps)]
  <2> HIDE DEF V
  <2> QED
    BY <1>3, <1>5, <1>6, WalkLoop DEF Resolve
<1>8. Resolve(comps) \in 1..Len(nodes) /\ Paths(nodes)[Resolve(comps)] = SubSeq(comps, 1, Len(comps))
  <2>1. Len(comps) \in 0..Len(comps)
    BY <1>3
  <2> QED
    BY <1>7, <2>1
<1>9. SubSeq(comps, 1, Len(comps)) = comps
  BY SubSeqFull
<1> HIDE DEF V
<1> QED
  BY <1>2, <1>4, <1>8, <1>9

-----------------------------------------------------------------------------
(* create *)

\* A file under a name that the directory did not have.
LEMMA CreatePlaces ==
    ASSUME NEW ns, Linked(ns), NEW sh, Placed(ns, sh), NEW d \in 1..Len(ns), ns[d].kind = "dir",
           NEW name \in Names, \A c \in 2..Len(ns) : ns[c].parent = d => ns[c].name # name,
           NEW ms, ms = AddNode(ns, name, "file", d, None)
    PROVE  Placed(ms, sh)
<1>1. ns \in Seq(Node) /\ Len(ns) \in Nat
  BY DEF Linked
<1>2. "file" \in {"dir", "file"} /\ None \in Hash \cup {None}
  OBVIOUS
<1>3. PICK ino : ino = Len(ns) + 1
  OBVIOUS
<1>4. /\ Len(ms) = ino
      /\ \A i \in 1..Len(ns) : ms[i].kind = ns[i].kind /\ ms[i].hash = ns[i].hash
      /\ ms[ino] = [name |-> name, kind |-> "file", parent |-> d, children |-> <<>>, hash |-> None]
  BY <1>1, <1>2, <1>3, AddNodeShape
<1>5. ms[ino].kind = "file" /\ ms[ino].hash = None
  BY <1>4
<1>6. PICK path : path = Append(Paths(ns)[d], name)
  OBVIOUS
<1>7. (\A i \in 1..Len(ns) : Paths(ms)[i] = Paths(ns)[i]) /\ Paths(ms)[ino] = path
  <2>1. /\ \A i \in 1..Len(ns) : Paths(ms)[i] = Paths(ns)[i]
        /\ Paths(ms)[Len(ns) + 1] = Append(Paths(ns)[d], name)
    BY <1>2, AddNodePaths
  <2> QED
    BY <1>3, <1>6, <2>1
<1>8. \A i \in 1..Len(ms) : i = ino \/ i \in 1..Len(ns)
  BY <1>1, <1>3, <1>4
<1>9. \A i \in 2..Len(ms) : i = ino \/ i \in 2..Len(ns)
  BY <1>1, <1>3, <1>4
<1>10. (\A i \in 1..Len(ns) : i \in 1..Len(ms)) /\ \A i \in 2..Len(ns) : i \in 1..Len(ns)
  BY <1>1, <1>3, <1>4
<1>11. ASSUME NEW j \in 1..Len(ns), Paths(ns)[j] = path
       PROVE  FALSE
  <2>1. PICK s \in Seq(Names) : s = Paths(ns)[d]
    BY PathsOf
  <2>2. path # <<>>
    BY <1>6, <2>1, AppendProperties
  <2>3. j \in 2..Len(ns)
    <3>1. Paths(ns)[j] = <<>> <=> j = 1
      BY RootPath
    <3> QED
      BY <1>1, <1>11, <2>2, <3>1
  <2>4. PICK q : q = ns[j].parent
    OBVIOUS
  <2>5. q \in 1..(j - 1) /\ ns[q].kind = "dir" /\ ns[j].name \in Names
    BY <2>3, <2>4 DEF Linked
  <2>6. q \in 1..Len(ns)
    BY <1>1, <2>3, <2>5
  <2>7. PICK u \in Seq(Names) : u = Paths(ns)[q]
    BY <2>6, PathsOf
  <2>8. PICK a \in Names : a = ns[j].name
    BY <2>5
  <2>9. Append(u, a) = Append(s, name)
    BY <1>6, <1>11, <2>1, <2>3, <2>4, <2>7, <2>8, PathsOf
  <2>10. u = s /\ a = name
    BY <2>9, AppendOnce
  <2>11. q = d
    BY <2>1, <2>5, <2>6, <2>7, <2>10 DEF Placed, UniqueDirs
  <2> QED
    BY <2>3, <2>4, <2>8, <2>10, <2>11
<1>12. UniqueDirs(ms)
  <2>1. UniqueDirs(ns)
    BY DEF Placed
  <2>2. \A i \in 1..Len(ms) : ms[i].kind = "dir" =>
           i \in 1..Len(ns) /\ ns[i].kind = "dir" /\ Paths(ms)[i] = Paths(ns)[i]
    BY <1>4, <1>5, <1>7, <1>8
  <2> QED
    BY <2>1, <2>2 DEF UniqueDirs
<1>13. Origins(ms, sh)
  <2>1. Origins(ns, sh)
    BY DEF Placed
  <2>2. \A i \in 2..Len(ms) : ms[i].kind = "dir" =>
           i \in 2..Len(ns) /\ ns[i].kind = "dir" /\ Paths(ms)[i] = Paths(ns)[i]
    BY <1>4, <1>5, <1>7, <1>9, <1>10
  <2>3. \A i \in 1..Len(ms) : ms[i].kind = "file" /\ ms[i].hash # None =>
           i \in 1..Len(ns) /\ ns[i].kind = "file" /\ ns[i].hash # None /\ Paths(ms)[i] = Paths(ns)[i]
    BY <1>4, <1>5, <1>7, <1>8
  <2> QED
    BY <2>1, <2>2, <2>3 DEF Origins
<1>14. NewAlone(ms)
  <2>1. NewAlone(ns)
    BY DEF Placed
  <2>2. ASSUME NEW i \in 1..Len(ms), NEW j \in 1..Len(ms), ms[i].kind = "file", ms[i].hash = None,
               Paths(ms)[i] = Paths(ms)[j]
        PROVE  i = j
    <3>1. CASE i \in 1..Len(ns) /\ j \in 1..Len(ns)
      BY <1>4, <1>7, <2>1, <2>2, <3>1 DEF NewAlone
    <3>2. CASE i = ino /\ j \in 1..Len(ns)
      BY <1>7, <1>11, <2>2, <3>2
    <3>3. CASE i \in 1..Len(ns) /\ j = ino
      BY <1>7, <1>11, <2>2, <3>3
    <3> QED
      BY <1>8, <3>1, <3>2, <3>3
  <2> QED
    BY <2>2 DEF NewAlone
<1>15. Homes(ms, sh)
  <2>1. ASSUME NEW k \in Present(sh), Unambiguous(k, sh)
        PROVE  \E i \in 1..Len(ms) : HomeOf(ms, sh, k, i)
    <3>1. PICK i \in 1..Len(ns) : HomeOf(ns, sh, k, i)
      BY <2>1 DEF Placed, Homes
    <3>2. /\ ns[i].kind = "file" /\ Paths(ns)[i] = k.comps /\ ns[i].hash = sh[k]
          /\ \A j \in 1..Len(ns) : Paths(ns)[j] = k.comps => j = i
      BY <3>1 DEF HomeOf
    <3>3. path # k.comps
      BY <1>11, <3>2
    <3>4. \A j \in 1..Len(ms) : Paths(ms)[j] = k.comps => j = i
      BY <1>7, <1>8, <3>2, <3>3
    <3>5. HomeOf(ms, sh, k, i)
      BY <1>4, <1>7, <3>2, <3>4 DEF HomeOf
    <3> QED
      BY <1>10, <3>5
  <2> QED
    BY <2>1 DEF Homes
<1> QED
  BY <1>12, <1>13, <1>14, <1>15 DEF Placed

-----------------------------------------------------------------------------
(* flush_bytes *)

\* The nodes with one hash changed.
LEMMA HashShape ==
    ASSUME NEW ns, Linked(ns), NEW i \in 1..Len(ns), NEW h \in Hash,
           NEW ms, ms = [ns EXCEPT ![i].hash = h]
    PROVE  /\ Linked(ms) /\ Len(ms) = Len(ns) /\ ms[i].hash = h
           /\ \A j \in 1..Len(ns) : j # i => ms[j] = ns[j]
           /\ \A j \in 1..Len(ns) : /\ ms[j].name = ns[j].name /\ ms[j].kind = ns[j].kind
                                    /\ ms[j].parent = ns[j].parent /\ ms[j].children = ns[j].children
<1>1. ns \in Seq(Node) /\ Len(ns) \in Nat
  BY DEF Linked
<1>2. PICK x : x = [ns[i] EXCEPT !.hash = h]
  OBVIOUS
<1>3. ns[i] \in Node
  BY <1>1, ElementOfSeq
<1>4. /\ x \in Node /\ x.hash = h /\ x.name = ns[i].name /\ x.kind = ns[i].kind
      /\ x.parent = ns[i].parent /\ x.children = ns[i].children
  BY <1>2, <1>3 DEF Node
<1>5. ms = [ns EXCEPT ![i] = x]
  BY <1>2
<1>6. ms \in Seq(Node) /\ Len(ms) = Len(ns) /\ \A j \in 1..Len(ns) : ms[j] = IF j = i THEN x ELSE ns[j]
  <2>1. ns \in Seq(Node) /\ x \in Node
    BY <1>1, <1>4
  <2>2. /\ [ns EXCEPT ![i] = x] \in Seq(Node) /\ Len([ns EXCEPT ![i] = x]) = Len(ns)
        /\ \A j \in 1..Len(ns) : [ns EXCEPT ![i] = x][j] = IF j = i THEN x ELSE ns[j]
    BY <2>1, ExceptSeq
  <2> QED
    BY <1>5, <2>2, Zenon
<1>7. \A j \in 1..Len(ns) : /\ ms[j].name = ns[j].name /\ ms[j].kind = ns[j].kind
                            /\ ms[j].parent = ns[j].parent /\ ms[j].children = ns[j].children
  BY <1>4, <1>6
<1>8. ms[i].hash = h /\ \A j \in 1..Len(ns) : j # i => ms[j] = ns[j]
  BY <1>4, <1>6
<1>9. Linked(ms)
  <2>1. Len(ms) > 0 => ms[1].kind = "dir"
    <3>1. Len(ns) > 0 => 1 \in 1..Len(ns)
      BY <1>1
    <3> QED
      BY <1>6, <1>7, <3>1 DEF Linked
  <2>2. ASSUME NEW j \in 2..Len(ms)
        PROVE  /\ ms[j].name \in Names
               /\ ms[j].parent \in 1..(j - 1)
               /\ ms[ms[j].parent].kind = "dir"
               /\ \E k \in 1..Len(ms[ms[j].parent].children) : ms[ms[j].parent].children[k] = j
    <3>1. j \in 2..Len(ns) /\ j \in 1..Len(ns)
      BY <1>1, <1>6
    <3>2. PICK p : p = ns[j].parent
      OBVIOUS
    <3>3. /\ ns[j].name \in Names /\ p \in 1..(j - 1) /\ ns[p].kind = "dir"
          /\ \E k \in 1..Len(ns[p].children) : ns[p].children[k] = j
      BY <3>1, <3>2 DEF Linked
    <3>4. p \in 1..Len(ns)
      BY <3>1, <3>3
    <3>5. ms[j].name = ns[j].name /\ ms[j].parent = p /\ ms[p].kind = ns[p].kind /\ ms[p].children = ns[p].children
      BY <1>7, <3>1, <3>2, <3>4
    <3> QED
      BY <3>3, <3>5
  <2>3. ASSUME NEW j \in 1..Len(ms)
        PROVE  /\ \A k \in 1..Len(ms[j].children) :
                    ms[j].children[k] \in 2..Len(ms) /\ ms[ms[j].children[k]].parent = j
               /\ \A k, l \in 1..Len(ms[j].children) :
                    ms[j].children[k] = ms[j].children[l] => k = l
    <3>1. PICK c : c = ns[j].children
      OBVIOUS
    <3>2. j \in 1..Len(ns) /\ ms[j].children = c
      BY <1>6, <1>7, <3>1
    <3>3. \A k \in 1..Len(c) : c[k] \in 2..Len(ns) /\ ns[c[k]].parent = j
      BY <3>1, <3>2 DEF Linked
    <3>4. \A k, l \in 1..Len(c) : c[k] = c[l] => k = l
      BY <3>1, <3>2 DEF Linked
    <3>5. \A a \in 2..Len(ns) : a \in 2..Len(ms) /\ ms[a].parent = ns[a].parent
      <4>1. \A a \in 2..Len(ns) : a \in 1..Len(ns)
        BY <1>1
      <4> QED
        BY <1>6, <1>7, <4>1
    <3>6. \A k \in 1..Len(c) : c[k] \in 2..Len(ms) /\ ms[c[k]].parent = j
      <4>1. ASSUME NEW k \in 1..Len(c)
            PROVE  c[k] \in 2..Len(ms) /\ ms[c[k]].parent = j
        <5>1. PICK a \in 2..Len(ns) : a = c[k] /\ ns[a].parent = j
          BY <3>3
        <5>2. a \in 2..Len(ms) /\ ms[a].parent = j
          BY <3>5, <5>1
        <5> QED
          BY <5>1, <5>2
      <4> QED
        BY <4>1
    <3>7. ms[j].children = c
      BY <3>2
    <3>8. \A k \in 1..Len(ms[j].children) :
             ms[j].children[k] \in 2..Len(ms) /\ ms[ms[j].children[k]].parent = j
      BY <3>6, <3>7, Zenon
    <3>9. \A k, l \in 1..Len(ms[j].children) : ms[j].children[k] = ms[j].children[l] => k = l
      <4>1. ASSUME NEW k \in 1..Len(ms[j].children), NEW l \in 1..Len(ms[j].children),
                   ms[j].children[k] = ms[j].children[l]
            PROVE  k = l
        <5>1. k \in 1..Len(c) /\ l \in 1..Len(c) /\ c[k] = c[l]
          BY <3>7, <4>1, Zenon
        <5> QED
          BY <3>4, <5>1, Zenon
      <4> QED
        BY <4>1, Zenon
    <3> QED
      BY <3>8, <3>9, Zenon
  <2>4. ms \in Seq(Node)
    BY <1>6
  <2> QED
    BY <2>1, <2>2, <2>3, <2>4 DEF Linked
<1> QED
  BY <1>6, <1>7, <1>8, <1>9

\* The catalog with one entry more, or changed.
LEMMA EntrySet ==
    ASSUME NEW sh \in [Key -> Hash \cup {None}], NEW f \in Key, NEW h \in Hash,
           NEW to, to = [sh EXCEPT ![f] = h]
    PROVE  /\ to \in [Key -> Hash \cup {None}]
           /\ to[f] = h /\ \A k \in Key : k # f => to[k] = sh[k]
           /\ Present(to) = Present(sh) \cup {f}
           /\ \A k : Unambiguous(k, to) => Unambiguous(k, sh)
           /\ f \in Present(sh) => \A k : Unambiguous(k, sh) => Unambiguous(k, to)
<1>1. to \in [Key -> Hash \cup {None}] /\ to[f] = h /\ \A k \in Key : k # f => to[k] = sh[k]
  OBVIOUS
<1>2. h # None
  BY TreeAssumption
<1>3. Present(to) = Present(sh) \cup {f}
  BY <1>1, <1>2 DEF Present
<1>4. ASSUME NEW k, Unambiguous(k, to)
      PROVE  Unambiguous(k, sh)
  BY <1>3, <1>4 DEF Unambiguous
<1>5. ASSUME f \in Present(sh), NEW k, Unambiguous(k, sh)
      PROVE  Unambiguous(k, to)
  <2>1. Present(to) = Present(sh)
    BY <1>3, <1>5
  <2> QED
    BY <1>5, <2>1 DEF Unambiguous
<1> QED
  BY <1>1, <1>3, <1>4, <1>5

\* A file written back to its path.
LEMMA WriteBackPlaces ==
    ASSUME NEW ns, Linked(ns), NEW sh \in [Key -> Hash \cup {None}], Placed(ns, sh),
           NEW i \in 1..Len(ns), ns[i].kind = "file", NEW h \in Hash,
           NEW f \in Key, f.comps = Paths(ns)[i],
           NEW ms, ms = [ns EXCEPT ![i].hash = h], NEW to, to = [sh EXCEPT ![f] = h]
    PROVE  Placed(ms, to)
<1>1. Len(ns) \in Nat /\ h # None
  BY TreeAssumption DEF Linked
<1>2. /\ Len(ms) = Len(ns) /\ ms[i].hash = h
      /\ \A j \in 1..Len(ns) : j # i => ms[j] = ns[j]
      /\ \A j \in 1..Len(ns) : ms[j].kind = ns[j].kind /\ Paths(ms)[j] = Paths(ns)[j]
  <2>1. Len(ms) = Len(ns) /\ ms[i].hash = h
    BY HashShape
  <2>2. \A j \in 1..Len(ns) : j # i => ms[j] = ns[j]
    BY HashShape
  <2>3. \A j \in 1..Len(ns) : ms[j].kind = ns[j].kind
    BY HashShape
  <2>4. \A j \in 1..Len(ns) : Paths(ms)[j] = Paths(ns)[j]
    <3>1. Linked(ms)
      BY HashShape
    <3>2. \A j \in 1..Len(ns) : ms[j].parent = ns[j].parent /\ ms[j].name = ns[j].name
      BY HashShape
    <3>3. Len(ns) <= Len(ms)
      BY <1>1, <2>1
    <3> QED
      BY <3>1, <3>2, <3>3, PathsSame, ZenonT(30)
  <2> QED
    BY <2>1, <2>2, <2>3, <2>4
<1>3. /\ to[f] = h /\ \A k \in Key : k # f => to[k] = sh[k]
      /\ Present(to) = Present(sh) \cup {f}
      /\ \A k : Unambiguous(k, to) => Unambiguous(k, sh)
  BY EntrySet
<1>4. UniqueDirs(ns) /\ Origins(ns, sh) /\ NewAlone(ns) /\ Homes(ns, sh)
  BY DEF Placed
<1>5. UniqueDirs(ms)
  BY <1>2, <1>4 DEF UniqueDirs
<1>6. Origins(ms, to)
  <2>1. ASSUME NEW j \in 2..Len(ms), ms[j].kind = "dir"
        PROVE  \E k \in Present(to) : Above(Paths(ms)[j], k.comps)
    <3>1. j \in 2..Len(ns) /\ j \in 1..Len(ns)
      BY <1>1, <1>2
    <3>2. PICK k \in Present(sh) : Above(Paths(ns)[j], k.comps)
      BY <1>2, <1>4, <2>1, <3>1 DEF Origins
    <3> QED
      BY <1>2, <1>3, <3>1, <3>2
  <2>2. ASSUME NEW j \in 1..Len(ms), ms[j].kind = "file", ms[j].hash # None
        PROVE  \E k \in Present(to) : Paths(ms)[j] = k.comps
    <3>1. CASE j = i
      BY <1>2, <1>3, <3>1
    <3>2. CASE j # i
      <4>1. j \in 1..Len(ns) /\ ns[j].kind = "file" /\ ns[j].hash # None
        BY <1>2, <2>2, <3>2
      <4>2. PICK k \in Present(sh) : Paths(ns)[j] = k.comps
        BY <1>4, <4>1 DEF Origins
      <4> QED
        BY <1>2, <1>3, <4>1, <4>2
    <3> QED
      BY <3>1, <3>2
  <2> QED
    BY <2>1, <2>2 DEF Origins
<1>7. NewAlone(ms)
  <2>1. ASSUME NEW j \in 1..Len(ms), NEW l \in 1..Len(ms), ms[j].kind = "file", ms[j].hash = None,
               Paths(ms)[j] = Paths(ms)[l]
        PROVE  j = l
    <3>1. j # i /\ j \in 1..Len(ns) /\ l \in 1..Len(ns)
      BY <1>1, <1>2, <2>1
    <3>2. ns[j].kind = "file" /\ ns[j].hash = None /\ Paths(ns)[j] = Paths(ns)[l]
      BY <1>2, <2>1, <3>1
    <3> QED
      BY <1>4, <3>1, <3>2 DEF NewAlone
  <2> QED
    BY <2>1 DEF NewAlone
<1>8. ASSUME NEW k \in Present(to), Unambiguous(k, to)
      PROVE  \E j \in 1..Len(ms) : HomeOf(ms, to, k, j)
  <2>1. k \in Key /\ k.comps \in Seq(Names) /\ Unambiguous(k, sh)
    BY <1>3, <1>8, KeyComps DEF Present
  <2>2. IsPrefix(k.comps, k.comps)
    BY <2>1, Beginnings
  <2>3. CASE k \in Present(sh)
    <3>1. PICK j \in 1..Len(ns) : HomeOf(ns, sh, k, j)
      BY <1>4, <2>1, <2>3 DEF Homes
    <3>2. /\ ns[j].kind = "file" /\ Paths(ns)[j] = k.comps /\ ns[j].hash = sh[k]
          /\ \A l \in 1..Len(ns) : Paths(ns)[l] = k.comps => l = j
      BY <3>1 DEF HomeOf
    <3>3. ms[j].kind = "file" /\ Paths(ms)[j] = k.comps /\ \A l \in 1..Len(ms) : Paths(ms)[l] = k.comps => l = j
      BY <1>2, <3>2
    <3>4. ms[j].hash = to[k]
      <4>1. CASE k = f
        <5>1. j = i
          BY <3>2, <4>1
        <5> QED
          BY <1>2, <1>3, <4>1, <5>1
      <4>2. CASE k # f
        <5>1. j # i
          <6>1. ASSUME j = i
                PROVE  FALSE
            <7>1. f.comps = k.comps /\ f \in Present(to) /\ k.comps # <<>>
              BY <1>3, <1>8, <3>2, <6>1 DEF Unambiguous
            <7> QED
              BY <1>8, <2>2, <4>2, <7>1 DEF Unambiguous
          <6> QED
            BY <6>1
        <5> QED
          BY <1>2, <1>3, <2>1, <3>2, <4>2, <5>1
      <4> QED
        BY <4>1, <4>2
    <3>5. j \in 1..Len(ms) /\ HomeOf(ms, to, k, j)
      BY <1>2, <3>3, <3>4 DEF HomeOf
    <3> QED
      BY <3>5
  <2>4. CASE k \notin Present(sh)
    <3>1. k = f
      BY <1>3, <2>4
    <3>2. ns[i].hash = None
      <4>1. ASSUME ns[i].hash # None
            PROVE  FALSE
        <5>1. PICK l \in Present(sh) : l.comps = k.comps
          BY <1>4, <3>1, <4>1 DEF Origins
        <5>2. l # k /\ l \in Present(to) /\ k.comps # <<>>
          BY <1>3, <1>8, <2>4, <5>1 DEF Unambiguous
        <5> QED
          BY <1>8, <2>2, <5>1, <5>2 DEF Unambiguous
      <4> QED
        BY <4>1
    <3>3. \A l \in 1..Len(ns) : Paths(ns)[l] = k.comps => l = i
      BY <1>4, <3>1, <3>2 DEF NewAlone
    <3>4. i \in 1..Len(ms) /\ HomeOf(ms, to, k, i)
      BY <1>2, <1>3, <3>1, <3>3 DEF HomeOf
    <3> QED
      BY <3>4
  <2> QED
    BY <2>3, <2>4
<1>9. Homes(ms, to)
  BY <1>8 DEF Homes
<1> QED
  BY <1>5, <1>6, <1>7, <1>9 DEF Placed

\* A file written back to its absolute path competes with no entry.
LEMMA WriteBackPlain ==
    ASSUME NEW ns, Linked(ns), NEW sh \in [Key -> Hash \cup {None}], Placed(ns, sh),
           NEW i \in 1..Len(ns), ns[i].kind = "file", NEW h \in Hash,
           NEW f \in Key, f.abs = TRUE, f.comps = Paths(ns)[i], Plain(sh),
           NEW to, to = [sh EXCEPT ![f] = h]
    PROVE  Plain(to)
<1>1. /\ Present(to) = Present(sh) \cup {f}
      /\ f \in Present(sh) => \A k : Unambiguous(k, sh) => Unambiguous(k, to)
  BY EntrySet
<1>2. \A k \in Present(sh) : k.abs /\ Unambiguous(k, sh)
  BY DEF Plain
<1>3. CASE f \in Present(sh)
  BY <1>1, <1>2, <1>3 DEF Plain
<1>4. CASE f \notin Present(sh)
  <2>1. f.comps \in Seq(Names) /\ f = [abs |-> f.abs, comps |-> f.comps]
    BY KeyComps
  <2>2. f.comps # <<>>
    <3>1. Paths(ns)[i] = <<>> <=> i = 1
      BY RootPath
    <3>2. ns[1].kind = "dir"
      <4>1. Len(ns) > 0
        BY DEF Linked
      <4> QED
        BY <4>1 DEF Linked
    <3> QED
      BY <3>1, <3>2
  <2>3. ASSUME NEW j \in Present(sh)
        PROVE  ~IsPrefix(j.comps, f.comps) /\ ~IsPrefix(f.comps, j.comps)
    <3>1. j \in Key /\ j.comps \in Seq(Names) /\ j = [abs |-> j.abs, comps |-> j.comps] /\ j.abs = TRUE
      <4>1. j \in Key /\ j.abs \in BOOLEAN
        <5>1. j \in [abs : BOOLEAN, comps : Seq(Names)]
          BY TreeAssumption DEF Present
        <5> QED
          BY <5>1 DEF Present
      <4>2. j.abs
        BY <1>2
      <4> QED
        BY <4>1, <4>2, KeyComps
    <3>2. j.comps # f.comps
      BY <1>4, <2>1, <3>1
    <3>3. Unambiguous(j, sh)
      BY <1>2
    <3>4. PICK q \in 1..Len(ns) : HomeOf(ns, sh, j, q)
      BY <3>3 DEF Placed, Homes
    <3>5. ASSUME Above(f.comps, j.comps)
          PROVE  FALSE
      <4>1. ns[i].kind = "dir"
        BY <3>3, <3>4, <3>5, AboveHome
      <4> QED
        BY <4>1
    <3>6. ASSUME Above(j.comps, f.comps)
          PROVE  FALSE
      <4>1. Len(j.comps) < Len(Paths(ns)[i]) /\ j.comps = SubSeq(Paths(ns)[i], 1, Len(j.comps)) /\ Len(j.comps) \in Nat
        BY <3>1, <3>6, LenProperties DEF Above
      <4>2. PICK a \in 1..Len(ns) : ns[a].kind = "dir" /\ Paths(ns)[a] = SubSeq(Paths(ns)[i], 1, Len(j.comps))
        BY <4>1, Ancestors
      <4>3. a = q /\ ns[q].kind = "file"
        BY <3>4, <4>1, <4>2 DEF HomeOf
      <4> QED
        BY <4>2, <4>3
    <3>7. IsPrefix(j.comps, f.comps) => Above(j.comps, f.comps)
      BY <2>1, <3>1, <3>2, Beginnings
    <3>8. IsPrefix(f.comps, j.comps) => Above(f.comps, j.comps)
      BY <2>1, <3>1, <3>2, Beginnings
    <3> QED
      BY <3>5, <3>6, <3>7, <3>8
  <2>4. ASSUME NEW k \in Present(to)
        PROVE  k.abs /\ Unambiguous(k, to)
    <3>1. CASE k = f
      <4>1. \A j \in Present(to) \ {k} : ~IsPrefix(j.comps, k.comps) /\ ~IsPrefix(k.comps, j.comps)
        BY <1>1, <2>3, <3>1
      <4> QED
        BY <2>2, <3>1, <4>1 DEF Unambiguous
    <3>2. CASE k # f
      <4>1. k \in Present(sh) /\ k.abs /\ Unambiguous(k, sh)
        BY <1>1, <1>2, <3>2
      <4>2. \A j \in Present(to) \ {k} : j = f \/ j \in Present(sh) \ {k}
        BY <1>1
      <4> QED
        BY <2>3, <4>1, <4>2 DEF Unambiguous
    <3> QED
      BY <3>1, <3>2
  <2> QED
    BY <2>4 DEF Plain
<1> QED
  BY <1>3, <1>4

-----------------------------------------------------------------------------
(* readdir *)

Entry == {".", "..", "child"} \X Nat

\* What readdir enumerates, of the nodes ns.
ListingOf(ns, d) ==
    <<<<".", d>>, <<"..", ns[d].parent>>>>
        \o [k \in 1..Len(ns[d].children) |-> <<"child", ns[d].children[k]>>]

\* The entries L name the children c in their order, after the two dots.
NamesChildren(L, c) == \A k \in 1..Len(c) : L[k + 2] = <<"child", c[k]>>

\* The entries of a directory, no two of them equal.
LEMMA ListingShape ==
    ASSUME NEW ns, Linked(ns), NEW d \in 1..Len(ns), NEW L, L = ListingOf(ns, d),
           NEW c, c = ns[d].children
    PROVE  /\ L \in Seq(Entry) /\ Len(L) = Len(c) + 2
           /\ c \in Seq(Nat) /\ Len(c) \in Nat /\ DOMAIN c = 1..Len(c)
           /\ NamesChildren(L, c)
           /\ L[1] = <<".", d>> /\ L[2] = <<"..", ns[d].parent>>
           /\ \A a, b \in 1..Len(L) : L[a] = L[b] => a = b
<1>1. ns[d] \in Node
  BY ElementOfSeq DEF Linked
<1>2. c \in Seq(Nat)
  BY <1>1 DEF Node
<1>3. PICK p \in Nat : p = ns[d].parent
  BY <1>1 DEF Node
<1>4. Len(c) \in Nat /\ DOMAIN c = 1..Len(c) /\ d \in Nat /\ \A k \in 1..Len(c) : c[k] \in Nat
  BY <1>2, LenProperties, ElementOfSeq
<1>5. PICK u : u = <<<<".", d>>, <<"..", p>>>>
  OBVIOUS
<1>6. u \in Seq(Entry) /\ Len(u) = 2 /\ u[1] = <<".", d>> /\ u[2] = <<"..", p>>
  <2>1. <<".", d>> \in Entry /\ <<"..", p>> \in Entry
    BY <1>4 DEF Entry
  <2> QED
    BY <1>5, <2>1
<1>7. PICK v : v = [k \in 1..Len(c) |-> <<"child", c[k]>>]
  OBVIOUS
<1>8. v \in Seq(Entry) /\ Len(v) = Len(c) /\ \A k \in 1..Len(c) : v[k] = <<"child", c[k]>>
  <2>1. \A k \in 1..Len(c) : <<"child", c[k]>> \in Entry
    BY <1>4 DEF Entry
  <2>2. v \in [1..Len(c) -> Entry]
    BY <1>7, <2>1
  <2>3. v \in Seq(Entry)
    BY <1>4, <2>2, SeqDef
  <2>4. Len(v) = Len(c)
    BY <1>4, <2>2, <2>3, LenProperties
  <2> QED
    BY <1>7, <2>3, <2>4
<1>9. L = u \o v
  BY <1>3, <1>5, <1>7 DEF ListingOf
<1>10. /\ L \in Seq(Entry) /\ Len(L) = Len(u) + Len(v)
       /\ \A i \in 1..(Len(u) + Len(v)) : L[i] = IF i <= Len(u) THEN u[i] ELSE v[i - Len(u)]
  <2>1. u \in Seq(Entry) /\ v \in Seq(Entry)
    BY <1>6, <1>8
  <2>2. /\ u \o v \in Seq(Entry) /\ Len(u \o v) = Len(u) + Len(v)
        /\ \A i \in 1..(Len(u) + Len(v)) : (u \o v)[i] = IF i <= Len(u) THEN u[i] ELSE v[i - Len(u)]
    BY <2>1, ConcatProperties
  <2> HIDE DEF Entry
  <2> QED
    BY <1>9, <2>2, Zenon
<1>11. Len(L) = Len(c) + 2
  BY <1>4, <1>6, <1>8, <1>10
<1>12. L[1] = <<".", d>> /\ L[2] = <<"..", p>>
  BY <1>4, <1>6, <1>8, <1>10
<1>13. NamesChildren(L, c)
  <2>1. ASSUME NEW k \in 1..Len(c)
        PROVE  L[k + 2] = <<"child", c[k]>>
    <3>1. k + 2 \in 1..(Len(u) + Len(v)) /\ ~(k + 2 <= Len(u)) /\ (k + 2) - Len(u) = k
      BY <1>4, <1>6, <1>8
    <3> QED
      BY <1>8, <1>10, <3>1
  <2> QED
    BY <2>1 DEF NamesChildren
<1>14. \A a \in 1..Len(L) : a = 1 \/ a = 2 \/ \E k \in 1..Len(c) : a = k + 2
  <2>1. ASSUME NEW a \in 1..Len(L), a # 1, a # 2
        PROVE  a - 2 \in 1..Len(c) /\ a = (a - 2) + 2
    BY <1>4, <1>11, <2>1
  <2> QED
    BY <2>1
<1>15. \A k, l \in 1..Len(c) : c[k] = c[l] => k = l
  BY DEF Linked
<1>16. \A a \in 1..Len(L) :
          \/ a = 1 /\ L[a] = <<".", d>>
          \/ a = 2 /\ L[a] = <<"..", p>>
          \/ \E k \in 1..Len(c) : a = k + 2 /\ L[a] = <<"child", c[k]>>
  <2>1. ASSUME NEW a \in 1..Len(L)
        PROVE  \/ a = 1 /\ L[a] = <<".", d>>
               \/ a = 2 /\ L[a] = <<"..", p>>
               \/ \E k \in 1..Len(c) : a = k + 2 /\ L[a] = <<"child", c[k]>>
    <3>1. CASE a = 1
      BY <1>12, <3>1
    <3>2. CASE a = 2
      BY <1>12, <3>2
    <3>3. ASSUME NEW k \in 1..Len(c), a = k + 2
          PROVE  L[a] = <<"child", c[k]>>
      BY <1>13, <3>3 DEF NamesChildren
    <3> QED
      BY <1>14, <3>1, <3>2, <3>3
  <2> QED
    BY <2>1
<1>17. ASSUME NEW a \in 1..Len(L), NEW b \in 1..Len(L), L[a] = L[b]
       PROVE  a = b
  <2>1. CASE a = 1 /\ L[a] = <<".", d>>
    BY <1>16, <1>17, <2>1
  <2>2. CASE a = 2 /\ L[a] = <<"..", p>>
    BY <1>16, <1>17, <2>2
  <2>3. ASSUME NEW k \in 1..Len(c), a = k + 2, L[a] = <<"child", c[k]>>
        PROVE  a = b
    <3>1. L[b] # <<".", d>> /\ L[b] # <<"..", p>>
      BY <1>17, <2>3
    <3>2. PICK l \in 1..Len(c) : b = l + 2 /\ L[b] = <<"child", c[l]>>
      BY <1>16, <3>1
    <3>3. c[k] = c[l]
      BY <1>17, <2>3, <3>2
    <3> QED
      BY <1>15, <2>3, <3>2, <3>3
  <2> QED
    BY <1>16, <2>1, <2>2, <2>3
<1>18. \A a, b \in 1..Len(L) : L[a] = L[b] => a = b
  BY <1>17
<1> QED
  BY <1>2, <1>3, <1>4, <1>10, <1>11, <1>12, <1>13, <1>18

\* A directory stream has listed the first `offset' entries; the children at its
\* opening are still there.
StreamOK(ns, st) ==
    st # None =>
        /\ st \in [dir : Nat, offset : Nat, seen : Seq(Entry), had : SUBSET Nat]
        /\ st.dir \in 1..Len(ns) /\ ns[st.dir].kind = "dir"
        /\ st.offset <= Len(ListingOf(ns, st.dir)) /\ Len(st.seen) = st.offset
        /\ \A k \in 1..st.offset : st.seen[k] = ListingOf(ns, st.dir)[k]
        /\ st.had \subseteq Range(ns[st.dir].children)

\* A directory's entries stay, each at its place, when nodes are added to it.
LEMMA StreamStays ==
    ASSUME NEW ns, Linked(ns), NEW ms, Linked(ms), Len(ns) <= Len(ms),
           \A d \in 1..Len(ns) : /\ ms[d].kind = ns[d].kind /\ ms[d].parent = ns[d].parent
                                /\ Len(ns[d].children) <= Len(ms[d].children)
                                /\ \A k \in 1..Len(ns[d].children) : ms[d].children[k] = ns[d].children[k],
           NEW st, StreamOK(ns, st)
    PROVE  StreamOK(ms, st)
<1> SUFFICES ASSUME st # None
             PROVE  StreamOK(ms, st)
  BY DEF StreamOK
<1>1. PICK d : d = st.dir
  OBVIOUS
<1>2. Len(ns) \in Nat /\ Len(ms) \in Nat
  BY DEF Linked
<1>3. d \in 1..Len(ns) /\ d \in 1..Len(ms) /\ ms[d].kind = "dir" /\ ms[d].parent = ns[d].parent
  BY <1>1, <1>2 DEF StreamOK
<1>4. PICK c : c = ns[d].children
  OBVIOUS
<1>5. PICK e : e = ms[d].children
  OBVIOUS
<1>6. PICK L : L = ListingOf(ns, d)
  OBVIOUS
<1>7. PICK M : M = ListingOf(ms, d)
  OBVIOUS
<1>8. /\ Len(L) = Len(c) + 2 /\ Len(c) \in Nat
      /\ \A k \in 1..Len(c) : L[k + 2] = <<"child", c[k]>>
      /\ L[1] = <<".", d>> /\ L[2] = <<"..", ns[d].parent>>
  <2>1. d \in 1..Len(ns)
    BY <1>3
  <2>2. Len(L) = Len(c) + 2 /\ Len(c) \in Nat
    BY <1>4, <1>6, <2>1, ListingShape
  <2>3. NamesChildren(L, c)
    BY <1>4, <1>6, <2>1, ListingShape
  <2>4. L[1] = <<".", d>> /\ L[2] = <<"..", ns[d].parent>>
    BY <1>4, <1>6, <2>1, ListingShape
  <2> QED
    BY <2>2, <2>3, <2>4 DEF NamesChildren
<1>9. /\ Len(M) = Len(e) + 2 /\ Len(e) \in Nat
      /\ \A k \in 1..Len(e) : M[k + 2] = <<"child", e[k]>>
      /\ M[1] = <<".", d>> /\ M[2] = <<"..", ns[d].parent>>
  <2>1. d \in 1..Len(ms)
    BY <1>3
  <2>2. Len(M) = Len(e) + 2 /\ Len(e) \in Nat
    BY <1>5, <1>7, <2>1, ListingShape
  <2>3. NamesChildren(M, e)
    BY <1>5, <1>7, <2>1, ListingShape
  <2>4. M[1] = <<".", d>> /\ M[2] = <<"..", ms[d].parent>>
    BY <1>5, <1>7, <2>1, ListingShape
  <2> QED
    BY <1>3, <2>2, <2>3, <2>4 DEF NamesChildren
<1>10. Len(c) <= Len(e) /\ \A k \in 1..Len(c) : e[k] = c[k]
  BY <1>3, <1>4, <1>5
<1>11. ASSUME NEW a \in 1..Len(L)
       PROVE  M[a] = L[a]
  <2>1. CASE a = 1 \/ a = 2
    BY <1>8, <1>9, <2>1
  <2>2. CASE a # 1 /\ a # 2
    <3>1. a - 2 \in 1..Len(c) /\ a - 2 \in 1..Len(e) /\ (a - 2) + 2 = a
      BY <1>8, <1>9, <1>10, <2>2
    <3> QED
      BY <1>8, <1>9, <1>10, <3>1
  <2> QED
    BY <2>1, <2>2
<1>12. /\ st \in [dir : Nat, offset : Nat, seen : Seq(Entry), had : SUBSET Nat]
       /\ st.offset <= Len(L) /\ Len(st.seen) = st.offset
       /\ \A k \in 1..st.offset : st.seen[k] = L[k]
       /\ st.had \subseteq Range(c)
  BY <1>1, <1>4, <1>6 DEF StreamOK
<1>13. st.offset \in Nat
  BY <1>12
<1>14. st.offset <= Len(M) /\ \A k \in 1..st.offset : st.seen[k] = M[k]
  <2>1. st.offset <= Len(M)
    BY <1>8, <1>9, <1>10, <1>12, <1>13
  <2>2. \A k \in 1..st.offset : k \in 1..Len(L)
    BY <1>8, <1>12, <1>13
  <2> QED
    BY <1>11, <1>12, <2>1, <2>2
<1>15. st.had \subseteq Range(e)
  <2>1. DOMAIN c = 1..Len(c) /\ DOMAIN e = 1..Len(e)
    BY <1>3, <1>4, <1>5, <1>6, <1>7, ListingShape
  <2>2. \A k \in 1..Len(c) : k \in 1..Len(e)
    BY <1>8, <1>9, <1>10
  <2> QED
    BY <1>10, <1>12, <2>1, <2>2 DEF Range
<1> QED
  BY <1>1, <1>3, <1>5, <1>7, <1>12, <1>14, <1>15 DEF StreamOK

\* A new child comes at the end of its directory's entries.
LEMMA StreamAdds ==
    ASSUME NEW ns, Linked(ns), NEW d \in 1..Len(ns), NEW name \in Names,
           NEW kind \in {"dir", "file"}, NEW hash \in Hash \cup {None},
           NEW ms, ms = AddNode(ns, name, kind, d, hash), Linked(ms),
           NEW st, StreamOK(ns, st)
    PROVE  StreamOK(ms, st)
<1>1. ns \in Seq(Node) /\ Len(ns) \in Nat
  BY DEF Linked
<1>2. PICK n : n = Len(ns) + 1
  OBVIOUS
<1>3. /\ Len(ms) = n
      /\ \A i \in 1..Len(ns) : ms[i].kind = ns[i].kind /\ ms[i].parent = ns[i].parent
      /\ \A i \in 1..Len(ns) : i # d => ms[i] = ns[i]
      /\ ms[d].children = Append(ns[d].children, n)
      /\ ms[n] = [name |-> name, kind |-> kind, parent |-> d, children |-> <<>>, hash |-> hash]
  BY <1>1, <1>2, AddNodeShape
<1>4. ASSUME NEW i \in 1..Len(ns)
      PROVE  /\ Len(ns[i].children) <= Len(ms[i].children)
             /\ \A k \in 1..Len(ns[i].children) : ms[i].children[k] = ns[i].children[k]
  <2>1. PICK c \in Seq(Nat) : c = ns[i].children
    <3>1. ns[i] \in Node
      BY <1>1, ElementOfSeq
    <3> QED
      BY <3>1 DEF Node
  <2>2. Len(c) \in Nat /\ n \in Nat
    BY <1>1, <1>2, LenProperties
  <2>3. CASE i = d
    <3>1. Len(Append(c, n)) = Len(c) + 1 /\ \A k \in 1..Len(c) : Append(c, n)[k] = c[k]
      BY <2>2, AppendProperties
    <3>2. ms[i].children = Append(c, n)
      BY <1>3, <2>1, <2>3
    <3> QED
      BY <2>1, <2>2, <3>1, <3>2
  <2>4. CASE i # d
    <3>1. ms[i].children = c
      BY <1>3, <2>1, <2>4
    <3> QED
      BY <2>1, <2>2, <3>1
  <2> QED
    BY <2>3, <2>4
<1>5. Len(ns) <= Len(ms)
  BY <1>1, <1>2, <1>3
<1>6. \A i \in 1..Len(ns) : /\ ms[i].kind = ns[i].kind /\ ms[i].parent = ns[i].parent
                            /\ Len(ns[i].children) <= Len(ms[i].children)
                            /\ \A k \in 1..Len(ns[i].children) : ms[i].children[k] = ns[i].children[k]
  BY <1>3, <1>4
<1> QED
  BY <1>5, <1>6, StreamStays

\* One request.
LEMMA StreamReads ==
    ASSUME NEW ns, Linked(ns), NEW st, st # None, StreamOK(ns, st), NEW n \in Nat,
           st.offset + n <= Len(ListingOf(ns, st.dir)),
           NEW to, to = [st EXCEPT !.offset = @ + n,
                                   !.seen = @ \o SubSeq(ListingOf(ns, st.dir), st.offset + 1, st.offset + n)]
    PROVE  StreamOK(ns, to)
<1>1. /\ st \in [dir : Nat, offset : Nat, seen : Seq(Entry), had : SUBSET Nat]
      /\ st.dir \in 1..Len(ns) /\ ns[st.dir].kind = "dir"
      /\ st.offset <= Len(ListingOf(ns, st.dir)) /\ Len(st.seen) = st.offset
      /\ \A k \in 1..st.offset : st.seen[k] = ListingOf(ns, st.dir)[k]
      /\ st.had \subseteq Range(ns[st.dir].children)
  BY DEF StreamOK
<1>2. PICK L : L = ListingOf(ns, st.dir)
  OBVIOUS
<1>3. PICK o \in Nat : o = st.offset
  BY <1>1
<1>4. PICK s \in Seq(Entry) : s = st.seen
  BY <1>1
<1>5. L \in Seq(Entry) /\ Len(L) \in Nat
  <2>1. PICK d \in 1..Len(ns) : d = st.dir
    BY <1>1
  <2>2. PICK c : c = ns[d].children
    OBVIOUS
  <2>3. L = ListingOf(ns, d)
    BY <1>2, <2>1
  <2>4. L \in Seq(Entry)
    BY <2>2, <2>3, ListingShape
  <2> QED
    BY <2>4, LenProperties
<1>6. o + n <= Len(L) /\ Len(s) = o /\ \A k \in 1..o : s[k] = L[k]
  BY <1>1, <1>2, <1>3, <1>4
<1>7. PICK r : r = SubSeq(L, o + 1, o + n)
  OBVIOUS
<1>8. r \in Seq(Entry) /\ Len(r) = n /\ \A i \in 1..n : r[i] = L[o + i]
  <2>1. \A i \in (o + 1)..(o + n) : L[i] \in Entry
    <3>1. \A i \in (o + 1)..(o + n) : i \in 1..Len(L)
      BY <1>5, <1>6
    <3> QED
      BY <1>5, <3>1, ElementOfSeq
  <2>2. PICK a \in Int : a = o + 1
    OBVIOUS
  <2>3. PICK b \in Int : b = o + n
    OBVIOUS
  <2>4. \A i \in a..b : L[i] \in Entry
    BY <2>1, <2>2, <2>3
  <2>5. /\ SubSeq(L, a, b) \in Seq(Entry)
        /\ Len(SubSeq(L, a, b)) = IF a <= b THEN b - a + 1 ELSE 0
        /\ \A i \in 1..(b - a + 1) : SubSeq(L, a, b)[i] = L[a + i - 1]
    BY <2>4, SubSeqProperties
  <2>6. r = SubSeq(L, a, b)
    BY <1>7, <2>2, <2>3
  <2>7. b - a + 1 = n /\ (IF a <= b THEN b - a + 1 ELSE 0) = n
    BY <2>2, <2>3
  <2>8. \A i \in 1..n : a + i - 1 = o + i
    BY <2>2
  <2>9. \A i \in 1..n : r[i] = L[a + i - 1]
    BY <2>5, <2>6, <2>7
  <2>10. r \in Seq(Entry) /\ Len(r) = n
    BY <2>5, <2>6, <2>7
  <2> QED
    BY <2>8, <2>9, <2>10
<1>9. PICK w : w = s \o r
  OBVIOUS
<1>10. /\ w \in Seq(Entry) /\ Len(w) = o + n
       /\ \A i \in 1..(o + n) : w[i] = L[i]
  <2>1. r \in Seq(Entry)
    BY <1>8
  <2>2. /\ s \o r \in Seq(Entry) /\ Len(s \o r) = Len(s) + Len(r)
        /\ \A i \in 1..(Len(s) + Len(r)) : (s \o r)[i] = IF i <= Len(s) THEN s[i] ELSE r[i - Len(s)]
    BY <2>1, ConcatProperties
  <2>3. Len(s) = o /\ Len(r) = n
    BY <1>6, <1>8
  <2>4. \A i \in 1..(o + n) : w[i] = IF i <= o THEN s[i] ELSE r[i - o]
    BY <1>9, <2>2, <2>3
  <2>5. ASSUME NEW i \in 1..(o + n)
        PROVE  w[i] = L[i]
    <3>1. CASE i <= o
      <4>1. i \in 1..o
        BY <3>1
      <4> QED
        BY <1>6, <2>4, <3>1, <4>1
    <3>2. CASE ~(i <= o)
      <4>1. i - o \in 1..n /\ o + (i - o) = i
        BY <3>2
      <4> QED
        BY <1>8, <2>4, <3>2, <4>1
    <3> QED
      BY <3>1, <3>2
  <2>6. w \in Seq(Entry) /\ Len(w) = o + n
    BY <1>9, <2>2, <2>3
  <2> QED
    BY <2>5, <2>6
<1>11. to = [st EXCEPT !.offset = o + n, !.seen = w]
  BY <1>2, <1>3, <1>4, <1>7, <1>9
<1>12. /\ to \in [dir : Nat, offset : Nat, seen : Seq(Entry), had : SUBSET Nat]
       /\ to.dir = st.dir /\ to.offset = o + n /\ to.seen = w /\ to.had = st.had
  <2>1. o + n \in Nat
    OBVIOUS
  <2>2. w \in Seq(Entry)
    BY <1>10
  <2> QED
    BY <1>1, <1>11, <2>1, <2>2
<1> QED
  BY <1>1, <1>2, <1>6, <1>10, <1>12 DEF StreamOK

-----------------------------------------------------------------------------
(* The invariant *)

\* The inductive invariant.
TreeInv ==
    /\ catalog \in [Key -> Hash \cup {None}]
    /\ shown \in [Key -> Hash \cup {None}]
    /\ Linked(nodes)
    /\ Placed(nodes, shown)
    /\ StreamOK(nodes, stream)

\* Nothing is mounted.
LEMMA NothingMounted ==
    ASSUME NEW sh, sh = [k \in Key |-> None]
    PROVE  Linked(<<>>) /\ Placed(<<>>, sh)
<1>1. PICK ns : ns = <<>>
  OBVIOUS
<1>2. ns \in Seq(Node) /\ Len(ns) = 0
  BY <1>1, EmptySeq
<1>3. 1..Len(ns) = {} /\ 2..Len(ns) = {}
  BY <1>2
<1>4. Linked(ns)
  BY <1>2, <1>3 DEF Linked
<1>5. Present(sh) = {}
  BY DEF Present
<1>6. UniqueDirs(ns) /\ Origins(ns, sh) /\ NewAlone(ns) /\ Homes(ns, sh)
  BY <1>3, <1>5 DEF UniqueDirs, Origins, NewAlone, Homes
<1> QED
  BY <1>1, <1>4, <1>6 DEF Placed

\* Before the first mount.
LEMMA TreeInitially == Init => TreeInv
<1> SUFFICES ASSUME Init
             PROVE  TreeInv
  OBVIOUS
<1>1. /\ catalog \in [Key -> Hash \cup {None}] /\ nodes = <<>> /\ stream = None
      /\ shown = [k \in Key |-> None]
  BY DEF Init
<1>2. shown \in [Key -> Hash \cup {None}]
  BY <1>1
<1>3. Linked(nodes) /\ Placed(nodes, shown)
  BY <1>1, NothingMounted
<1>4. StreamOK(nodes, stream)
  BY <1>1 DEF StreamOK
<1> QED
  BY <1>1, <1>2, <1>3, <1>4 DEF TreeInv

\* connect builds a tree that serves the catalog.
LEMMA ConnectKeeps == TreeInv /\ Connect => TreeInv'
<1> SUFFICES ASSUME TreeInv, Connect
             PROVE  TreeInv'
  OBVIOUS
<1>1. catalog \in [Key -> Hash \cup {None}] /\ StreamOK(nodes, stream)
  BY DEF TreeInv
<1>2. PICK e \in SetToSeqs(Present(catalog)) :
        nodes' = FoldLeft(AddEntry,
                          [nodes |-> <<RootNode>>, dir_ino |-> <<>>, parent |-> Root, accum |-> <<>>],
                          e).nodes
  BY DEF Connect
<1>3. PICK ns : ns = nodes'
  OBVIOUS
<1>4. Linked(ns) /\ Placed(ns, catalog)
  BY <1>1, <1>2, <1>3, ConnectPlaces
<1>5. shown' = catalog /\ catalog' = catalog /\ stream' = stream /\ nodes = <<>>
  BY DEF Connect, Mounted
<1>6. stream = None
  <2>1. 1..Len(nodes) = {}
    BY <1>5
  <2> QED
    BY <1>1, <2>1 DEF StreamOK
<1>7. StreamOK(ns, stream')
  BY <1>5, <1>6 DEF StreamOK
<1> QED
  BY <1>1, <1>3, <1>4, <1>5, <1>7 DEF TreeInv

\* An unmount leaves nothing behind.
LEMMA UnmountKeeps == TreeInv /\ Unmount => TreeInv'
<1> SUFFICES ASSUME TreeInv, Unmount
             PROVE  TreeInv'
  OBVIOUS
<1>1. /\ catalog \in [Key -> Hash \cup {None}] /\ catalog' = catalog
      /\ nodes' = <<>> /\ stream' = None /\ shown' = [k \in Key |-> None]
  BY DEF TreeInv, Unmount
<1>2. Linked(nodes') /\ Placed(nodes', shown')
  BY <1>1, NothingMounted
<1>3. StreamOK(nodes', stream')
  BY <1>1 DEF StreamOK
<1>4. shown' \in [Key -> Hash \cup {None}]
  BY <1>1
<1> QED
  BY <1>1, <1>2, <1>3, <1>4 DEF TreeInv

\* create adds a file at a path that nothing else has.
LEMMA CreateKeeps ==
    ASSUME NEW d \in 1..Len(nodes), NEW name \in Names, TreeInv, Create(d, name)
    PROVE  TreeInv'
<1>1. PICK ns : ns = nodes
  OBVIOUS
<1>2. PICK ms : ms = nodes'
  OBVIOUS
<1>3. /\ Linked(ns) /\ Placed(ns, shown) /\ StreamOK(ns, stream) /\ d \in 1..Len(ns)
      /\ catalog' = catalog /\ stream' = stream /\ shown' = shown
  BY <1>1 DEF TreeInv, Create
<1>4. ns[d].kind = "dir" /\ ms = AddNode(ns, name, "file", d, None)
  BY <1>1, <1>2 DEF Create, Dirs
<1>5. \A c \in 2..Len(ns) : ns[c].parent = d => ns[c].name # name
  <2>1. Lookup(d, name) = None
    BY DEF Create
  <2>2. Linked(nodes)
    BY DEF TreeInv
  <2>3. Len(nodes) \in Nat
    BY <2>2 DEF Linked
  <2>4. Lookup(d, name) \notin 2..Len(nodes)
    BY <2>1, <2>3, TreeAssumption
  <2> QED
    BY <1>1, <2>2, <2>4, LookupFinds
<1>6. Placed(ms, shown)
  BY <1>3, <1>4, <1>5, CreatePlaces
<1>7. "file" \in {"dir", "file"} /\ None \in Hash \cup {None}
  OBVIOUS
<1>8. Linked(ms)
  BY <1>3, <1>4, <1>7, AddNodeLinked
<1>9. StreamOK(ms, stream)
  BY <1>3, <1>4, <1>7, <1>8, StreamAdds
<1>10. catalog \in [Key -> Hash \cup {None}] /\ shown \in [Key -> Hash \cup {None}]
  BY DEF TreeInv
<1> QED
  BY <1>2, <1>3, <1>6, <1>8, <1>9, <1>10 DEF TreeInv

\* flush_bytes makes the file the home of the entry it writes.
LEMMA WriteBackKeeps ==
    ASSUME NEW i \in 1..Len(nodes), NEW h \in Hash, TreeInv, WriteBack(i, h)
    PROVE  TreeInv' /\ (Plain(shown) => Plain(shown'))
<1>1. PICK ns : ns = nodes
  OBVIOUS
<1>2. PICK ms : ms = nodes'
  OBVIOUS
<1>3. PICK sh : sh = shown
  OBVIOUS
<1>4. PICK to : to = shown'
  OBVIOUS
<1>5. PICK f : f = FullPath(i)
  OBVIOUS
<1>6. /\ Linked(ns) /\ Placed(ns, sh) /\ StreamOK(ns, stream) /\ i \in 1..Len(ns)
      /\ sh \in [Key -> Hash \cup {None}] /\ catalog \in [Key -> Hash \cup {None}]
  BY <1>1, <1>3 DEF TreeInv
<1>7. /\ f \in Key /\ ns[i].kind = "file" /\ stream' = stream
      /\ catalog' = [catalog EXCEPT ![f] = h]
      /\ to = [sh EXCEPT ![f] = h]
      /\ ms = [ns EXCEPT ![i].hash = h]
  BY <1>1, <1>2, <1>3, <1>4, <1>5 DEF WriteBack, Files
<1>8. f.abs = TRUE /\ f.comps = Paths(ns)[i]
  BY <1>1, <1>5, FullPathIs
<1>9. Placed(ms, to)
  BY <1>6, <1>7, <1>8, WriteBackPlaces
<1>10. Plain(sh) => Plain(to)
  BY <1>6, <1>7, <1>8, WriteBackPlain
<1>11. Linked(ns) /\ i \in 1..Len(ns) /\ ms = [ns EXCEPT ![i].hash = h]
  BY <1>6, <1>7
<1>12. Linked(ms) /\ Len(ms) = Len(ns)
  <2>1. Linked(ms)
    BY <1>11, HashShape
  <2>2. Len(ms) = Len(ns)
    BY <1>11, HashShape
  <2> QED
    BY <2>1, <2>2
<1>13. \A d \in 1..Len(ns) : /\ ms[d].kind = ns[d].kind /\ ms[d].parent = ns[d].parent
                            /\ ms[d].children = ns[d].children
  BY <1>11, HashShape
<1>14. StreamOK(ms, stream)
  <2>1. Len(ns) \in Nat /\ Len(ns) <= Len(ms)
    BY <1>6, <1>12 DEF Linked
  <2>2. \A d \in 1..Len(ns) : Len(ns[d].children) \in Nat
    <3>1. \A d \in 1..Len(ns) : ns[d] \in Node
      BY <1>6, ElementOfSeq DEF Linked
    <3>2. \A d \in 1..Len(ns) : ns[d].children \in Seq(Nat)
      BY <3>1 DEF Node
    <3> QED
      BY <3>2, LenProperties
  <2>3. \A d \in 1..Len(ns) : /\ ms[d].kind = ns[d].kind /\ ms[d].parent = ns[d].parent
                             /\ Len(ns[d].children) <= Len(ms[d].children)
                             /\ \A k \in 1..Len(ns[d].children) : ms[d].children[k] = ns[d].children[k]
    BY <1>13, <2>2
  <2> QED
    BY <1>6, <1>12, <2>1, <2>3, StreamStays
<1>15. to \in [Key -> Hash \cup {None}] /\ catalog' \in [Key -> Hash \cup {None}]
  BY <1>6, <1>7
<1>16. TreeInv'
  BY <1>2, <1>4, <1>7, <1>9, <1>12, <1>14, <1>15 DEF TreeInv
<1> QED
  BY <1>3, <1>4, <1>10, <1>16

\* readdir's first request finds a stream that has listed nothing.
LEMMA OpenDirKeeps ==
    ASSUME NEW d \in 1..Len(nodes), TreeInv, OpenDir(d)
    PROVE  TreeInv'
<1>1. /\ Linked(nodes) /\ catalog' = catalog /\ nodes' = nodes /\ shown' = shown
      /\ nodes[d].kind = "dir"
      /\ stream' = [dir |-> d, offset |-> 0, seen |-> <<>>, had |-> Range(nodes[d].children)]
  BY DEF TreeInv, OpenDir, Dirs
<1>2. PICK c : c = nodes[d].children
  OBVIOUS
<1>3. PICK L : L = ListingOf(nodes, d)
  OBVIOUS
<1>4. c \in Seq(Nat) /\ Len(c) \in Nat /\ DOMAIN c = 1..Len(c)
  BY <1>1, <1>2, <1>3, ListingShape
<1>5. Len(L) = Len(c) + 2
  BY <1>1, <1>2, <1>3, ListingShape
<1>6. Range(c) \subseteq Nat
  BY <1>4, ElementOfSeq DEF Range
<1>7. PICK st : st = stream'
  OBVIOUS
<1>8. /\ st \in [dir : Nat, offset : Nat, seen : Seq(Entry), had : SUBSET Nat]
      /\ st.dir = d /\ st.offset = 0 /\ st.seen = <<>> /\ st.had = Range(c)
  <2>1. <<>> \in Seq(Entry) /\ d \in Nat
    BY EmptySeq
  <2> QED
    BY <1>1, <1>2, <1>6, <1>7, <2>1
<1>9. /\ st.offset <= Len(L) /\ Len(st.seen) = st.offset
      /\ \A k \in 1..st.offset : st.seen[k] = L[k]
  <2>1. 1..0 = {} /\ Len(<<>>) = 0
    OBVIOUS
  <2> QED
    BY <1>4, <1>5, <1>8, <2>1
<1>10. StreamOK(nodes, st)
  BY <1>1, <1>2, <1>3, <1>8, <1>9 DEF StreamOK
<1> QED
  BY <1>1, <1>7, <1>10 DEF TreeInv

\* A request goes on where the last one ended.
LEMMA ReadDirKeeps ==
    ASSUME NEW n \in Nat, TreeInv, ReadDir(n)
    PROVE  TreeInv'
<1>1. /\ Linked(nodes) /\ StreamOK(nodes, stream) /\ stream # None
      /\ catalog' = catalog /\ nodes' = nodes /\ shown' = shown
  BY DEF TreeInv, ReadDir
<1>2. Listing(stream.dir) = ListingOf(nodes, stream.dir)
  BY DEF Listing, ListingOf
<1>3. /\ stream.offset + n <= Len(ListingOf(nodes, stream.dir))
      /\ stream' = [stream EXCEPT !.offset = @ + n,
                       !.seen = @ \o SubSeq(ListingOf(nodes, stream.dir), stream.offset + 1, stream.offset + n)]
  BY <1>2 DEF ReadDir, Cookie
<1>4. PICK st : st = stream
  OBVIOUS
<1>5. PICK to : to = stream'
  OBVIOUS
<1>6. /\ st # None /\ StreamOK(nodes, st) /\ st.offset + n <= Len(ListingOf(nodes, st.dir))
      /\ to = [st EXCEPT !.offset = @ + n,
                       !.seen = @ \o SubSeq(ListingOf(nodes, st.dir), st.offset + 1, st.offset + n)]
  BY <1>1, <1>3, <1>4, <1>5
<1>7. StreamOK(nodes, to)
  BY <1>1, <1>6, StreamReads
<1> QED
  BY <1>1, <1>5, <1>7 DEF TreeInv

\* The tree stays a tree, every node keeps its origin, and the open stream has
\* listed a beginning of its directory.
THEOREM TreeInductive == Spec => []TreeInv
<1>1. Init => TreeInv
  BY TreeInitially
<1>2. TreeInv /\ [Next]_vars => TreeInv'
  <2> SUFFICES ASSUME TreeInv, [Next]_vars
               PROVE  TreeInv'
    OBVIOUS
  <2>1. CASE Connect
    BY <2>1, ConnectKeeps
  <2>2. CASE Unmount
    BY <2>2, UnmountKeeps
  <2>3. ASSUME NEW d \in 1..Len(nodes), NEW name \in Names, Create(d, name)
        PROVE  TreeInv'
    BY <2>3, CreateKeeps
  <2>4. ASSUME NEW i \in 1..Len(nodes), NEW h \in Hash, WriteBack(i, h)
        PROVE  TreeInv'
    BY <2>4, WriteBackKeeps
  <2>5. ASSUME NEW d \in 1..Len(nodes), OpenDir(d)
        PROVE  TreeInv'
    BY <2>5, OpenDirKeeps
  <2>6. ASSUME NEW n \in 1..(Len(nodes) + 1), ReadDir(n)
        PROVE  TreeInv'
    <3>1. Len(nodes) \in Nat
      BY DEF TreeInv, Linked
    <3>2. n \in Nat
      BY <3>1
    <3> QED
      BY <2>6, <3>2, ReadDirKeeps
  <2>7. CASE CloseDir
    BY <2>7 DEF TreeInv, CloseDir, StreamOK
  <2>8. ASSUME NEW k \in Key, NEW h \in Hash, AgentIngests(k, h)
        PROVE  TreeInv'
    <3>1. /\ nodes' = nodes /\ stream' = stream /\ shown' = shown
          /\ catalog' = [catalog EXCEPT ![k] = h] /\ catalog \in [Key -> Hash \cup {None}]
      BY <2>8 DEF AgentIngests, TreeInv
    <3>2. catalog' \in [Key -> Hash \cup {None}]
      BY <3>1
    <3> QED
      BY <3>1, <3>2 DEF TreeInv
  <2>9. CASE UNCHANGED vars
    BY <2>9 DEF TreeInv, vars
  <2> QED
    BY <2>1, <2>2, <2>3, <2>4, <2>5, <2>6, <2>7, <2>8, <2>9 DEF Next
<1> QED
  BY <1>1, <1>2, PTL DEF Spec

-----------------------------------------------------------------------------
(* What follows from it *)

\* Every variable keeps its type, and the nodes are a tree (connect, create).
THEOREM TreeTypeCorrect == Spec => []TreeTypeOK
<1>1. TreeInv => TreeTypeOK
  <2> SUFFICES ASSUME TreeInv
               PROVE  TreeTypeOK
    OBVIOUS
  <2>1. /\ catalog \in [Key -> Hash \cup {None}] /\ shown \in [Key -> Hash \cup {None}]
        /\ Linked(nodes) /\ StreamOK(nodes, stream)
    BY DEF TreeInv
  <2>2. nodes \in Seq(Node) /\ Len(nodes) \in Nat
    BY <2>1 DEF Linked
  <2>3. ASSUME NEW i \in 2..Len(nodes)
        PROVE  /\ nodes[i].parent \in Dirs
               /\ nodes[i].parent < i
               /\ Cardinality({k \in 1..Len(nodes[nodes[i].parent].children) :
                                  nodes[nodes[i].parent].children[k] = i}) = 1
    <3>1. PICK p : p = nodes[i].parent
      OBVIOUS
    <3>2. /\ p \in 1..(i - 1) /\ nodes[p].kind = "dir"
          /\ \E k \in 1..Len(nodes[p].children) : nodes[p].children[k] = i
      BY <2>1, <3>1 DEF Linked
    <3>3. p \in 1..Len(nodes) /\ p < i
      BY <2>2, <3>2
    <3>4. \A k, l \in 1..Len(nodes[p].children) : nodes[p].children[k] = nodes[p].children[l] => k = l
      BY <2>1, <3>3 DEF Linked
    <3>5. PICK k \in 1..Len(nodes[p].children) : nodes[p].children[k] = i
      BY <3>2
    <3>6. {l \in 1..Len(nodes[p].children) : nodes[p].children[l] = i} = {k}
      BY <3>4, <3>5
    <3>7. Cardinality({k}) = 1
      BY FS_Singleton
    <3> QED
      BY <3>1, <3>2, <3>3, <3>6, <3>7 DEF Dirs
  <2>4. ASSUME NEW i \in 1..Len(nodes), NEW c \in Range(nodes[i].children)
        PROVE  c \in 2..Len(nodes) /\ nodes[c].parent = i
    <3>1. nodes[i] \in Node
      BY <2>2, ElementOfSeq
    <3>2. nodes[i].children \in Seq(Nat)
      BY <3>1 DEF Node
    <3>3. DOMAIN nodes[i].children = 1..Len(nodes[i].children)
      BY <3>2, LenProperties
    <3>4. PICK k \in 1..Len(nodes[i].children) : c = nodes[i].children[k]
      BY <3>3 DEF Range
    <3> QED
      BY <2>1, <3>4 DEF Linked
  <2>5. stream # None => stream.dir \in Dirs
    BY <2>1 DEF StreamOK, Dirs
  <2> QED
    BY <2>1, <2>2, <2>3, <2>4, <2>5 DEF TreeTypeOK
<1> QED
  BY <1>1, TreeInductive, PTL

\* A file that is opened by a path is written back to that path, also where
\* several entries compete for a name (connect, lookup, full_path).
THEOREM WritesWhereOpened == Spec => []ResolvesHome
<1>1. TreeInv => ResolvesHome
  <2> SUFFICES ASSUME TreeInv, NEW k \in Key, Mounted, Resolve(k.comps) \in Files
               PROVE  FullPath(Resolve(k.comps)) = [abs |-> TRUE, comps |-> k.comps]
    BY DEF ResolvesHome
  <2>1. Linked(nodes)
    BY DEF TreeInv
  <2>2. PICK comps \in Seq(Names) : comps = k.comps
    BY KeyComps
  <2>3. PICK i \in 1..Len(nodes) : i = Resolve(comps)
    BY <2>2 DEF Files
  <2>4. Len(nodes) \in Nat /\ Len(nodes) > 0
    <3>1. Len(nodes) \in Nat
      BY <2>1 DEF Linked
    <3> QED
      BY <2>3, <3>1
  <2>5. i # None
    BY <2>4, TreeAssumption
  <2>6. Paths(nodes)[Resolve(comps)] = comps
    BY <2>1, <2>3, <2>4, <2>5, WalkEnds
  <2>7. FullPath(i) = [abs |-> TRUE, comps |-> Paths(nodes)[i]]
    BY FullPathIs
  <2> QED
    BY <2>2, <2>3, <2>6, <2>7
<1> QED
  BY <1>1, TreeInductive, PTL

\* The mount serves every unambiguous entry of its catalog under the entry's
\* path, with what was last written back there (connect, lookup, create,
\* flush_bytes).
THEOREM EntriesServed == Spec => []ServesItsEntries
<1>1. TreeInv => ServesItsEntries
  <2> SUFFICES ASSUME TreeInv, NEW k \in Present(shown), Unambiguous(k, shown)
               PROVE  /\ Resolve(k.comps) \in Files
                      /\ nodes[Resolve(k.comps)].hash = shown[k]
    BY DEF ServesItsEntries
  <2>1. Linked(nodes) /\ Placed(nodes, shown)
    BY DEF TreeInv
  <2>2. PICK i \in 1..Len(nodes) : HomeOf(nodes, shown, k, i)
    BY <2>1 DEF Placed, Homes
  <2>3. Resolve(k.comps) = i
    BY <2>1, <2>2, WalkHome
  <2>4. nodes[i].kind = "file" /\ nodes[i].hash = shown[k]
    BY <2>2 DEF HomeOf
  <2> QED
    BY <2>3, <2>4 DEF Files
<1> QED
  BY <1>1, TreeInductive, PTL

\* A directory stream lists no entry twice and misses no child that was there
\* when it was opened (readdir).
THEOREM StreamsListOnce == Spec => []ListedOnce
<1>1. TreeInv => ListedOnce
  <2> SUFFICES ASSUME TreeInv, stream # None
               PROVE  /\ IsInjective(stream.seen)
                      /\ AtEnd => {<<"child", c>> : c \in stream.had} \subseteq Range(stream.seen)
    BY DEF ListedOnce
  <2>1. Linked(nodes) /\ StreamOK(nodes, stream)
    BY DEF TreeInv
  <2>2. PICK d : d = stream.dir
    OBVIOUS
  <2>3. PICK L : L = ListingOf(nodes, d)
    OBVIOUS
  <2>4. PICK s : s = stream.seen
    OBVIOUS
  <2>5. PICK e : e = nodes[d].children
    OBVIOUS
  <2>6. PICK o : o = stream.offset
    OBVIOUS
  <2>7. /\ d \in 1..Len(nodes) /\ o \in Nat /\ s \in Seq(Entry) /\ o <= Len(L) /\ Len(s) = o
        /\ \A k \in 1..o : s[k] = L[k]
        /\ stream.had \subseteq Range(e)
    BY <2>1, <2>2, <2>3, <2>4, <2>5, <2>6 DEF StreamOK
  <2>8. DOMAIN s = 1..o
    BY <2>7, LenProperties
  <2>9. Linked(nodes) /\ d \in 1..Len(nodes)
    BY <2>1, <2>7
  <2>10. Len(L) = Len(e) + 2 /\ Len(e) \in Nat /\ DOMAIN e = 1..Len(e)
    BY <2>3, <2>5, <2>9, ListingShape
  <2>11. NamesChildren(L, e)
    BY <2>3, <2>5, <2>9, ListingShape
  <2>12. \A a, b \in 1..Len(L) : L[a] = L[b] => a = b
    BY <2>3, <2>5, <2>9, ListingShape
  <2>13. \A k \in 1..o : k \in 1..Len(L)
    BY <2>7, <2>10
  <2>14. IsInjective(s)
    <3>1. \A a, b \in 1..o : s[a] = s[b] => a = b
      BY <2>7, <2>12, <2>13
    <3> QED
      BY <2>8, <3>1 DEF IsInjective
  <2>15. ASSUME AtEnd, NEW c \in stream.had
         PROVE  <<"child", c>> \in Range(s)
    <3>1. Listing(stream.dir) = L
      BY <2>2, <2>3 DEF Listing, ListingOf
    <3>2. o >= Len(L)
      BY <2>6, <2>15, <3>1 DEF AtEnd
    <3>3. PICK k \in 1..Len(e) : c = e[k]
      BY <2>7, <2>10 DEF Range
    <3>4. k + 2 \in 1..o
      BY <2>7, <2>10, <3>2
    <3>5. s[k + 2] = <<"child", c>>
      BY <2>7, <2>11, <3>3, <3>4 DEF NamesChildren
    <3> QED
      BY <2>8, <3>4, <3>5 DEF Range
  <2> QED
    BY <2>4, <2>14, <2>15
<1> QED
  BY <1>1, TreeInductive, PTL

\* A mount of a volume of absolute paths, none of them both a file and a
\* directory, keeps it so (create, full_path, flush_bytes).
THEOREM MountKeepsPlain == Spec => MountStaysPlain
<1>1. TreeInv /\ [Next]_vars => [Mounted /\ Mounted' /\ Plain(shown) => Plain(shown')]_vars
  <2> SUFFICES ASSUME TreeInv, Next, Mounted, Mounted', Plain(shown)
               PROVE  Plain(shown')
    BY DEF vars
  <2>1. CASE Connect
    BY <2>1 DEF Connect
  <2>2. CASE Unmount
    BY <2>2 DEF Unmount, Mounted
  <2>3. ASSUME NEW i \in 1..Len(nodes), NEW h \in Hash, WriteBack(i, h)
        PROVE  Plain(shown')
    BY <2>3, WriteBackKeeps
  <2>4. CASE shown' = shown
    BY <2>4
  <2>5. ASSUME NEW d, NEW name, Create(d, name)
        PROVE  shown' = shown
    BY <2>5 DEF Create
  <2>6. ASSUME NEW d, OpenDir(d)
        PROVE  shown' = shown
    BY <2>6 DEF OpenDir
  <2>7. ASSUME NEW n, ReadDir(n)
        PROVE  shown' = shown
    BY <2>7 DEF ReadDir
  <2>8. CASE CloseDir
    BY <2>4, <2>8 DEF CloseDir
  <2>9. ASSUME NEW k, NEW h, AgentIngests(k, h)
        PROVE  shown' = shown
    BY <2>9 DEF AgentIngests
  <2> QED
    BY <2>1, <2>2, <2>3, <2>4, <2>5, <2>6, <2>7, <2>8, <2>9 DEF Next
<1> QED
  BY <1>1, TreeInductive, PTL DEF Spec, MountStaysPlain
=============================================================================
