--------------------------- MODULE IngestProofs ---------------------------
(***************************************************************************)
(* Proofs about Ingest: for any number of agents and collectors, any       *)
(* contents, any failures, the registered terms of a file spell the file.  *)
(***************************************************************************)
EXTENDS Ingest, NatFacts, TLAPS

-----------------------------------------------------------------------------
(* The inductive invariant *)

\* What the dedup index answered about a chunk stays true of the xorb it
\* names: locations are content-addressed, so no later step can falsify them.
LocsSound ==
    \A a \in Client : pc[a] = "run" =>
        \A k \in 1..Len(locs[a]) :
            locs[a][k] # None => Locates(locs[a][k], content[a][k])

\* The terms pushed so far spell the chunks walked so far.
WalkSound ==
    \A a \in Client : pc[a] = "run" => Tiles(terms[a], content[a], pos[a])

\* x is the next run of agent a's chunk list.
NextRun(a, x) ==
    /\ pc[a] = "run"
    /\ pos[a] + Len(x) <= Len(content[a])
    /\ \A d \in 1..Len(x) : x[d] = content[a][pos[a] + d]

\* A put handler is writing or has written, not both, and its xorb is the next
\* run of its agent's chunk list.
PutSound ==
    \A a \in Client : /\ storing[a] = None \/ putting[a] = None
                      /\ storing[a] # None => NextRun(a, storing[a])
                      /\ putting[a] # None => NextRun(a, putting[a])

\* An agent outside ingest_bytes has no locals.
RestSound ==
    \A a \in Client : pc[a] # "run" => locs[a] = <<>> /\ pos[a] = 0

IInv ==
    /\ TypeOK
    /\ ChunkIndexSound
    /\ LocsSound
    /\ WalkSound
    /\ PutSound
    /\ RestSound
    /\ FilesDenote

-----------------------------------------------------------------------------
(* Lemmas about the data *)

\* index_chunks finds the chunk where it is.
LEMMA FirstAtLocates ==
    ASSUME NEW x \in Seq(Chunk), NEW c, Holds(x, c)
    PROVE  FirstAt(x, c) \in 0..(Len(x) - 1) /\ x[FirstAt(x, c) + 1] = c
<1> DEFINE S == {i \in 0..(Len(x) - 1) : x[i + 1] = c}
<1>1. S \subseteq Nat
  OBVIOUS
<1>2. S # {}
  <2>1. PICK k \in 1..Len(x) : x[k] = c
    BY DEF Holds
  <2>2. k - 1 \in S
    BY <2>1
  <2> QED
    BY <2>2
<1>3. PICK i \in S : \A m \in S : i <= m
  BY <1>1, <1>2, LeastNat
<1>4. \A h \in 0..(i - 1) : x[h + 1] # c
  BY <1>3
<1>5. /\ i \in 0..(Len(x) - 1)
      /\ x[i + 1] = c
      /\ \A h \in 0..(i - 1) : x[h + 1] # c
  BY <1>3, <1>4
<1> QED
  BY <1>5 DEF FirstAt

\* index_chunks keeps the dedup index truthful.
LEMMA IndexChunksLocates ==
    ASSUME NEW x \in Xorb, NEW ci \in [Chunk -> Loc \cup {None}], NEW c \in Chunk
    PROVE  /\ IndexChunks(ci, x)[c] \in Loc \cup {None}
           /\ IndexChunks(ci, x)[c] # ci[c] =>
                /\ IndexChunks(ci, x)[c] # None
                /\ IndexChunks(ci, x)[c].xorb = x
                /\ Locates(IndexChunks(ci, x)[c], c)
<1>1. CASE ci[c] = None /\ Holds(x, c)
  <2>1. IndexChunks(ci, x)[c] = [xorb |-> x, index |-> FirstAt(x, c)]
    BY <1>1 DEF IndexChunks
  <2>2. FirstAt(x, c) \in 0..(Len(x) - 1) /\ x[FirstAt(x, c) + 1] = c
    BY <1>1, FirstAtLocates DEF Xorb
  <2>3. [xorb |-> x, index |-> FirstAt(x, c)] \in Loc
    BY <2>2 DEF Loc, Xorb
  <2> QED
    BY <2>1, <2>2, <2>3, XetAssumption DEF Locates, Xorb
<1>2. CASE ~(ci[c] = None /\ Holds(x, c))
  BY <1>2 DEF IndexChunks
<1> QED
  BY <1>1, <1>2

\* Pushing a term that spells the next chunks extends the tiling.
LEMMA TilesPush ==
    ASSUME NEW c \in Seq(Chunk), NEW ts \in Seq(Term), NEW n \in Nat,
           Tiles(ts, c, n), NEW t \in Term, t.at = n, Spells(t, c)
    PROVE  Tiles(Append(ts, t), c, n + Width(t))
<1> DEFINE us == Append(ts, t)
<1>1. /\ Len(us) = Len(ts) + 1
      /\ us[Len(ts) + 1] = t
      /\ \A k \in 1..Len(ts) : us[k] = ts[k]
      /\ us # <<>>
  OBVIOUS
<1>2. \A k \in 1..Len(us) : Spells(us[k], c)
  BY <1>1 DEF Tiles
<1>3. ts = <<>> \/ Len(ts) \in Nat \ {0}
  OBVIOUS
<1>4. \A k \in 1..Len(us) : k = 1 => us[k].at = 0
  BY <1>1, <1>3 DEF Tiles
<1>5. \A k \in 1..Len(us) : k = Len(us) => us[k].at + Width(us[k]) = n + Width(t)
  BY <1>1
<1>6. \A k \in 1..Len(us) : k < Len(us) => us[k].at + Width(us[k]) = us[k + 1].at
  <2> SUFFICES ASSUME NEW k \in 1..Len(us), k < Len(us)
               PROVE  us[k].at + Width(us[k]) = us[k + 1].at
    OBVIOUS
  <2>1. k \in 1..Len(ts)
    BY <1>1
  <2>2. CASE k = Len(ts)
    BY <1>1, <2>1, <2>2 DEF Tiles
  <2>3. CASE k < Len(ts)
    BY <1>1, <2>1, <2>3 DEF Tiles
  <2> QED
    BY <2>1, <2>2, <2>3
<1> QED
  BY <1>1, <1>2, <1>4, <1>5, <1>6 DEF Tiles

-----------------------------------------------------------------------------
(* Each action preserves the inductive invariant *)

\* What TypeOK says of an agent inside ingest_bytes.
LEMMA Running ==
    ASSUME TypeOK, NEW a \in Client, pc[a] = "run"
    PROVE  /\ content[a] \in Contents
           /\ content[a] \in Seq(Chunk)
           /\ Len(content[a]) \in Nat
           /\ \A k \in 1..Len(content[a]) : content[a][k] \in Chunk
           /\ dest[a] \in Path
           /\ locs[a] \in Seq(Loc \cup {None})
           /\ pos[a] \in 0..Len(content[a])
           /\ terms[a] \in Seq(Term)
<1>1. content[a] \in Contents /\ dest[a] \in Path
  BY DEF TypeOK
<1>2. content[a] \in Seq(Chunk)
  BY <1>1, XetdAssumption
<1> QED
  BY <1>1, <1>2 DEF TypeOK

\* A fresh server and agents that have not called ingest_bytes yet.
LEMMA InitInductive == Init => IInv
<1> SUFFICES ASSUME Init PROVE IInv
  OBVIOUS
<1>1. TypeOK
  BY DEF Init, XetdInit, TypeOK, XetdTypeOK
<1>2. FilesDenote
  BY DEF Init, XetdInit, FilesDenote, Registered
<1>3. ChunkIndexSound
  BY DEF Init, XetdInit, ChunkIndexSound
<1> QED
  BY <1>1, <1>2, <1>3
  DEF IInv, Init, XetdInit, LocsSound, WalkSound, PutSound, RestSound

\* A call of ingest_bytes starts with no answers, no terms and position 0,
\* because the last call left none behind (RestSound).
LEMMA StartIngestStep ==
    ASSUME IInv, NEW a \in Client, NEW f \in Contents, NEW p \in Path, StartIngest(a, f, p)
    PROVE  IInv'
<1> USE DEF StartIngest, xetdVars
<1>1. f \in Seq(Chunk) /\ f # None
  BY XetdAssumption
<1>2. locs[a] = <<>> /\ pos[a] = 0
  BY DEF IInv, RestSound
<1>3. p # None
  BY XetdAssumption
<1>4. TypeOK'
  <2>1. TypeOK /\ XetdTypeOK'
    BY DEF IInv, TypeOK, XetdTypeOK
  <2> QED
    BY <1>1, <1>2, <1>3, <2>1 DEF TypeOK
<1>5. LocsSound'
  BY <1>2 DEF IInv, TypeOK, LocsSound
<1>6. WalkSound'
  <2> SUFFICES ASSUME NEW q \in Client, pc'[q] = "run"
               PROVE  Tiles(terms'[q], content'[q], pos'[q])
    BY DEF WalkSound
  <2>1. CASE q = a
    <3>1. terms'[q] = <<>> /\ pos'[q] = 0
      BY <1>2, <2>1 DEF IInv, TypeOK
    <3> QED
      BY <3>1 DEF Tiles
  <2>2. CASE q # a
    <3>1. pc[q] = "run" /\ terms'[q] = terms[q] /\ content'[q] = content[q] /\ pos'[q] = pos[q]
      BY <2>2 DEF IInv, TypeOK
    <3> QED
      BY <3>1 DEF IInv, WalkSound
  <2> QED
    BY <2>1, <2>2
<1>7. PutSound'
  BY DEF IInv, TypeOK, PutSound, NextRun
<1>8. RestSound'
  BY DEF IInv, TypeOK, RestSound
<1>9. ChunkIndexSound' /\ FilesDenote'
  BY DEF IInv, ChunkIndexSound, FilesDenote, Registered
<1> QED
  BY <1>4, <1>5, <1>6, <1>7, <1>8, <1>9 DEF IInv

\* A dedup answer is sound when it is given (ChunkIndexSound), so the list of
\* answers stays sound.
LEMMA QueryChunkStep ==
    ASSUME IInv, NEW a \in Client, QueryChunk(a)
    PROVE  IInv'
<1> USE DEF QueryChunk, Querying, GlobalDedup, xetdVars
<1> DEFINE n == Len(locs[a]) + 1
           l == chunk_index[content[a][n]]
<1>1. /\ TypeOK /\ pc[a] = "run"
      /\ content[a] \in Seq(Chunk) /\ locs[a] \in Seq(Loc \cup {None})
      /\ n \in 1..Len(content[a])
      /\ content[a][n] \in Chunk
  BY Running DEF IInv
<1>2. l \in Loc \cup {None}
  BY <1>1 DEF TypeOK, XetdTypeOK
<1>3. locs'[a] = Append(locs[a], l) /\ \A q \in Client \ {a} : locs'[q] = locs[q]
  BY <1>1 DEF TypeOK
<1>4. /\ locs'[a] \in Seq(Loc \cup {None})
      /\ Len(locs'[a]) = n
      /\ locs'[a][n] = l
      /\ \A k \in 1..Len(locs[a]) : locs'[a][k] = locs[a][k]
  BY <1>1, <1>2, <1>3
<1>5. TypeOK'
  BY <1>1, <1>3, <1>4 DEF IInv, TypeOK, XetdTypeOK
<1>6. LocsSound'
  <2> SUFFICES ASSUME NEW q \in Client, pc'[q] = "run",
                      NEW k \in 1..Len(locs'[q]), locs'[q][k] # None
               PROVE  Locates(locs'[q][k], content'[q][k])
    BY DEF LocsSound
  <2>1. CASE q # a
    BY <2>1, <1>3 DEF IInv, LocsSound
  <2>2. CASE q = a /\ k = n
    BY <2>2, <1>1, <1>4 DEF IInv, ChunkIndexSound
  <2>3. CASE q = a /\ k # n
    <3>1. k \in 1..Len(locs[a])
      BY <2>3, <1>1, <1>4
    <3> QED
      BY <3>1, <2>3, <1>1, <1>4 DEF IInv, LocsSound
  <2> QED
    BY <2>1, <2>2, <2>3
<1>7. WalkSound' /\ PutSound'
  BY DEF IInv, WalkSound, PutSound, NextRun
<1>8. RestSound'
  BY <1>1, <1>3 DEF IInv, RestSound
<1>9. ChunkIndexSound' /\ FilesDenote'
  BY DEF IInv, ChunkIndexSound, FilesDenote, Registered
<1> QED
  BY <1>5, <1>6, <1>7, <1>8, <1>9 DEF IInv

\* Pushing a term that spells the next chunks keeps the walk sound.
LEMMA PushKeepsWalk ==
    ASSUME TypeOK, WalkSound, NEW a \in Client, pc[a] = "run",
           NEW x \in Xorb, NEW s \in Nat, NEW e \in Nat,
           Spells([xorb |-> x, start |-> s, end |-> e, at |-> pos[a]], content[a]),
           PushTerm(a, x, s, e), UNCHANGED <<pc, content>>
    PROVE  /\ WalkSound'
           /\ terms' \in [Client -> Seq(Term)]
           /\ pos' \in [Client -> Nat]
           /\ pos'[a] = pos[a] + (e - s)
           /\ pos'[a] <= Len(content[a])
           /\ \A q \in Client \ {a} : pos'[q] = pos[q] /\ terms'[q] = terms[q]
<1> DEFINE t == [xorb |-> x, start |-> s, end |-> e, at |-> pos[a]]
<1>1. /\ content[a] \in Seq(Chunk) /\ Len(content[a]) \in Nat
      /\ terms[a] \in Seq(Term) /\ pos[a] \in Nat
  BY Running
<1>2. t \in Term
  BY <1>1 DEF Term
<1>3. s < e /\ pos[a] + (e - s) <= Len(content[a]) /\ Width(t) = e - s
  BY DEF Spells, Width
<1>4. /\ terms' = [terms EXCEPT ![a] = Append(terms[a], t)]
      /\ pos' = [pos EXCEPT ![a] = pos[a] + (e - s)]
  BY DEF PushTerm
<1>5. /\ pos \in [Client -> Nat] /\ terms \in [Client -> Seq(Term)]
      /\ pos[a] + (e - s) \in Nat /\ Append(terms[a], t) \in Seq(Term)
  BY <1>1, <1>2, <1>3 DEF TypeOK
<1>6. /\ terms'[a] = Append(terms[a], t) /\ pos'[a] = pos[a] + (e - s)
      /\ \A q \in Client \ {a} : pos'[q] = pos[q] /\ terms'[q] = terms[q]
      /\ terms' \in [Client -> Seq(Term)] /\ pos' \in [Client -> Nat]
  BY <1>4, <1>5
<1>7. Tiles(Append(terms[a], t), content[a], pos[a] + (e - s))
  <2>1. Tiles(terms[a], content[a], pos[a])
    BY DEF WalkSound
  <2>2. t.at = pos[a]
    OBVIOUS
  <2> HIDE DEF t
  <2> QED
    BY <1>1, <1>2, <1>3, <2>1, <2>2, TilesPush DEF t
<1>8. WalkSound'
  BY <1>6, <1>7 DEF WalkSound
<1> QED
  BY <1>3, <1>6, <1>8

\* A run of located hits is a term that spells the run.
LEMMA HitRunSpells ==
    ASSUME NEW c \in Seq(Chunk), NEW ls \in Seq(Loc \cup {None}), Len(ls) = Len(c),
           \A k \in 1..Len(ls) : ls[k] # None => Locates(ls[k], c[k]),
           NEW i \in Nat, NEW j \in (i + 1)..Len(c), HitRun(ls, i, j)
    PROVE  /\ ls[i + 1] \in Loc
           /\ Spells([xorb |-> ls[i + 1].xorb, start |-> ls[i + 1].index,
                      end |-> ls[i + 1].index + (j - i), at |-> i], c)
<1> DEFINE l == ls[i + 1]
           t == [xorb |-> l.xorb, start |-> l.index, end |-> l.index + (j - i), at |-> i]
<1>1. l \in Loc /\ l.index \in Nat /\ l.xorb \in Seq(Chunk)
  <2>1. i + 1 \in 1..Len(ls)
    OBVIOUS
  <2>2. l \in Loc
    BY <2>1 DEF HitRun
  <2> QED
    BY <2>2 DEF Loc, Xorb
<1>2. ASSUME NEW d \in 0..(j - i - 1)
      PROVE  l.index + d < Len(l.xorb) /\ l.xorb[l.index + d + 1] = c[i + d + 1]
  <2>1. i + d \in i..(j - 1) /\ i + d + 1 \in 1..Len(ls) /\ (i + d) - i = d
    OBVIOUS
  <2>2. ls[i + d + 1] = Shift(l, d)
    BY <2>1 DEF HitRun
  <2>3. Shift(l, d) \in Loc
    BY <1>1 DEF Shift, Loc
  <2>4. Locates(Shift(l, d), c[i + d + 1])
    BY <2>1, <2>2, <2>3, XetAssumption
  <2> QED
    BY <2>4 DEF Locates, Shift
<1>3. Width(t) = j - i /\ t.start < t.end /\ t.at + Width(t) <= Len(c)
  BY <1>1 DEF Width
<1>4. t.end <= Len(t.xorb)
  <2>1. l.index + (j - i - 1) < Len(l.xorb)
    BY <1>2
  <2> QED
    BY <1>1, <2>1
<1> QED
  BY <1>1, <1>2, <1>3, <1>4 DEF Spells

\* A run of hits becomes a term that spells the run: HitRunSpells turns the
\* sound answers into the term, PushKeepsWalk pushes it.
LEMMA WalkHitStep ==
    ASSUME IInv, NEW a \in Client, WalkHit(a)
    PROVE  IInv'
<1>1. /\ TypeOK /\ pc[a] = "run" /\ Len(locs[a]) = Len(content[a])
      /\ storing[a] = None /\ putting[a] = None
  BY DEF IInv, WalkHit, Walking, InPut
<1>2. /\ content[a] \in Seq(Chunk) /\ Len(content[a]) \in Nat
      /\ locs[a] \in Seq(Loc \cup {None}) /\ pos[a] \in Nat
  BY <1>1, Running
<1>3. UNCHANGED <<xetdVars, pc, content, dest, locs>>
  BY DEF WalkHit
<1> DEFINE l == locs[a][pos[a] + 1]
<1>4. PICK j \in (pos[a] + 1)..Len(content[a]) :
        HitRun(locs[a], pos[a], j) /\ PushTerm(a, l.xorb, l.index, l.index + (j - pos[a]))
  BY DEF WalkHit
<1>5. \A k \in 1..Len(locs[a]) : locs[a][k] # None => Locates(locs[a][k], content[a][k])
  BY <1>1 DEF IInv, LocsSound
<1>6. /\ l \in Loc
      /\ Spells([xorb |-> l.xorb, start |-> l.index,
                 end |-> l.index + (j - pos[a]), at |-> pos[a]], content[a])
  BY <1>1, <1>2, <1>4, <1>5, HitRunSpells
<1>7. l.xorb \in Xorb /\ l.index \in Nat /\ l.index + (j - pos[a]) \in Nat
  BY <1>2, <1>4, <1>6 DEF Loc
<1>8. /\ WalkSound'
      /\ terms' \in [Client -> Seq(Term)] /\ pos' \in [Client -> Nat]
      /\ pos'[a] <= Len(content[a])
      /\ \A q \in Client \ {a} : pos'[q] = pos[q] /\ terms'[q] = terms[q]
  <2> HIDE DEF l
  <2> QED
    BY <1>1, <1>3, <1>4, <1>6, <1>7, PushKeepsWalk DEF IInv
<1>9. TypeOK'
  BY <1>1, <1>2, <1>3, <1>8 DEF TypeOK, XetdTypeOK, xetdVars
<1>10. PutSound' /\ RestSound'
  <2>1. UNCHANGED <<pc, content, locs, storing, putting>>
    BY <1>3 DEF xetdVars
  <2>2. ASSUME NEW q \in Client, q # a, NEW x
        PROVE  NextRun(q, x) => NextRun(q, x)'
    BY <1>8, <2>1, <2>2 DEF NextRun
  <2>3. PutSound'
    BY <1>1, <2>1, <2>2 DEF IInv, PutSound
  <2>4. RestSound'
    BY <1>1, <1>8, <2>1 DEF IInv, RestSound
  <2> QED
    BY <2>3, <2>4
<1>11. LocsSound' /\ ChunkIndexSound' /\ FilesDenote'
  BY <1>3 DEF IInv, LocsSound, ChunkIndexSound, FilesDenote, Registered, xetdVars
<1> QED
  BY <1>8, <1>9, <1>10, <1>11 DEF IInv

\* A packed run is a term of its own that spells the run.
LEMMA PackedSpells ==
    ASSUME NEW c \in Seq(Chunk), NEW x \in Xorb, NEW i \in Nat,
           i + Len(x) <= Len(c), \A d \in 1..Len(x) : x[d] = c[i + d]
    PROVE  Spells([xorb |-> x, start |-> 0, end |-> Len(x), at |-> i], c)
<1> DEFINE t == [xorb |-> x, start |-> 0, end |-> Len(x), at |-> i]
<1>1. x \in Seq(Chunk) /\ Len(x) \in Nat /\ 0 < Len(x)
  BY DEF Xorb
<1>2. Width(t) = Len(x)
  BY <1>1 DEF Width
<1>3. ASSUME NEW d \in 0..(Width(t) - 1)
      PROVE  t.xorb[t.start + d + 1] = c[t.at + d + 1]
  <2>1. d + 1 \in 1..Len(x)
    BY <1>1, <1>2
  <2>2. x[d + 1] = c[i + (d + 1)]
    BY <2>1
  <2> QED
    BY <2>1, <2>2, <1>1, <1>2
<1> QED
  BY <1>1, <1>2, <1>3 DEF Spells

\* The agent's next run is pushed as a term of its own, the put handler is done
\* with it, and the rest of the server is as it was but for what the lemma's
\* users show by themselves.
LEMMA PushNextRun ==
    ASSUME IInv, NEW a \in Client, NEW x \in Xorb, NextRun(a, x),
           PushTerm(a, x, 0, Len(x)), UNCHANGED <<pc, content, dest, locs, files>>,
           XetdTypeOK', ChunkIndexSound', storing'[a] = None, putting'[a] = None,
           \A q \in Client \ {a} : storing'[q] = storing[q] /\ putting'[q] = putting[q]
    PROVE  IInv'
<1>1. /\ TypeOK /\ pc[a] = "run" /\ pos[a] + Len(x) <= Len(content[a])
      /\ \A d \in 1..Len(x) : x[d] = content[a][pos[a] + d]
  BY DEF IInv, NextRun
<1>2. content[a] \in Seq(Chunk) /\ pos[a] \in Nat /\ Len(x) \in Nat
  BY <1>1, Running DEF Xorb
<1>3. Spells([xorb |-> x, start |-> 0, end |-> Len(x), at |-> pos[a]], content[a])
  BY <1>1, <1>2, PackedSpells
<1>4. /\ WalkSound'
      /\ terms' \in [Client -> Seq(Term)] /\ pos' \in [Client -> Nat]
      /\ pos'[a] <= Len(content[a])
      /\ \A q \in Client \ {a} : pos'[q] = pos[q] /\ terms'[q] = terms[q]
  BY <1>1, <1>2, <1>3, PushKeepsWalk DEF IInv
<1>5. TypeOK'
  BY <1>1, <1>4 DEF TypeOK
<1>6. PutSound'
  <2> SUFFICES ASSUME NEW q \in Client, q # a
               PROVE  /\ storing'[q] = None \/ putting'[q] = None
                      /\ storing'[q] # None => NextRun(q, storing[q])'
                      /\ putting'[q] # None => NextRun(q, putting[q])'
    BY DEF PutSound
  <2>1. pos'[q] = pos[q] /\ storing'[q] = storing[q] /\ putting'[q] = putting[q]
    BY <1>4
  <2> QED
    BY <2>1 DEF IInv, PutSound, NextRun
<1>7. RestSound'
  BY <1>1, <1>4 DEF IInv, RestSound
<1>8. LocsSound' /\ FilesDenote'
  BY DEF IInv, LocsSound, FilesDenote, Registered
<1> QED
  BY <1>4, <1>5, <1>6, <1>7, <1>8 DEF IInv

\* The check of blob.put for the next novel run: the run is pushed at once (the
\* blob is there) or handed to the put handler.
LEMMA UploadXorbStep ==
    ASSUME IInv, NEW a \in Client, UploadXorb(a)
    PROVE  IInv'
<1>1. /\ TypeOK /\ pc[a] = "run" /\ Len(locs[a]) = Len(content[a])
      /\ storing[a] = None /\ putting[a] = None
  BY DEF IInv, UploadXorb, Walking, InPut
<1>2. /\ content[a] \in Seq(Chunk) /\ Len(content[a]) \in Nat
      /\ pos[a] \in Nat /\ pos[a] <= Len(content[a])
      /\ storing \in [Client -> Xorb \cup {None}]
      /\ terms \in [Client -> Seq(Term)] /\ pos \in [Client -> Nat]
  BY <1>1, Running DEF TypeOK, XetdTypeOK
<1>3. PICK j \in (pos[a] + 1)..Len(content[a]) :
        LET x == SubSeq(content[a], pos[a] + 1, j)
        IN  \/ PutXorbFound(a, x) /\ PushTerm(a, x, 0, Len(x))
            \/ PutXorbMissed(a, x) /\ UNCHANGED <<terms, pos>>
  BY DEF UploadXorb
<1> DEFINE x == SubSeq(content[a], pos[a] + 1, j)
<1>4. /\ x \in Xorb /\ Len(x) = j - pos[a] /\ Len(x) \in Nat
      /\ pos[a] + Len(x) <= Len(content[a])
      /\ \A d \in 1..Len(x) : x[d] = content[a][pos[a] + d]
  <2>1. x \in Seq(Chunk) /\ Len(x) = j - pos[a] /\ Len(x) \in Nat \ {0}
    BY <1>2, <1>3
  <2>2. \A d \in 1..Len(x) : x[d] = content[a][pos[a] + d]
    BY <1>2, <1>3
  <2>3. pos[a] + (j - pos[a]) <= Len(content[a])
    BY <1>2
  <2> HIDE DEF x
  <2> QED
    BY <2>1, <2>2, <2>3 DEF Xorb
<1>5. \/ PutXorbFound(a, x) /\ PushTerm(a, x, 0, Len(x))
      \/ PutXorbMissed(a, x) /\ UNCHANGED <<terms, pos>>
  BY <1>3
<1>6. UNCHANGED <<pc, content, dest, locs>>
  BY DEF UploadXorb
<1> HIDE DEF x
<1>7. CASE PutXorbFound(a, x) /\ PushTerm(a, x, 0, Len(x))
  <2>1. UNCHANGED xetdVars
    BY <1>7 DEF PutXorbFound
  <2>2. NextRun(a, x)
    BY <1>1, <1>4 DEF NextRun
  <2>3. XetdTypeOK'
    BY <1>1, <2>1 DEF TypeOK, XetdTypeOK, xetdVars
  <2>4. ChunkIndexSound'
    BY <2>1 DEF IInv, ChunkIndexSound, xetdVars
  <2> QED
    BY <1>1, <1>4, <1>6, <1>7, <2>1, <2>2, <2>3, <2>4, PushNextRun DEF xetdVars
<1>8. CASE PutXorbMissed(a, x) /\ UNCHANGED <<terms, pos>>
  <2>1. /\ UNCHANGED <<agentVars, blobs, xorbs, files, catalog, chunk_index, stray, putting, todo,
                       deleted, doubled>>
        /\ storing' = [storing EXCEPT ![a] = x]
    BY <1>6, <1>8 DEF PutXorbMissed, index, gc, agentVars
  <2>2. /\ storing' \in [Client -> Xorb \cup {None}] /\ storing'[a] = x
        /\ \A q \in Client \ {a} : storing'[q] = storing[q]
    BY <1>2, <1>4, <2>1
  <2>3. TypeOK'
    BY <1>1, <2>1, <2>2 DEF TypeOK, XetdTypeOK, agentVars
  <2>4. PutSound'
    BY <1>1, <1>4, <2>1, <2>2 DEF IInv, PutSound, NextRun, agentVars
  <2> QED
    BY <2>1, <2>3, <2>4 DEF IInv, ChunkIndexSound, LocsSound, WalkSound, RestSound, FilesDenote,
                            Registered, agentVars
<1> QED
  BY <1>5, <1>7, <1>8

\* blob.put has written: the same xorb is now waiting to be indexed.
LEMMA UploadStoredStep ==
    ASSUME IInv, NEW a \in Client, UploadStored(a)
    PROVE  IInv'
<1>1. /\ TypeOK /\ storing[a] # None
      /\ storing \in [Client -> Xorb \cup {None}] /\ putting \in [Client -> Xorb \cup {None}]
  BY DEF IInv, TypeOK, XetdTypeOK, UploadStored, PutXorbStored
<1>2. /\ UNCHANGED <<agentVars, xorbs, files, catalog, chunk_index, stray, todo, deleted>>
      /\ blobs' = blobs \cup {storing[a]}
      /\ storing' = [storing EXCEPT ![a] = None]
      /\ putting' = [putting EXCEPT ![a] = storing[a]]
      /\ doubled' = doubled \cup (blobs \cap {storing[a]})
  BY DEF UploadStored, PutXorbStored, index, gc
<1>3. /\ storing' \in [Client -> Xorb \cup {None}] /\ putting' \in [Client -> Xorb \cup {None}]
      /\ storing'[a] = None /\ putting'[a] = storing[a] /\ storing[a] \in Xorb
      /\ \A q \in Client \ {a} : storing'[q] = storing[q] /\ putting'[q] = putting[q]
  BY <1>1, <1>2
<1>4. TypeOK'
  BY <1>1, <1>2, <1>3 DEF TypeOK, XetdTypeOK, agentVars
<1>5. PutSound'
  BY <1>1, <1>2, <1>3 DEF IInv, PutSound, NextRun, agentVars
<1> QED
  BY <1>2, <1>4, <1>5 DEF IInv, ChunkIndexSound, LocsSound, WalkSound, RestSound, FilesDenote,
                          Registered, agentVars

\* A put that finds its work done by another pushes the term all the same.
LEMMA UploadGivesWayStep ==
    ASSUME IInv, NEW a \in Client, UploadGivesWay(a)
    PROVE  IInv'
<1> DEFINE x == storing[a]
<1>1. /\ TypeOK /\ x # None /\ x \in Xorb /\ NextRun(a, x)
      /\ storing \in [Client -> Xorb \cup {None}]
  BY DEF IInv, TypeOK, XetdTypeOK, PutSound, UploadGivesWay, PutXorbGivesWay
<1>2. /\ UNCHANGED <<pc, content, dest, locs, blobs, xorbs, files, catalog, chunk_index, stray,
                     putting, todo, deleted, doubled>>
      /\ storing' = [storing EXCEPT ![a] = None]
      /\ PushTerm(a, x, 0, Len(x))
  BY DEF UploadGivesWay, PutXorbGivesWay, index, gc
<1>3. /\ storing' \in [Client -> Xorb \cup {None}] /\ storing'[a] = None
      /\ \A q \in Client \ {a} : storing'[q] = storing[q]
  BY <1>1, <1>2
<1>4. putting[a] = None
  BY <1>1 DEF IInv, PutSound
<1>5. XetdTypeOK'
  BY <1>1, <1>2, <1>3 DEF TypeOK, XetdTypeOK
<1>6. ChunkIndexSound'
  BY <1>2 DEF IInv, ChunkIndexSound
<1> HIDE DEF x
<1> QED
  BY <1>1, <1>2, <1>3, <1>4, <1>5, <1>6, PushNextRun

\* put_xorb indexes the stored xorb, and the agent pushes the term for it.
LEMMA UploadIndexedStep ==
    ASSUME IInv, NEW a \in Client, UploadIndexed(a)
    PROVE  IInv'
<1> DEFINE x == putting[a]
<1>1. /\ TypeOK /\ x # None /\ x \in Xorb /\ NextRun(a, x)
      /\ putting \in [Client -> Xorb \cup {None}]
      /\ chunk_index \in [Chunk -> Loc \cup {None}]
  BY DEF IInv, TypeOK, XetdTypeOK, PutSound, UploadIndexed, PutXorbIndex
<1>2. /\ UNCHANGED <<pc, content, dest, locs, blobs, files, catalog, storing, stray, todo, deleted,
                     doubled>>
      /\ xorbs' = xorbs \cup {x}
      /\ chunk_index' = IndexChunks(chunk_index, x)
      /\ putting' = [putting EXCEPT ![a] = None]
      /\ PushTerm(a, x, 0, Len(x))
  BY DEF UploadIndexed, PutXorbIndex, gc
<1>3. storing[a] = None
  BY <1>1 DEF IInv, PutSound
<1> HIDE DEF x
<1>4. /\ putting' \in [Client -> Xorb \cup {None}]
      /\ putting'[a] = None
      /\ \A q \in Client \ {a} : putting'[q] = putting[q]
  BY <1>1, <1>2
<1>5. chunk_index' \in [Chunk -> Loc \cup {None}]
  <2>1. \A c \in Chunk : IndexChunks(chunk_index, x)[c] \in Loc \cup {None}
    BY <1>1, IndexChunksLocates
  <2> QED
    BY <1>1, <1>2, <2>1 DEF IndexChunks
<1>6. XetdTypeOK'
  BY <1>1, <1>2, <1>4, <1>5 DEF TypeOK, XetdTypeOK
<1>7. ChunkIndexSound'
  BY <1>1, <1>2, IndexChunksLocates DEF IInv, ChunkIndexSound
<1> QED
  BY <1>1, <1>2, <1>3, <1>4, <1>6, <1>7, PushNextRun

\* Agent a has returned and the others have not moved.
AtRest(a, outcome) ==
    /\ pc' \in [Client -> {"ok", "run", "refused", "failed"}]
    /\ content' \in [Client -> Contents \cup {None}]
    /\ dest' \in [Client -> Path \cup {None}]
    /\ locs' \in [Client -> Seq(Loc \cup {None})]
    /\ pos' \in [Client -> Nat]
    /\ terms' \in [Client -> Seq(Term)]
    /\ pc'[a] = outcome /\ locs'[a] = <<>> /\ pos'[a] = 0
    /\ \A q \in Client \ {a} :
         /\ pc'[q] = pc[q] /\ content'[q] = content[q] /\ dest'[q] = dest[q]
         /\ locs'[q] = locs[q] /\ pos'[q] = pos[q] /\ terms'[q] = terms[q]

\* ingest_bytes leaves its agent at rest and the other agents alone.
LEMMA ReturnRests ==
    ASSUME TypeOK, NEW a \in Client, NEW outcome \in {"ok", "refused", "failed"},
           Return(a, outcome)
    PROVE  AtRest(a, outcome)
<1>1. <<>> \in Seq(Loc \cup {None}) /\ <<>> \in Seq(Term)
  OBVIOUS
<1> QED
  BY <1>1 DEF Return, TypeOK, AtRest

\* A return keeps what the invariant says of the agents.
LEMMA ReturnKeepsAgents ==
    ASSUME IInv, NEW a \in Client, NEW outcome \in {"ok", "refused", "failed"},
           Return(a, outcome),
           storing'[a] = None, putting'[a] = None,
           \A q \in Client \ {a} : storing'[q] = storing[q] /\ putting'[q] = putting[q],
           XetdTypeOK'
    PROVE  TypeOK' /\ LocsSound' /\ WalkSound' /\ PutSound' /\ RestSound'
<1>1. AtRest(a, outcome) /\ TypeOK
  BY ReturnRests DEF IInv
<1>2. TypeOK'
  <2> SUFFICES ASSUME NEW q \in Client, pc'[q] = "run"
               PROVE  /\ content'[q] # None
                      /\ dest'[q] # None
                      /\ Len(locs'[q]) <= Len(content'[q])
                      /\ pos'[q] <= Len(content'[q])
    BY <1>1 DEF TypeOK, AtRest
  <2>1. q # a
    BY <1>1 DEF AtRest
  <2> QED
    BY <1>1, <2>1 DEF TypeOK, AtRest
<1>3. LocsSound'
  <2> SUFFICES ASSUME NEW q \in Client, pc'[q] = "run", NEW k \in 1..Len(locs'[q]),
                      locs'[q][k] # None
               PROVE  Locates(locs'[q][k], content'[q][k])
    BY DEF LocsSound
  <2>1. q # a
    BY <1>1 DEF AtRest
  <2>2. pc[q] = "run" /\ locs'[q] = locs[q] /\ content'[q] = content[q]
    BY <1>1, <2>1 DEF AtRest
  <2> QED
    BY <2>2 DEF IInv, LocsSound
<1>4. WalkSound'
  BY <1>1 DEF IInv, WalkSound, AtRest
<1>5. PutSound'
  <2> SUFFICES ASSUME NEW q \in Client, q # a
               PROVE  /\ storing'[q] = None \/ putting'[q] = None
                      /\ storing'[q] # None => NextRun(q, storing[q])'
                      /\ putting'[q] # None => NextRun(q, putting[q])'
    BY DEF PutSound
  <2>1. /\ pc'[q] = pc[q] /\ pos'[q] = pos[q] /\ content'[q] = content[q]
        /\ storing'[q] = storing[q] /\ putting'[q] = putting[q]
    BY <1>1 DEF AtRest
  <2> QED
    BY <2>1 DEF IInv, PutSound, NextRun
<1>6. RestSound'
  BY <1>1 DEF IInv, RestSound, AtRest
<1> QED
  BY <1>2, <1>3, <1>4, <1>5, <1>6

\* register_file records terms that spell the whole file, because the walk has
\* reached its end (WalkSound at pos = Len).
LEMMA RegisterFileStep ==
    ASSUME IInv, NEW a \in Client, AtRegister(a),
           RegisterFile(content[a], dest[a], terms[a]),
           NEW outcome \in {"ok", "failed"}, Return(a, outcome)
    PROVE  IInv'
<1>1. /\ TypeOK /\ pc[a] = "run" /\ pos[a] = Len(content[a])
      /\ storing[a] = None /\ putting[a] = None
  BY DEF IInv, AtRegister, Walking, InPut
<1>2. content[a] \in Contents /\ dest[a] \in Path /\ terms[a] \in Seq(Term)
  BY <1>1, Running
<1>3. /\ files' = [files EXCEPT ![content[a]] = terms[a]]
      /\ catalog' = [catalog EXCEPT ![dest[a]] = content[a]]
      /\ UNCHANGED <<blobs, xorbs, chunk_index, storing, stray, putting, todo, deleted, doubled>>
  BY DEF RegisterFile, gc, put
<1>4. files \in [Contents -> Seq(Term) \cup {None}] /\ catalog \in [Path -> Contents \cup {None}]
  BY <1>1 DEF TypeOK, XetdTypeOK
<1>5. /\ files' \in [Contents -> Seq(Term) \cup {None}]
      /\ catalog' \in [Path -> Contents \cup {None}]
  BY <1>2, <1>3, <1>4
<1>6. XetdTypeOK' /\ storing'[a] = None /\ putting'[a] = None
  BY <1>1, <1>3, <1>5 DEF TypeOK, XetdTypeOK
<1>7. FilesDenote'
  <2> SUFFICES ASSUME NEW f \in Contents, files'[f] # None
               PROVE  Tiles(files'[f], f, Len(f))
    BY DEF FilesDenote, Registered
  <2>1. CASE f = content[a]
    BY <2>1, <1>1, <1>2, <1>3, <1>4 DEF IInv, WalkSound
  <2>2. CASE f # content[a]
    BY <2>2, <1>3, <1>4 DEF IInv, FilesDenote, Registered
  <2> QED
    BY <2>1, <2>2
<1>8. TypeOK' /\ LocsSound' /\ WalkSound' /\ PutSound' /\ RestSound'
  BY <1>3, <1>6, ReturnKeepsAgents
<1>9. ChunkIndexSound'
  BY <1>3 DEF IInv, ChunkIndexSound
<1> QED
  BY <1>7, <1>8, <1>9 DEF IInv

\* A refused registration changes nothing at the server.
LEMMA RegisterRefusedStep ==
    ASSUME IInv, NEW a \in Client, RegisterRefused(a)
    PROVE  IInv'
<1>1. /\ TypeOK /\ pc[a] = "run" /\ storing[a] = None /\ putting[a] = None
      /\ Return(a, "refused") /\ UNCHANGED xetdVars
  BY DEF IInv, RegisterRefused, AtRegister, Walking, InPut
<1>2. XetdTypeOK'
  BY <1>1 DEF TypeOK, XetdTypeOK, xetdVars
<1>3. TypeOK' /\ LocsSound' /\ WalkSound' /\ PutSound' /\ RestSound'
  BY <1>1, <1>2, ReturnKeepsAgents DEF xetdVars
<1>4. ChunkIndexSound' /\ FilesDenote'
  BY <1>1 DEF IInv, ChunkIndexSound, FilesDenote, Registered, xetdVars
<1> QED
  BY <1>3, <1>4 DEF IInv

\* A lost request ends the ingest and drops its put handler.
LEMMA RequestLostStep ==
    ASSUME IInv, NEW a \in Client, RequestLost(a)
    PROVE  IInv'
<1>1. /\ TypeOK /\ pc[a] = "run" /\ Return(a, "failed")
      /\ storing' = [storing EXCEPT ![a] = None]
      /\ putting' = [putting EXCEPT ![a] = None]
      /\ stray' \subseteq stray \cup ({storing[a]} \ {None})
      /\ UNCHANGED <<blobs, xorbs, files, catalog, chunk_index, todo, deleted, doubled>>
  BY DEF IInv, RequestLost, PutXorbDropped, Abandon, index, gc
<1>2. /\ storing' \in [Client -> Xorb \cup {None}] /\ storing'[a] = None
      /\ putting' \in [Client -> Xorb \cup {None}] /\ putting'[a] = None
      /\ \A q \in Client \ {a} : storing'[q] = storing[q] /\ putting'[q] = putting[q]
      /\ stray' \subseteq Xorb
  BY <1>1 DEF TypeOK, XetdTypeOK
<1>3. XetdTypeOK'
  BY <1>1, <1>2 DEF TypeOK, XetdTypeOK
<1>4. TypeOK' /\ LocsSound' /\ WalkSound' /\ PutSound' /\ RestSound'
  BY <1>1, <1>2, <1>3, ReturnKeepsAgents
<1>5. ChunkIndexSound' /\ FilesDenote'
  BY <1>1 DEF IInv, ChunkIndexSound, FilesDenote, Registered
<1> QED
  BY <1>4, <1>5 DEF IInv

\* The mark phase of test_gc changes nothing the invariant speaks of.
LEMMA MarkStep ==
    ASSUME IInv, NEW g \in Collector, Mark(g)
    PROVE  IInv'
<1>1. /\ todo' = [todo EXCEPT ![g] = xorbs \ Referenced]
      /\ UNCHANGED <<blobs, xorbs, files, catalog, chunk_index, put, deleted, agentVars>>
  BY DEF Mark, GcMark, index
<1>2. TypeOK'
  BY <1>1 DEF IInv, TypeOK, XetdTypeOK, put, agentVars
<1> QED
  BY <1>1, <1>2 DEF IInv, ChunkIndexSound, LocsSound, WalkSound, PutSound, NextRun, RestSound,
                    FilesDenote, Registered, put, agentVars

\* A deletion removes a blob and nothing the invariant speaks of.
LEMMA SweepOneStep ==
    ASSUME IInv, NEW g \in Collector, NEW x \in todo[g],
           NEW stored \in SUBSET blobs, Sweep(g, x, stored), UNCHANGED agentVars
    PROVE  IInv'
<1>1. /\ blobs' = stored
      /\ todo' = [todo EXCEPT ![g] = todo[g] \ {x}]
      /\ deleted' = [deleted EXCEPT ![g] = x]
      /\ UNCHANGED <<xorbs, files, catalog, chunk_index, put, agentVars>>
  BY DEF Sweep, index
<1>2. TypeOK'
  BY <1>1 DEF IInv, TypeOK, XetdTypeOK, put, agentVars
<1> QED
  BY <1>1, <1>2 DEF IInv, ChunkIndexSound, LocsSound, WalkSound, PutSound, NextRun, RestSound,
                    FilesDenote, Registered, put, agentVars

\* test_gc drops a xorb together with every dedup entry that names it, so that
\* the remaining entries still name indexed xorbs.
LEMMA GcForgetStep ==
    ASSUME IInv, NEW g \in Collector, GcForget(g), UNCHANGED agentVars
    PROVE  IInv'
<1>1. /\ xorbs' = xorbs \ {deleted[g]}
      /\ chunk_index' = [c \in Chunk |->
            IF chunk_index[c] # None /\ chunk_index[c].xorb = deleted[g]
               THEN None ELSE chunk_index[c]]
      /\ deleted' = [deleted EXCEPT ![g] = None]
      /\ UNCHANGED <<blobs, files, catalog, put, todo, agentVars>>
  BY DEF GcForget
<1>2. TypeOK'
  BY <1>1 DEF IInv, TypeOK, XetdTypeOK, put, agentVars
<1>3. ChunkIndexSound'
  BY <1>1 DEF IInv, ChunkIndexSound
<1> QED
  BY <1>1, <1>2, <1>3 DEF IInv, LocsSound, WalkSound, PutSound, NextRun, RestSound,
                    FilesDenote, Registered, put, agentVars

\* Every step of the sweep of test_gc keeps the invariant.
LEMMA SweepStepStep ==
    ASSUME IInv, NEW g \in Collector, SweepStep(g)
    PROVE  IInv'
<1>1. CASE \E x \in todo[g] : GcDelete(g, x) \/ GcDeleteFails(g, x)
  <2>1. PICK x \in todo[g] : Sweep(g, x, blobs \ {x}) \/ Sweep(g, x, blobs)
    BY <1>1 DEF GcDelete, GcDeleteFails
  <2>2. UNCHANGED agentVars
    BY DEF SweepStep
  <2> QED
    BY <2>1, <2>2, SweepOneStep
<1>2. CASE GcForget(g)
  BY <1>2, GcForgetStep DEF SweepStep
<1> QED
  BY <1>1, <1>2 DEF SweepStep

\* A test_gc request that is dropped leaves the index as it is.
LEMMA GcDroppedStep ==
    ASSUME IInv, NEW g \in Collector, GcDropped(g), UNCHANGED agentVars
    PROVE  IInv'
<1>1. /\ todo' = [todo EXCEPT ![g] = {}]
      /\ deleted' = [deleted EXCEPT ![g] = None]
      /\ UNCHANGED <<blobs, xorbs, files, catalog, chunk_index, put, agentVars>>
  BY DEF GcDropped, index
<1>2. TypeOK'
  BY <1>1 DEF IInv, TypeOK, XetdTypeOK, put, agentVars
<1> QED
  BY <1>1, <1>2 DEF IInv, ChunkIndexSound, LocsSound, WalkSound, PutSound, NextRun, RestSound,
                    FilesDenote, Registered, put, agentVars

\* The late write of an abandoned put adds a blob and nothing else.
LEMMA LandStep ==
    ASSUME IInv, NEW x \in stray, Land(x)
    PROVE  IInv'
<1>1. /\ blobs' = blobs \cup {x}
      /\ UNCHANGED <<xorbs, files, catalog, chunk_index, put, todo, deleted, agentVars>>
  BY DEF Land, StrayLands, index, gc
<1>2. TypeOK'
  BY <1>1 DEF IInv, TypeOK, XetdTypeOK, put, agentVars
<1> QED
  BY <1>1, <1>2 DEF IInv, ChunkIndexSound, LocsSound, WalkSound, PutSound, NextRun, RestSound,
                    FilesDenote, Registered, put, agentVars

\* A restart forgets the index and the handlers; the agents that go on keep
\* answers and terms that are true of content-addressed xorbs all the same.
LEMMA RestartStep ==
    ASSUME IInv, ServerRestart
    PROVE  IInv'
<1>1. /\ xorbs' = {} /\ blobs' = blobs
      /\ files' = [f \in Contents |-> None]
      /\ catalog' = [p \in Path |-> None]
      /\ chunk_index' = [c \in Chunk |-> None]
      /\ storing' = [c \in Client |-> None]
      /\ stray' \subseteq stray \cup ({storing[c] : c \in Client} \ {None})
      /\ putting' = [c \in Client |-> None]
      /\ todo' = [g \in Collector |-> {}]
      /\ deleted' = [g \in Collector |-> None]
      /\ doubled' = {}
  BY DEF ServerRestart, Restart, Abandon
<1>2. XetdTypeOK'
  BY <1>1 DEF IInv, TypeOK, XetdTypeOK
<1>3. <<>> \in Seq(Loc \cup {None}) /\ <<>> \in Seq(Term)
  OBVIOUS
<1>4. /\ pc' \in [Client -> {"ok", "run", "refused", "failed"}]
      /\ content' \in [Client -> Contents \cup {None}]
      /\ dest' \in [Client -> Path \cup {None}]
      /\ locs' \in [Client -> Seq(Loc \cup {None})]
      /\ pos' \in [Client -> Nat]
      /\ terms' \in [Client -> Seq(Term)]
  BY <1>3 DEF IInv, TypeOK, ServerRestart
<1>5. ASSUME NEW q \in Client
      PROVE  \/ pc'[q] = "failed" /\ locs'[q] = <<>> /\ pos'[q] = 0
             \/ /\ pc'[q] = pc[q] /\ content'[q] = content[q] /\ dest'[q] = dest[q]
                /\ locs'[q] = locs[q] /\ pos'[q] = pos[q] /\ terms'[q] = terms[q]
  BY DEF ServerRestart
<1>6. TypeOK'
  BY <1>2, <1>4, <1>5 DEF IInv, TypeOK
<1>7. LocsSound'
  BY <1>5 DEF IInv, LocsSound
<1>8. WalkSound'
  BY <1>5 DEF IInv, WalkSound
<1>9. RestSound'
  BY <1>5 DEF IInv, RestSound
<1>10. PutSound' /\ ChunkIndexSound' /\ FilesDenote'
  BY <1>1 DEF PutSound, ChunkIndexSound, FilesDenote, Registered
<1> QED
  BY <1>6, <1>7, <1>8, <1>9, <1>10 DEF IInv

\* Every step preserves the inductive invariant.
LEMMA NextInductive == IInv /\ [Next]_vars => IInv'
<1> SUFFICES ASSUME IInv, [Next]_vars PROVE IInv'
  OBVIOUS
<1>1. ASSUME NEW a \in Client, NEW f \in Contents, NEW p \in Path, StartIngest(a, f, p)
      PROVE  IInv'
  BY <1>1, StartIngestStep
<1>2. ASSUME NEW a \in Client, AgentStep(a)
      PROVE  IInv'
  <2>1. CASE QueryChunk(a)
    BY <2>1, QueryChunkStep
  <2>2. CASE WalkHit(a)
    BY <2>2, WalkHitStep
  <2>3. CASE UploadXorb(a)
    BY <2>3, UploadXorbStep
  <2>4. CASE UploadStored(a)
    BY <2>4, UploadStoredStep
  <2>5. CASE UploadGivesWay(a)
    BY <2>5, UploadGivesWayStep
  <2>6. CASE UploadIndexed(a)
    BY <2>6, UploadIndexedStep
  <2>7. CASE Register(a)
    BY <2>7, RegisterFileStep DEF Register
  <2>8. CASE RegisterRefused(a)
    BY <2>8, RegisterRefusedStep
  <2> QED
    BY <1>2, <2>1, <2>2, <2>3, <2>4, <2>5, <2>6, <2>7, <2>8 DEF AgentStep
<1>3. ASSUME NEW g \in Collector, GcRequest(g) \/ SweepStep(g)
      PROVE  IInv'
  BY <1>3, MarkStep, GcDroppedStep, SweepStepStep DEF GcRequest, Mark
<1>4. CASE Fault
  <2>1. ASSUME NEW a \in Client, RequestLost(a)
        PROVE  IInv'
    BY <2>1, RequestLostStep
  <2>2. ASSUME NEW a \in Client, RegisterReplyLost(a)
        PROVE  IInv'
    BY <2>2, RegisterFileStep DEF RegisterReplyLost
  <2>3. ASSUME NEW x \in stray, Land(x)
        PROVE  IInv'
    BY <2>3, LandStep
  <2>4. CASE ServerRestart
    BY <2>4, RestartStep
  <2> QED
    BY <1>4, <2>1, <2>2, <2>3, <2>4 DEF Fault
<1>5. CASE UNCHANGED vars
  BY <1>5 DEF vars, xetdVars, agentVars, IInv, TypeOK, XetdTypeOK, ChunkIndexSound, LocsSound,
              WalkSound, PutSound, NextRun, RestSound, FilesDenote, Registered
<1> QED
  BY <1>1, <1>2, <1>3, <1>4, <1>5 DEF Next

\* The inductive invariant holds in every reachable state, for any number of
\* agents, collectors and failures.
THEOREM Inductive == Spec => []IInv
BY InitInductive, NextInductive, PTL DEF Spec

-----------------------------------------------------------------------------
(* The theorems *)

\* Every variable keeps its type, and a running ingest_bytes stays within its
\* chunk list, for any number of agents, collectors and failures.
THEOREM TypeCorrect == Spec => []TypeOK
<1>1. IInv => TypeOK
  BY DEF IInv
<1> QED
  BY <1>1, Inductive, PTL

\* The dedup index never points at a chunk that is not there
\* (Index::index_chunks against the retain of test_gc).
THEOREM DedupIndexIsSound == Spec => []ChunkIndexSound
<1>1. IInv => ChunkIndexSound
  BY DEF IInv
<1> QED
  BY <1>1, Inductive, PTL

\* What register_file has recorded for a file hash spells exactly that file,
\* and no term reaches past the boundary offsets of its xorb.
THEOREM RegisteredTermsSpellTheFile == Spec => []FilesDenote
<1>1. IInv => FilesDenote
  BY DEF IInv
<1> QED
  BY <1>1, Inductive, PTL

-----------------------------------------------------------------------------
(* Collections spare what is referenced when they mark *)

\* What a step can do to the state of the server, as far as Spared is
\* concerned: it only adds blobs and xorbs, or condemns unreferenced xorbs,
\* or removes condemned ones, or forgets the files.
LEMMA ServerStep ==
    ASSUME TypeOK, [Next]_vars
    PROVE  \/ /\ blobs \subseteq blobs' /\ xorbs \subseteq xorbs'
              /\ \A x : Condemned(x)' => Condemned(x) \/ x \notin Referenced \/ x = None
           \/ /\ UNCHANGED files
              /\ \A x \in Xorb : ~Condemned(x) =>
                   /\ x \in blobs => x \in blobs'
                   /\ x \in xorbs => x \in xorbs'
                   /\ ~Condemned(x)'
           \/ files' = [f \in Contents |-> None]
<1> USE DEF Condemned, xetdVars, index, gc
<1>1. ASSUME NEW a \in Client, NEW f \in Contents, NEW p \in Path, StartIngest(a, f, p)
      PROVE  UNCHANGED <<blobs, xorbs, todo, deleted>>
  BY <1>1 DEF StartIngest
<1>2. ASSUME \/ \E a \in Client : AgentStep(a) \/ RequestLost(a) \/ RegisterReplyLost(a)
             \/ \E x \in stray : Land(x)
      PROVE  blobs \subseteq blobs' /\ xorbs \subseteq xorbs' /\ UNCHANGED <<todo, deleted>>
  BY <1>2 DEF AgentStep, QueryChunk, WalkHit, UploadXorb, PutXorbFound, PutXorbMissed, UploadStored,
              PutXorbStored, UploadGivesWay, PutXorbGivesWay, UploadIndexed, PutXorbIndex, Register,
              RegisterFile, RegisterRefused, RequestLost, PutXorbDropped, RegisterReplyLost, Land,
              StrayLands
<1>3. ASSUME NEW g \in Collector, Mark(g)
      PROVE  /\ UNCHANGED <<blobs, xorbs>>
             /\ \A x : Condemned(x)' => Condemned(x) \/ x \notin Referenced
  BY <1>3 DEF Mark, GcMark, TypeOK, XetdTypeOK
<1>4. ASSUME NEW g \in Collector, SweepStep(g)
      PROVE  /\ UNCHANGED files
             /\ \A x \in Xorb : ~Condemned(x) =>
                  /\ x \in blobs => x \in blobs'
                  /\ x \in xorbs => x \in xorbs'
                  /\ ~Condemned(x)'
  <2>1. CASE \E y \in todo[g] : GcDelete(g, y) \/ GcDeleteFails(g, y)
    <3>1. PICK y \in todo[g] : Sweep(g, y, blobs \ {y}) \/ Sweep(g, y, blobs)
      BY <2>1 DEF GcDelete, GcDeleteFails
    <3>2. /\ UNCHANGED <<files, xorbs>> /\ blobs \ {y} \subseteq blobs'
          /\ todo' = [todo EXCEPT ![g] = todo[g] \ {y}] /\ deleted' = [deleted EXCEPT ![g] = y]
      BY <3>1 DEF Sweep
    <3> QED
      BY <3>2 DEF TypeOK, XetdTypeOK
  <2>2. CASE GcForget(g)
    <3>1. /\ UNCHANGED <<files, blobs, todo>> /\ xorbs' = xorbs \ {deleted[g]}
          /\ deleted' = [deleted EXCEPT ![g] = None]
      BY <2>2 DEF GcForget
    <3> QED
      BY <3>1, XetAssumption DEF TypeOK, XetdTypeOK
  <2> QED
    BY <1>4, <2>1, <2>2 DEF SweepStep
<1>5. ASSUME NEW g \in Collector, GcDropped(g)
      PROVE  /\ UNCHANGED <<blobs, xorbs>>
             /\ \A x : Condemned(x)' => Condemned(x) \/ x = None
  BY <1>5 DEF GcDropped, TypeOK, XetdTypeOK
<1>6. ASSUME ServerRestart
      PROVE  files' = [f \in Contents |-> None]
  BY <1>6 DEF ServerRestart, Restart
<1>7. ASSUME UNCHANGED vars
      PROVE  UNCHANGED <<blobs, xorbs, todo, deleted>>
  BY <1>7 DEF vars
<1>8. ASSUME UNCHANGED <<todo, deleted>>
      PROVE  \A x : Condemned(x)' => Condemned(x)
  BY <1>8
<1> QED
  BY <1>1, <1>2, <1>3, <1>4, <1>5, <1>6, <1>7, <1>8 DEF Next, Fault, GcRequest, Mark

\* A file that is intact and that no collection has condemned stays so until
\* its record is replaced: test_gc never touches what was referenced when it
\* marked.
THEOREM CollectionsSpareReferenced == Spec => SparedStaysSpared
<1>1. TypeOK /\ [Next]_vars =>
        [\A f \in Contents : Spared(f) /\ files'[f] = files[f] => Spared(f)']_vars
  <2> SUFFICES ASSUME TypeOK, [Next]_vars, NEW f \in Contents, Spared(f), files'[f] = files[f]
               PROVE  Spared(f)'
    OBVIOUS
  <2>1. files[f] # None /\ files[f] \in Seq(Term)
    BY DEF Spared, Registered, TypeOK, XetdTypeOK
  <2> DEFINE X == XorbsOf(files[f])
  <2>2. X \subseteq Xorb /\ X \subseteq Referenced /\ None \notin X
    <3>1. X \subseteq Xorb
      <4>1. \A k \in 1..Len(files[f]) : files[f][k] \in Term
        BY <2>1
      <4>2. \A t \in Term : t.xorb \in Xorb
        BY DEF Term
      <4> QED
        BY <4>1, <4>2 DEF XorbsOf
    <3>2. X \subseteq Referenced
      BY <2>1 DEF Referenced
    <3> QED
      BY <3>1, <3>2, XetAssumption
  <2>3. X \subseteq xorbs /\ X \subseteq blobs /\ \A x \in X : ~Condemned(x)
    BY DEF Spared, Intact
  <2>4. XorbsOf(files'[f]) = X
    OBVIOUS
  <2>5. files' # [h \in Contents |-> None]
    BY <2>1
  <2> HIDE DEF X
  <2>6. X \subseteq xorbs' /\ X \subseteq blobs' /\ \A x \in X : ~Condemned(x)'
    BY <2>2, <2>3, <2>5, ServerStep
  <2> QED
    BY <2>1, <2>4, <2>6 DEF Spared, Intact, Registered
<1> QED
  BY <1>1, TypeCorrect, PTL DEF Spec, SparedStaysSpared

-----------------------------------------------------------------------------
(* Without collections nothing that was acknowledged dangles *)

StoredInv ==
    /\ xorbs \subseteq blobs
    /\ \A a \in Client : putting[a] # None => putting[a] \in blobs
    /\ \A f \in Registered : XorbsOf(files[f]) \subseteq xorbs

\* What a server without collections keeps: an indexed xorb is stored, and so
\* is one whose handler has still to index it, and a registered file's xorbs
\* are indexed.
LEMMA StoredInductive ==
    ASSUME Collector = {}
    PROVE  IInv /\ StoredInv /\ [Next]_vars => StoredInv'
<1> SUFFICES ASSUME IInv, StoredInv, [Next]_vars PROVE StoredInv'
  OBVIOUS
<1> USE DEF xetdVars, index, gc
<1>1. TypeOK
  BY DEF IInv
<1>2. ASSUME UNCHANGED xetdVars
      PROVE  StoredInv'
  BY <1>2 DEF StoredInv, Registered
<1>3. ASSUME \/ \E a \in Client : UploadXorb(a) \/ UploadStored(a) \/ UploadGivesWay(a)
             \/ \E x \in stray : Land(x)
      PROVE  StoredInv'
  <2>1. /\ UNCHANGED <<xorbs, files>> /\ blobs \subseteq blobs'
        /\ \A q \in Client : putting'[q] # None => putting'[q] = putting[q] \/ putting'[q] \in blobs'
    BY <1>1, <1>3 DEF UploadXorb, PutXorbFound, PutXorbMissed, UploadStored, PutXorbStored,
          UploadGivesWay, PutXorbGivesWay, Land, StrayLands, put, TypeOK, XetdTypeOK
  <2> QED
    BY <2>1 DEF StoredInv, Registered
<1>4. ASSUME NEW a \in Client, UploadIndexed(a)
      PROVE  StoredInv'
  BY <1>4, <1>1 DEF UploadIndexed, PutXorbIndex, StoredInv, Registered, TypeOK, XetdTypeOK
<1>5. ASSUME NEW a \in Client, AtRegister(a), RegisterFile(content[a], dest[a], terms[a])
      PROVE  StoredInv'
  <2>1. /\ files' = [files EXCEPT ![content[a]] = terms[a]]
        /\ UNCHANGED <<blobs, xorbs, putting>>
        /\ XorbsOf(terms[a]) \subseteq xorbs
    BY <1>5 DEF RegisterFile, Registrable, put
  <2>2. files \in [Contents -> Seq(Term) \cup {None}]
    BY <1>1 DEF TypeOK, XetdTypeOK
  <2> QED
    BY <2>1, <2>2 DEF StoredInv, Registered
<1>6. ASSUME NEW a \in Client, RequestLost(a)
      PROVE  StoredInv'
  BY <1>6, <1>1 DEF RequestLost, PutXorbDropped, StoredInv, Registered, TypeOK, XetdTypeOK
<1>7. CASE ServerRestart
  BY <1>7 DEF ServerRestart, Restart, StoredInv, Registered
<1>8. CASE UNCHANGED vars
  BY <1>8, <1>2 DEF vars
<1> QED
  BY <1>2, <1>3, <1>4, <1>5, <1>6, <1>7, <1>8
  DEF Next, Fault, GcRequest, Mark, AgentStep, StartIngest, QueryChunk, WalkHit, Register,
      RegisterRefused, RegisterReplyLost

\* While no collection runs, every registered file has all its xorbs indexed
\* and stored, whatever uploads race, requests are lost or restarts happen.
THEOREM FilesIntactWithoutCollections ==
    ASSUME Collector = {}
    PROVE  Spec => []FilesIntact
<1>1. Init => StoredInv
  BY DEF Init, XetdInit, StoredInv, Registered
<1>2. IInv /\ StoredInv /\ [Next]_vars => StoredInv'
  BY StoredInductive
<1>3. StoredInv => FilesIntact
  BY DEF StoredInv, FilesIntact, Intact
<1> QED
  BY <1>1, <1>2, <1>3, Inductive, PTL DEF Spec

-----------------------------------------------------------------------------
(* Without collections cloning is free *)

\* Terms that spell the first n chunks of a file leave none of them out: the
\* first term that ends at or behind a position begins before it.
LEMMA TilesCover ==
    ASSUME NEW ts \in Seq(Term), NEW c, NEW n \in Nat, Tiles(ts, c, n), NEW k \in 1..n
    PROVE  \E j \in 1..Len(ts) : ts[j].at < k /\ k <= ts[j].at + Width(ts[j])
<1> DEFINE S == {j \in 1..Len(ts) : k <= ts[j].at + Width(ts[j])}
<1>1. \A j \in 1..Len(ts) : ts[j].at \in Nat /\ Width(ts[j]) \in Int
  <2>1. \A j \in 1..Len(ts) : ts[j] \in Term
    OBVIOUS
  <2>2. \A t \in Term : t.at \in Nat /\ t.start \in Nat /\ t.end \in Nat
    BY DEF Term
  <2> QED
    BY <2>1, <2>2 DEF Width
<1>2. Len(ts) \in 1..Len(ts)
  <2>1. ts # <<>>
    BY DEF Tiles
  <2> QED
    BY <2>1
<1>3. Len(ts) \in S
  BY <1>2 DEF Tiles
<1>4. PICK j \in S : \A i \in S : j <= i
  <2>1. S \subseteq Nat
    OBVIOUS
  <2> QED
    BY <1>3, <2>1, LeastNat
<1>5. CASE j = 1
  BY <1>5 DEF Tiles
<1>6. CASE j > 1
  <2>1. j - 1 \in 1..Len(ts) /\ j - 1 < Len(ts) /\ (j - 1) + 1 = j
    BY <1>6
  <2>2. j - 1 \notin S
    BY <1>4, <2>1
  <2>3. ts[j - 1].at + Width(ts[j - 1]) = ts[j].at
    BY <2>1 DEF Tiles
  <2>4. ts[j].at < k
    BY <1>1, <2>1, <2>2, <2>3
  <2> QED
    BY <2>4
<1> QED
  BY <1>5, <1>6

\* Every chunk of every xorb the index knows is known to the dedup index.
DedupComplete ==
    \A x \in xorbs : \A k \in 1..Len(x) : chunk_index[x[k]] # None

LEMMA DedupCompleteStep ==
    ASSUME Collector = {}
    PROVE  TypeOK /\ DedupComplete /\ [Next]_vars => DedupComplete'
<1> SUFFICES ASSUME TypeOK, DedupComplete, [Next]_vars PROVE DedupComplete'
  OBVIOUS
<1> USE DEF xetdVars, index, gc
<1>1. ASSUME UNCHANGED <<xorbs, chunk_index>>
      PROVE  DedupComplete'
  BY <1>1 DEF DedupComplete
<1>2. ASSUME NEW a \in Client, UploadIndexed(a)
      PROVE  DedupComplete'
  <2> DEFINE x == putting[a]
  <2>1. /\ x \in Xorb /\ xorbs' = xorbs \cup {x} /\ xorbs \subseteq Xorb
        /\ chunk_index' = IndexChunks(chunk_index, x) /\ DOMAIN chunk_index = Chunk
    BY <1>2 DEF UploadIndexed, PutXorbIndex, TypeOK, XetdTypeOK
  <2> HIDE DEF x
  <2>2. \A y \in Xorb : \A k \in 1..Len(y) : y[k] \in Chunk
    BY DEF Xorb
  <2>3. \A c \in Chunk : chunk_index'[c] = IF chunk_index[c] = None /\ Holds(x, c)
                                              THEN [xorb |-> x, index |-> FirstAt(x, c)]
                                              ELSE chunk_index[c]
    BY <2>1 DEF IndexChunks
  <2>4. \A c \in Chunk : Holds(x, c) => [xorb |-> x, index |-> FirstAt(x, c)] # None
    <3> SUFFICES ASSUME NEW c \in Chunk, Holds(x, c)
                 PROVE  [xorb |-> x, index |-> FirstAt(x, c)] \in Loc
      BY XetAssumption, Zenon
    <3>1. x \in Seq(Chunk)
      BY <2>1 DEF Xorb
    <3>2. FirstAt(x, c) \in Nat
      BY <3>1, FirstAtLocates
    <3> QED
      BY <2>1, <3>2 DEF Loc
  <2>5. \A k \in 1..Len(x) : Holds(x, x[k])
    BY DEF Holds
  <2>6. \A y \in xorbs : \A k \in 1..Len(y) : chunk_index'[y[k]] # None
    BY <2>1, <2>2, <2>3, <2>4 DEF DedupComplete
  <2>7. ASSUME NEW k \in 1..Len(x)
        PROVE  chunk_index'[x[k]] # None
    <3> DEFINE c == x[k]
    <3>1. c \in Chunk /\ Holds(x, c)
      BY <2>1, <2>2, <2>5
    <3> HIDE DEF c
    <3>2. chunk_index'[c] # None
      BY <2>3, <2>4, <3>1
    <3> QED
      BY <3>2 DEF c
  <2> QED
    BY <2>1, <2>6, <2>7 DEF DedupComplete
<1>3. CASE ServerRestart
  BY <1>3 DEF ServerRestart, Restart, DedupComplete
<1> QED
  BY <1>1, <1>2, <1>3
  DEF Next, Fault, GcRequest, AgentStep, StartIngest, QueryChunk, WalkHit, UploadXorb, PutXorbFound,
      PutXorbMissed, UploadStored, PutXorbStored, UploadGivesWay, PutXorbGivesWay, Land, StrayLands,
      Register, RegisterFile, RegisterRefused, RegisterReplyLost, RequestLost, PutXorbDropped, vars

\* While no collection runs, every chunk of a registered file is known to the
\* dedup index, whichever ingests uploaded it, in whatever xorbs, and however
\* many requests were lost on the way: ingesting the content again uploads
\* nothing.
THEOREM ClonesAreFree ==
    ASSUME Collector = {}
    PROVE  Spec => []CloneIsFree
<1>1. Init => DedupComplete
  BY DEF Init, XetdInit, DedupComplete
<1>2. TypeOK /\ DedupComplete /\ [Next]_vars => DedupComplete'
  BY DedupCompleteStep
<1>3. IInv /\ DedupComplete => CloneIsFree
  <2> SUFFICES ASSUME IInv, DedupComplete, NEW f \in Registered, Intact(f), NEW k \in 1..Len(f)
               PROVE  chunk_index[f[k]] # None
    BY DEF CloneIsFree
  <2> DEFINE ts == files[f]
  <2>1. ts \in Seq(Term) /\ Tiles(ts, f, Len(f)) /\ Len(f) \in Nat
    BY XetdAssumption DEF IInv, TypeOK, XetdTypeOK, FilesDenote, Registered
  <2> HIDE DEF ts
  <2>2. PICK j \in 1..Len(ts) : ts[j].at < k /\ k <= ts[j].at + Width(ts[j])
    BY <2>1, TilesCover
  <2> DEFINE t == ts[j]
             d == k - t.at - 1
  <2>3. t \in Term /\ Spells(t, f) /\ t.xorb \in xorbs
    BY <2>1 DEF Tiles, Intact, XorbsOf, ts
  <2>4. /\ t.at \in Nat /\ t.start \in Nat /\ t.end \in Nat /\ Len(t.xorb) \in Nat
        /\ t.at < k /\ k <= t.at + (t.end - t.start) /\ t.end <= Len(t.xorb)
    BY <2>2, <2>3 DEF Term, Xorb, Spells, Width
  <2> HIDE DEF t
  <2>5. d \in 0..(Width(t) - 1) /\ t.at + d + 1 = k /\ t.start + d + 1 \in 1..Len(t.xorb)
    <3>1. k \in Nat
      BY <2>1
    <3>2. \A at, s, e, l \in Nat : at < k /\ k <= at + (e - s) /\ e <= l =>
            /\ k - at - 1 \in 0..(e - s - 1)
            /\ at + (k - at - 1) + 1 = k /\ s + (k - at - 1) + 1 \in 1..l
      BY <3>1
    <3> QED
      BY <2>4, <3>2 DEF Width
  <2>6. t.xorb[t.start + d + 1] = f[t.at + d + 1]
    BY <2>3, <2>5 DEF Spells
  <2> QED
    BY <2>3, <2>5, <2>6 DEF DedupComplete
<1> QED
  BY <1>1, <1>2, <1>3, Inductive, TypeCorrect, PTL DEF Spec

-----------------------------------------------------------------------------
(* Without collections the server is a file store *)

\* While no collection runs, the server and any number of agents implement
\* FileStore: the only steps that show are registrations, which publish the
\* file and its name together, and restarts.
THEOREM ServerImplementsFileStore ==
    ASSUME Collector = {}
    PROVE  Spec => ImplementsFileStore
<1>1. Init => StoredInv
  BY DEF Init, XetdInit, StoredInv, Registered
<1>2. IInv /\ StoredInv /\ [Next]_vars => StoredInv'
  BY StoredInductive
<1>3. Init => Store!Init
  BY DEF Init, XetdInit, Readable, Registered, Store!Init
<1>4. ASSUME IInv, StoredInv, IInv', StoredInv', [Next]_vars
      PROVE  [Store!Next]_<<Readable, catalog>>
  (* A registered file can be read back: the readable files are the registered ones. *)
  <2>1. Readable = Registered /\ Readable' = Registered'
    BY <1>4 DEF IInv, StoredInv, FilesDenote, Readable, Registered, Intact
  <2>2. files \in [Contents -> Seq(Term) \cup {None}]
    BY <1>4 DEF IInv, TypeOK, XetdTypeOK
  <2>3. ASSUME UNCHANGED <<files, catalog>>
        PROVE  UNCHANGED <<Readable, catalog>>
    BY <2>1, <2>3 DEF Registered
  <2>4. ASSUME NEW a \in Client, AtRegister(a), RegisterFile(content[a], dest[a], terms[a])
        PROVE  \E f \in Contents, p \in Path : Store!Publish(f, p)
    <3>1. content[a] \in Contents /\ dest[a] \in Path /\ terms[a] # None
      BY <1>4, <2>4, XetAssumption DEF IInv, TypeOK, AtRegister, Walking
    <3>2. Registered' = Registered \cup {content[a]}
      BY <2>2, <2>4, <3>1 DEF Registered, RegisterFile
    <3> QED
      BY <2>1, <2>4, <3>1, <3>2 DEF RegisterFile, Store!Publish
  <2>5. CASE ServerRestart
    <3>1. catalog' = [p \in Path |-> None] /\ Registered' = {}
      BY <2>5 DEF ServerRestart, Restart, Registered
    <3> QED
      BY <2>1, <3>1 DEF Store!Next, Store!Forget
  <2>6. ASSUME NEW a \in Client, AgentStep(a) \/ RequestLost(a) \/ RegisterReplyLost(a)
        PROVE  [Store!Next]_<<Readable, catalog>>
    <3>1. CASE Register(a) \/ RegisterReplyLost(a)
      BY <2>4, <3>1 DEF Register, RegisterReplyLost, Store!Next
    <3>2. CASE ~(Register(a) \/ RegisterReplyLost(a))
      BY <2>3, <2>6, <3>2 DEF AgentStep, QueryChunk, WalkHit, UploadXorb, PutXorbFound, PutXorbMissed,
            UploadStored, PutXorbStored, UploadGivesWay, PutXorbGivesWay, UploadIndexed, PutXorbIndex,
            RegisterRefused, RequestLost, PutXorbDropped, xetdVars, index
    <3> QED
      BY <3>1, <3>2
  <2>7. ASSUME \/ \E a \in Client, f \in Contents, p \in Path : StartIngest(a, f, p)
               \/ \E x \in stray : Land(x)
        PROVE  UNCHANGED <<Readable, catalog>>
    BY <2>3, <2>7 DEF StartIngest, Land, StrayLands, xetdVars, index
  <2>8. CASE UNCHANGED vars
    BY <2>3, <2>8 DEF vars, xetdVars
  <2> QED
    BY <1>4, <2>5, <2>6, <2>7, <2>8 DEF Next, Fault, GcRequest, Store!Next
<1> QED
  BY <1>1, <1>2, <1>3, <1>4, Inductive, PTL DEF Spec, ImplementsFileStore, Store!Spec

-----------------------------------------------------------------------------
(* One collection at a time: store-then-index against delete-then-forget *)

\* For the only collector g and a xorb whose puts kept their word.  If indexed
\* it is stored or about to be forgotten; if on the sweep list it is stored; and
\* if in the put handler it is stored, is not on the sweep list, is in the index
\* only if the collector is about to take it out, and is in no second handler.
SweptSafely(g, x) ==
    /\ x \in xorbs => x \in blobs \/ deleted[g] = x
    /\ x \in todo[g] => x \in blobs
    /\ \A a \in Client : putting[a] = x =>
         /\ x \in blobs
         /\ x \notin todo[g]
         /\ x \in xorbs => deleted[g] = x
         /\ \A b \in Client : putting[b] = x => a = b

SweepInv(g) == \A x \in Xorb \ doubled : SweptSafely(g, x)

\* With a single collector that runs to completion, every step keeps SweepInv.
LEMMA SweepInductive ==
    ASSUME NEW g, Collector = {g}, "gc_dropped" \notin Faults,
           TypeOK, SweepInv(g), [Next]_vars
    PROVE  SweepInv(g)'
<1> USE DEF xetdVars, index, gc, put
<1>1. /\ g \in Collector
      /\ putting \in [Client -> Xorb \cup {None}] /\ xorbs \subseteq Xorb
      /\ DOMAIN todo = Collector /\ todo[g] \subseteq Xorb
      /\ deleted \in [Collector -> Xorb \cup {None}]
      /\ None \notin Xorb
  BY XetAssumption DEF TypeOK, XetdTypeOK
(* A xorb of which no put breaks its word in this step. *)
<1>2. SUFFICES ASSUME NEW x \in Xorb, x \notin doubled', x \notin doubled => SweptSafely(g, x)
               PROVE  SweptSafely(g, x)'
  BY DEF SweepInv
<1>3. ASSUME x \notin doubled, blobs \subseteq blobs', UNCHANGED <<xorbs, putting, todo, deleted>>
      PROVE  SweptSafely(g, x)'
  BY <1>2, <1>3 DEF SweptSafely
<1>4. ASSUME NEW a \in Client, UploadStored(a)
      PROVE  SweptSafely(g, x)'
  <2>1. /\ x \notin doubled /\ ~(x = storing[a] /\ x \in blobs)
        /\ blobs' = blobs \cup {storing[a]} /\ UNCHANGED <<xorbs, todo, deleted>>
        /\ putting'[a] = storing[a] /\ \A q \in Client \ {a} : putting'[q] = putting[q]
    BY <1>1, <1>2, <1>4 DEF UploadStored, PutXorbStored
  <2> QED
    BY <1>2, <2>1 DEF SweptSafely
<1>5. ASSUME NEW a \in Client, UploadIndexed(a)
      PROVE  SweptSafely(g, x)'
  <2>1. /\ x \notin doubled
        /\ putting[a] # None /\ xorbs' = xorbs \cup {putting[a]}
        /\ UNCHANGED <<blobs, todo, deleted>>
        /\ putting'[a] = None /\ \A q \in Client \ {a} : putting'[q] = putting[q]
    BY <1>1, <1>2, <1>5 DEF UploadIndexed, PutXorbIndex
  <2> QED
    BY <1>1, <1>2, <2>1 DEF SweptSafely
<1>6. ASSUME NEW a \in Client, RequestLost(a)
      PROVE  SweptSafely(g, x)'
  <2>1. /\ x \notin doubled /\ UNCHANGED <<blobs, xorbs, todo, deleted>>
        /\ putting'[a] = None /\ \A q \in Client \ {a} : putting'[q] = putting[q]
    BY <1>1, <1>2, <1>6 DEF RequestLost, PutXorbDropped
  <2> QED
    BY <1>1, <1>2, <2>1 DEF SweptSafely
<1>7. ASSUME Mark(g)
      PROVE  SweptSafely(g, x)'
  <2>1. /\ x \notin doubled
        /\ UNCHANGED <<blobs, xorbs, putting, deleted>> /\ deleted[g] = None
        /\ todo'[g] \subseteq xorbs
    BY <1>1, <1>2, <1>7 DEF Mark, GcMark, Collecting
  <2> QED
    BY <1>1, <1>2, <2>1 DEF SweptSafely
<1>8. ASSUME SweepStep(g)
      PROVE  SweptSafely(g, x)'
  <2>1. CASE \E y \in todo[g] : GcDelete(g, y) \/ GcDeleteFails(g, y)
    <3>1. PICK y \in todo[g] : Sweep(g, y, blobs \ {y}) \/ Sweep(g, y, blobs)
      BY <2>1 DEF GcDelete, GcDeleteFails
    <3>2. /\ x \notin doubled
          /\ blobs \ {y} \subseteq blobs' /\ deleted[g] = None /\ deleted'[g] = y
          /\ todo'[g] = todo[g] \ {y} /\ UNCHANGED <<xorbs, putting>>
      BY <1>1, <1>2, <3>1 DEF Sweep
    <3> QED
      BY <1>1, <1>2, <3>2 DEF SweptSafely
  <2>2. CASE GcForget(g)
    <3>1. /\ x \notin doubled
          /\ deleted[g] # None /\ xorbs' = xorbs \ {deleted[g]} /\ deleted'[g] = None
          /\ UNCHANGED <<blobs, putting, todo>>
      BY <1>1, <1>2, <2>2 DEF GcForget
    <3> QED
      BY <1>2, <3>1 DEF SweptSafely
  <2> QED
    BY <1>8, <2>1, <2>2 DEF SweepStep
<1>9. ASSUME ServerRestart
      PROVE  SweptSafely(g, x)'
  BY <1>1, <1>9 DEF ServerRestart, Restart, SweptSafely
<1>10. ASSUME NEW h \in Collector, GcDropped(h)
       PROVE  FALSE
  BY <1>10 DEF GcDropped
<1>11. ASSUME \/ \E a \in Client : UploadXorb(a) \/ UploadGivesWay(a)
              \/ \E y \in stray : Land(y)
       PROVE  SweptSafely(g, x)'
  BY <1>2, <1>3, <1>11 DEF UploadXorb, PutXorbFound, PutXorbMissed, UploadGivesWay, PutXorbGivesWay,
        Land, StrayLands
<1> QED
  BY <1>1, <1>2, <1>3, <1>4, <1>5, <1>6, <1>7, <1>8, <1>9, <1>10, <1>11
  DEF Next, Fault, GcRequest, Mark, AgentStep, StartIngest, QueryChunk, WalkHit, Register,
      RegisterRefused, RegisterReplyLost, RegisterFile, vars

\* While collections come one at a time and run to completion, an indexed xorb
\* of which no blob.put answered true although it was there is stored, but for
\* the moment between its deletion and its removal from the index, however
\* uploads of it, failed checks and late writes interleave with the sweep.
THEOREM IndexedIsStoredUnderOneCollector ==
    ASSUME NEW g, Collector = {g}, "gc_dropped" \notin Faults
    PROVE  Spec => []IndexedIsStored
<1>1. Init => SweepInv(g)
  BY XetAssumption DEF Init, XetdInit, SweepInv, SweptSafely
<1>2. TypeOK /\ SweepInv(g) /\ [Next]_vars => SweepInv(g)'
  BY SweepInductive
<1>3. TypeOK /\ SweepInv(g) => IndexedIsStored
  BY DEF SweepInv, SweptSafely, IndexedIsStored, StoredOrGoing, TypeOK, XetdTypeOK
<1> QED
  BY <1>1, <1>2, <1>3, TypeCorrect, PTL DEF Spec
=============================================================================
