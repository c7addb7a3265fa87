-------------------------------- MODULE Xet --------------------------------
(***************************************************************************)
(* The data of the Xet protocol as xetd and xet-agent handle it: chunks,   *)
(* xorbs, dedup locations, reconstruction terms, and the runs into which   *)
(* the agent cuts a chunk list.                                            *)
(*                                                                         *)
(* Hashes are collision free here, so a hash is identified with what it is *)
(* the hash of: a xorb hash with the xorb's chunk sequence, a file hash    *)
(* with the file's chunk sequence, a chunk hash with the chunk.  The       *)
(* integrity gate of put_xorb (recomputed Merkle root = hash in the URL)   *)
(* is what makes this identification sound for stored xorbs.               *)
(*                                                                         *)
(* Chunk indices, term ranges and file positions are 0-based and half open *)
(* as in the code; chunk number i of a sequence c is c[i + 1].             *)
(***************************************************************************)
EXTENDS Integers, Sequences, FiniteSetsExt

CONSTANTS Chunk,            \* chunk hashes
          Size,             \* uncompressed length of a chunk
          MaxXorbChunks,    \* MAX_XORB_CHUNKS
          MaxXorbBytes,     \* MAX_XORB_UNCOMPRESSED
          None              \* Rust's None: no such entry

\* A packed xorb holds at least one chunk.
Xorb == Seq(Chunk) \ {<<>>}

\* struct ChunkLoc: the xorb and the index in it at which a chunk lives.
Loc == [xorb : Xorb, index : Nat]

\* struct Term: chunks start .. end-1 of a xorb.  The field `at' is a history
\* field no operation reads: the file position at which ingest_bytes pushed
\* the term (its loop variable i).
Term == [xorb : Xorb, start : Nat, end : Nat, at : Nat]

ASSUME XetAssumption ==
    /\ Size \in [Chunk -> Nat \ {0}]
    /\ MaxXorbChunks \in Nat \ {0}
    /\ MaxXorbBytes \in Nat \ {0}
    /\ None \notin Xorb
    /\ None \notin Loc
    /\ None \notin Seq(Term)

-----------------------------------------------------------------------------
(* Index::index_chunks *)

Holds(x, c) == \E k \in 1..Len(x) : x[k] = c

\* 0-based index of the first occurrence of chunk c in xorb x: the enumerate()
\* loop meets it first and or_insert keeps it.
FirstAt(x, c) ==
    CHOOSE i \in 0..(Len(x) - 1) : /\ x[i + 1] = c
                                   /\ \A h \in 0..(i - 1) : x[h + 1] # c

\* A plausible slip: only the first chunk of the xorb is indexed.
IndexFirstChunkOnly(ci, x) ==
    [c \in DOMAIN ci |-> IF ci[c] = None /\ x[1] = c
                            THEN [xorb |-> x, index |-> 0]
                            ELSE ci[c]]

\* The dedup index ci after every chunk of xorb x has been offered to it.  An
\* entry that exists is kept (or_insert).
IndexChunks(ci, x) ==
    [c \in DOMAIN ci |-> IF ci[c] = None /\ Holds(x, c)
                            THEN [xorb |-> x, index |-> FirstAt(x, c)]
                            ELSE ci[c]]

-----------------------------------------------------------------------------
(* The two run-finding loops of ingest_bytes, over the chunk list c of the   *)
(* file, the answers ls of the dedup queries, and the loop variables i, j.   *)

\* The d-th location after l in the same xorb.
Shift(l, d) == [xorb |-> l.xorb, index |-> l.index + d]

\* A plausible slip: the run goes on as long as the xorb is the same, whether
\* or not the indices are consecutive.
HitRunSameXorb(ls, i, j) ==
    /\ ls[i + 1] # None
    /\ \A k \in i..(j - 1) : ls[k + 1] # None /\ ls[k + 1].xorb = ls[i + 1].xorb
    /\ j < Len(ls) => (ls[j + 1] # None => ls[j + 1].xorb # ls[i + 1].xorb)

\* i .. j-1 is the maximal run of hits that starts at i: same xorb,
\* consecutive indices.
HitRun(ls, i, j) ==
    /\ ls[i + 1] # None
    /\ \A k \in i..(j - 1) : ls[k + 1] = Shift(ls[i + 1], k - i)
    /\ j < Len(ls) => ls[j + 1] # Shift(ls[i + 1], j - i)

Bytes(c, i, j) == MapThenSumSet(LAMBDA k : Size[c[k]], (i + 1)..j)

\* Chunks i .. j-1 fit into one xorb.
Fits(c, i, j) == j - i <= MaxXorbChunks /\ Bytes(c, i, j) <= MaxXorbBytes

\* A plausible slip: a chunk larger than the cap fits into no xorb.
NovelRunWithinCap(c, ls, i, j) ==
    /\ \A k \in i..(j - 1) : ls[k + 1] = None
    /\ Fits(c, i, j)
    /\ j < Len(ls) => ls[j + 1] # None \/ ~Fits(c, i, j + 1)

\* i .. j-1 is the maximal run of novel chunks that starts at i and respects
\* the caps; one chunk is taken even if it is larger than the cap.
NovelRun(c, ls, i, j) ==
    /\ \A k \in i..(j - 1) : ls[k + 1] = None
    /\ j = i + 1 \/ Fits(c, i, j)
    /\ j < Len(ls) => ls[j + 1] # None \/ ~Fits(c, i, j + 1)

-----------------------------------------------------------------------------
(* What locations and terms mean. *)

\* Chunk c sits in l's xorb at l's index.
Locates(l, c) == l.index < Len(l.xorb) /\ l.xorb[l.index + 1] = c

Width(t) == t.end - t.start

\* The chunks a term stands for are those of c at the term's file position,
\* and its range lies inside its xorb.
Spells(t, c) ==
    /\ t.start < t.end
    /\ t.end <= Len(t.xorb)
    /\ t.at + Width(t) <= Len(c)
    /\ \A d \in 0..(Width(t) - 1) : t.xorb[t.start + d + 1] = c[t.at + d + 1]

\* The terms ts, read in order, spell out exactly the first n chunks of c.
Tiles(ts, c, n) ==
    /\ ts = <<>> => n = 0
    /\ \A k \in 1..Len(ts) : Spells(ts[k], c)
    /\ \A k \in 1..Len(ts) : k = 1 => ts[k].at = 0
    /\ \A k \in 1..Len(ts) : k = Len(ts) => ts[k].at + Width(ts[k]) = n
    /\ \A k \in 1..Len(ts) : k < Len(ts) => ts[k].at + Width(ts[k]) = ts[k + 1].at

\* The xorbs a term list references.
XorbsOf(ts) == {ts[k].xorb : k \in 1..Len(ts)}
=============================================================================
