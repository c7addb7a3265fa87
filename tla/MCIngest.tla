------------------------------ MODULE MCIngest ------------------------------
(***************************************************************************)
(* Small instances of Ingest for TLC.  Two chunks, one twice as long as    *)
(* the other, are enough for hit runs, novel runs, nested runs and a byte  *)
(* cap that bites; two agents for every race between two uploads.          *)
(***************************************************************************)
EXTENDS Ingest
LOCAL INSTANCE TLC

CONSTANTS a, b

MCSize == [c \in Chunk |-> IF c = a THEN 1 ELSE 2]

\* A content with a repeated chunk, and one with the same chunks in another order.
RichContents == {<<a, b, b>>, <<b, a>>}

\* A content and its suffix.
TwoContents == {<<a, b>>, <<b>>}

OneContent == {<<a, b>>}

\* One chunk, above the cap in `progress': each run is a xorb of its own, and
\* a content can need the same xorb twice.
OverCap == {<<b, b>>, <<b>>}

Symmetry == Permutations(Client) \cup Permutations(Collector)
=============================================================================
