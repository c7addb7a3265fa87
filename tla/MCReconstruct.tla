--------------------------- MODULE MCReconstruct ---------------------------
(***************************************************************************)
(* Small instances of Reconstruct for TLC: one agent and one reader, and a *)
(* content with a repeated chunk next to one that shares chunks with it.   *)
(***************************************************************************)
EXTENDS Reconstruct

CONSTANTS a, b

MCSize == [c \in Chunk |-> 1]

MCPacked == [c \in Chunk |-> IF c = a THEN 2 ELSE 1]

MCContents == {<<a, b, b>>, <<b>>}
=============================================================================
