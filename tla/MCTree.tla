------------------------------- MODULE MCTree -------------------------------
(***************************************************************************)
(* A small instance of Tree for TLC: two names, used at three depths, so   *)
(* that a directory contains one of its own name; a key without a leading  *)
(* slash next to the same key with one; and the bare slash.                *)
(***************************************************************************)
EXTENDS Tree

CONSTANTS x, y

MCKey ==
    [abs : {TRUE}, comps : {<<>>, <<x>>, <<y>>, <<x, y>>, <<x, x, y>>}]
        \cup [abs : {FALSE}, comps : {<<y>>}]
=============================================================================
