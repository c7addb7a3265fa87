------------------------------ MODULE MCServe ------------------------------
(***************************************************************************)
(* Small instances of the blob stores for TLC: two pages make a torn file, *)
(* and one inode more than writers lets every open find a fresh file.      *)
(***************************************************************************)
EXTENDS Serve

CONSTANTS i1, i2, i3, i4

TwoInodes == {i1, i2}

FourInodes == {i1, i2, i3, i4}
=============================================================================
