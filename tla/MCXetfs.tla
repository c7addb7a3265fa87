------------------------------ MODULE MCXetfs ------------------------------
(***************************************************************************)
(* A small instance of Xetfs for TLC: contents of up to two bytes, so that *)
(* a write can overwrite, extend or leave a gap, and two handles.          *)
(***************************************************************************)
EXTENDS Xetfs

MCByte == {0, 1}
=============================================================================
