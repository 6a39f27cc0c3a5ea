--------------------------- MODULE MCChConnection ---------------------------
(* ChConnection for TLC: the insert workers are model values. *)
EXTENDS ChConnection

CONSTANTS w1, w2
=============================================================================
