---------------------------- MODULE MCLogIngest -----------------------------
(* LogIngest for TLC: a chunk has three lines, one of each kind. *)
EXTENDS LogIngest

CONSTANTS c1, full, empty, bad
=============================================================================
