----------------------------- MODULE MCIngestor -----------------------------
(* Ingestor for TLC: model values for its sets. *)
EXTENDS Ingestor

CONSTANTS e1, w1, i1, i2, h1
=============================================================================
