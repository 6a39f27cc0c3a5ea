---------------------------- MODULE MCWorkerPool ----------------------------
(* WorkerPool for TLC: goroutines and entries are model values. *)
EXTENDS WorkerPool

CONSTANTS e1, e2, e3, w1, w2, i1, i2, h1
=============================================================================
