-------------------------- MODULE MCDeadLetterQueue --------------------------
(* DeadLetterQueue for TLC: logs and requests are model values. *)
EXTENDS DeadLetterQueue

CONSTANTS l1, l2, l3, r1, r2
=============================================================================
