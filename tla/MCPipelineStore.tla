-------------------------- MODULE MCPipelineStore --------------------------
(* PipelineStore for TLC: request slots and ids are model values. *)
EXTENDS PipelineStore

CONSTANTS r1, r2, a, b
=============================================================================
