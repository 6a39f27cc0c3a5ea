-------------------------- MODULE PipelineRegistry --------------------------
(***************************************************************************)
(* What the pipeline service promises of its set of pipelines, without     *)
(* locks, requests or files: pipelines are added under new names and       *)
(* removed one at a time, and a restart of the service brings back a set   *)
(* it had before - never a mixture of several, never a pipeline nobody     *)
(* created.                                                                *)
(***************************************************************************)

CONSTANT Ids

VARIABLES
  live,   \* the ids of the registered pipelines
  past    \* every value live has had

rvars == <<live, past>>

Init == live = {} /\ past = {{}}

Add(id) ==
  /\ id \notin UNION past
  /\ live' = live \union {id}
  /\ past' = past \union {live'}

Remove(id) ==
  /\ id \in live
  /\ live' = live \ {id}
  /\ past' = past \union {live'}

Restart == live' \in past /\ UNCHANGED past

Next == Restart \/ \E id \in Ids : Add(id) \/ Remove(id)

Spec == Init /\ [][Next]_rvars

=============================================================================
