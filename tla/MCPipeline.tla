------------------------------ MODULE MCPipeline -------------------------------
(***************************************************************************)
(* Instances of Pipeline: two pools, windows of 10 seconds, a block with   *)
(* logs of both, windows that span two batches, one that starts in the     *)
(* batch another ends in.                                                  *)
(***************************************************************************)
EXTENDS Pipeline

CONSTANTS a, b

LogAt(block, pool, ts) == [block |-> block, pool |-> pool, ts |-> ts]

FiveLogs == <<LogAt(1, a, 15), LogAt(2, a, 22), LogAt(2, b, 25), LogAt(3, a, 27), LogAt(4, a, 31)>>
=============================================================================
