-------------------------- MODULE MCAggregatorGrowth ---------------------------
(***************************************************************************)
(* An instance of Aggregator whose input grows inside a window of 10       *)
(* seconds: the second event is appended after the first run.              *)
(***************************************************************************)
EXTENDS Aggregator

CONSTANT a

Event(pool, ts, block) == [pool |-> pool, ts |-> ts, block |-> block, ok |-> TRUE]
OneWindow == <<Event(a, 20, 1), Event(a, 25, 2)>>
Growing == {1, 2}
NoRecompute == {0}
AllHaveMeta == {}
=============================================================================
