------------------------------ MODULE MCAggregator -----------------------------
(***************************************************************************)
(* An instance of Aggregator with windows of 10 seconds: two pools with    *)
(* rows and one without metadata, events that share a block, a malformed   *)
(* swap.                                                                   *)
(***************************************************************************)
EXTENDS Aggregator

CONSTANTS a, b, c

Event(pool, ts, block) == [pool |-> pool, ts |-> ts, block |-> block, ok |-> TRUE]
Malformed(pool, ts, block) == [Event(pool, ts, block) EXCEPT !.ok = FALSE]

Events8 == <<Event(a, 20, 1), Event(b, 20, 1), Malformed(a, 25, 2), Event(c, 27, 3),
             Event(a, 31, 4), Event(b, 42, 5), Event(a, 49, 6), Event(b, 50, 7)>>

\* The input always ends where a window ends.
WholeWindows == {4, 5, 7, 8}
WindowBoundaries == {0, 20, 40}

LacksMeta == {c}

\* The input the theorems of AggregatorProofs are about.
ASSUME InputIsOrderly == OrderlyInput
=============================================================================
