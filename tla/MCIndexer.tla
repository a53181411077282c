------------------------------- MODULE MCIndexer ------------------------------
(***************************************************************************)
(* Instances of Indexer on a chain of four blocks, 0 to 3, with logs in    *)
(* blocks 0, 1, 1 and 3 (a block without logs, one with two).              *)
(***************************************************************************)
EXTENDS Indexer

ChainBlocks == <<0, 1, 1, 3>>
LastBlock == 3

InOrder(first, last) ==
  SelectSeq([i \in Logs |-> i], LAMBDA i : i \in LogsIn(first, last))

\* The node lists the logs in order, or also repeats one of them at the end.
OneRepeated(first, last) ==
  LET s == InOrder(first, last)
  IN  {s} \cup {Append(s, s[k]) : k \in DOMAIN s}

\* Follow the chain, or backfill part of it, with the same checkpoint file.
Mixed == {[from |-> 0, to |-> 0], [from |-> 1, to |-> 3], [from |-> 2, to |-> 0]}
=============================================================================
