------------------------------- MODULE MCReorg --------------------------------
(***************************************************************************)
(* A chain of four blocks whose last two may be replaced: a transaction    *)
(* that stays at its place, one that moves to the next block, one that is  *)
(* dropped, a block that becomes empty; the time stamps of all versions    *)
(* differ.                                                                 *)
(***************************************************************************)
EXTENDS Reorg

FourBlocks ==
  [b \in Blocks |-> [v \in Versions |->
     CASE b = 1 -> <<"t1">>
       [] b = 2 -> IF v = 0 THEN <<"t2", "t3">> ELSE <<"t2">>
       [] b = 3 -> IF v = 1 THEN <<"t3", "t4">> ELSE << >>
       [] b = 4 -> <<"t5">>]]

\* A later version of a block may be older than an earlier one of the block before.
AllDiffer == [b \in Blocks |-> [v \in Versions |-> 10 * b + 7 * v]]

\* Everything up to the latest block, and a fixed range.
LatestAndFixed == {[from |-> 1, to |-> 0], [from |-> 2, to |-> 3]}
=============================================================================
