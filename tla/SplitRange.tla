------------------------------ MODULE SplitRange ------------------------------
(***************************************************************************)
(* SplitRange of internal/indexer/range.go: the loop that cuts the         *)
(* inclusive block range from..to into batches of batchSize blocks.        *)
(* Block numbers are Go uint64 values: every addition and subtraction of   *)
(* the loop is taken modulo MaxUint + 1.  (SplitInit, SplitNext and so on  *)
(* are named for the module, so that one module can extend several.)       *)
(***************************************************************************)
EXTENDS Integers, Sequences

CONSTANT MaxUint            \* the largest value of the block number type
ASSUME MaxUintAssumption == MaxUint \in Nat \ {0}

Uint == 0..MaxUint
Wrap(n) == n % (MaxUint + 1)

BlockRange == [From : Uint, To : Uint]

VARIABLES
  from, to, batchSize,      \* the arguments
  start,                    \* first block that is in no batch yet
  ranges,                   \* the batches cut so far
  at                        \* "loop" until the call returns "ranges" or "error"

args == <<from, to, batchSize>>
splitVars == <<from, to, batchSize, start, ranges, at>>

BadArguments == batchSize = 0 \/ to < from

SplitInit ==
  /\ from \in Uint /\ to \in Uint /\ batchSize \in Uint
  /\ start = from
  /\ ranges = << >>
  /\ at = IF BadArguments THEN "error" ELSE "loop"

Remaining == Wrap(to - start + 1)

EndTooFar ==                \* mutant of End: one block too many
  IF Remaining <= batchSize THEN to ELSE Wrap(start + batchSize)

End == IF Remaining <= batchSize THEN to ELSE Wrap(start + batchSize - 1)

\* What follows the append when the loop does not break: start = end + 1 and
\* the loop condition start <= to, evaluated on the new start.
MoveStartTo(s) ==
  /\ start' = s
  /\ at' = IF s <= to THEN "loop" ELSE "ranges"

BreakDropped ==             \* mutant of LastBatch: no break when end = to
  /\ at = "loop"
  /\ End = to
  /\ ranges' = Append(ranges, [From |-> start, To |-> to])
  /\ MoveStartTo(Wrap(to + 1))
  /\ UNCHANGED args

\* The batch that ends the range: the loop breaks and leaves start alone.
LastBatch ==
  /\ at = "loop"
  /\ End = to
  /\ ranges' = Append(ranges, [From |-> start, To |-> to])
  /\ at' = "ranges"
  /\ UNCHANGED <<args, start>>

SkipsOneBlock ==            \* mutant of NextBatch: start = end + 2
  /\ at = "loop"
  /\ End # to
  /\ ranges' = Append(ranges, [From |-> start, To |-> End])
  /\ MoveStartTo(Wrap(End + 2))
  /\ UNCHANGED args

NextBatch ==
  /\ at = "loop"
  /\ End # to
  /\ ranges' = Append(ranges, [From |-> start, To |-> End])
  /\ MoveStartTo(Wrap(End + 1))
  /\ UNCHANGED args

SplitNext == LastBatch \/ NextBatch

SplitSpec == SplitInit /\ [][SplitNext]_splitVars
-----------------------------------------------------------------------------
\* The Go types of the arguments, the locals and the result.
SplitTypeOK ==
  /\ from \in Uint /\ to \in Uint /\ batchSize \in Uint
  /\ start \in Uint
  /\ ranges \in Seq(BlockRange)
  /\ at \in {"loop", "ranges", "error"}

Adjacent == \A i \in 1..Len(ranges) - 1 : ranges[i + 1].From = ranges[i].To + 1

InRange ==
  \A i \in 1..Len(ranges) :
    /\ from <= ranges[i].From
    /\ ranges[i].From <= ranges[i].To
    /\ ranges[i].To <= to

(***************************************************************************)
(* Whatever the loop has cut so far is a gapless, overlap-free cover of a  *)
(* prefix of from..to, and of all of from..to once it returns: the runner  *)
(* asks the node for every block exactly once, and for no other.           *)
(***************************************************************************)
Covers ==
  /\ Adjacent
  /\ InRange
  /\ Len(ranges) > 0 => ranges[1].From = from
  /\ at = "ranges" => Len(ranges) > 0 /\ ranges[Len(ranges)].To = to
  /\ at = "error" => ranges = << >>

FitsBatch(r) == r.To - r.From < batchSize

(***************************************************************************)
(* No batch is longer than batchSize, the limit the operator sets for one  *)
(* eth_getLogs call (the batch-size flag).  One call is excluded: the full *)
(* range 0..MaxUint, where remaining wraps to 0.                           *)
(***************************************************************************)
BatchesFit ==
  (from > 0 \/ to < MaxUint) => \A i \in 1..Len(ranges) : FitsBatch(ranges[i])

(***************************************************************************)
(* Every iteration that does not end the loop moves start forward, also    *)
(* when to is the largest block number and end + 1 would wrap to 0: the    *)
(* variant that makes the loop terminate.                                  *)
(***************************************************************************)
LoopVariant == [][at' = "loop" => start < start']_splitVars
=============================================================================
