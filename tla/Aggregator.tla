------------------------------ MODULE Aggregator ------------------------------
(***************************************************************************)
(* The aggregate command: Aggregator.Run of internal/aggregate with its    *)
(* accumulators, the upserts of internal/storage/postgres and the state    *)
(* store.  Processes run one after the other; each may be killed or fail   *)
(* at any step, and the next one resumes from the saved time stamp, on an  *)
(* input that may have grown, or from the time given by --recompute-from.  *)
(*                                                                         *)
(* An upsert is one transaction; that its commit may fail unnoticed is in  *)
(* module Pipeline.  Saving the state is atomic in Postgres, and in a file *)
(* by module StateFile.                                                    *)
(***************************************************************************)
EXTENDS WindowFeed, FiniteSetsExt

CONSTANTS
  Cuts,                 \* the lengths the input may have when a run starts
  RecomputeChoices,     \* values of --recompute-from, 0 for none
  BatchSize,
  MaxRuns               \* bound on the number of processes
ASSUME AggregatorAssumption ==
  /\ Cuts \subseteq 0..Len(Feed) /\ Cuts # {}
  /\ RecomputeChoices \subseteq Nat
  /\ BatchSize \in Nat \ {0} /\ MaxRuns \in Nat

\* What the rows' exactness rests on: blocks in order and none without a number, inputs
\* and recomputations that end and begin with a window, and no window at the epoch.
OrderlyInput ==
  /\ SortedFeed
  /\ \A i \in DOMAIN Feed : Feed[i].block > 0 /\ WindowOf(Feed[i].ts) > 1
  /\ \A c \in Cuts : EndsWindow(c)
  /\ \A r \in RecomputeChoices : r > 0 => Separates(r - 1)

None == -1              \* no saved state
Pools == {Feed[i].pool : i \in Events}

VARIABLES
  \* the input file
  len,
  \* stored
  rows,                 \* pool_window_metrics: function from keys to rows
  firstSeen,            \* pools: function from pools to first_seen_block
  state,                \* last_processed_ts, or None
  \* the process
  pc,
  recomputeFrom, startTs, maxTs,
  pos,                  \* lines scanned
  accs,                 \* a.accumulators: function from pools
  batch, pools,         \* metrics and pool records not stored yet
  poolSeen,             \* a.poolSeen: function from pools to FirstSeenBlock
  \* history
  runs, result

stored == <<rows, firstSeen, state>>
times == <<recomputeFrom, startTs, maxTs>>
pending == <<batch, pools, poolSeen>>
vars == <<len, stored, pc, times, pos, accs, pending, runs, result>>

Init ==
  /\ len \in Cuts
  /\ rows = << >> /\ firstSeen = << >> /\ state = None
  /\ pc = "down"
  /\ recomputeFrom = 0 /\ startTs = 0 /\ maxTs = 0
  /\ pos = 0 /\ accs = << >>
  /\ batch = << >> /\ pools = << >> /\ poolSeen = << >>
  /\ runs = 0 /\ result = "none"
-----------------------------------------------------------------------------
\* The decode command rewrites the input with more events, between two runs.
InputGrows ==
  /\ pc = "down"
  /\ len' \in {c \in Cuts : c > len}
  /\ UNCHANGED <<stored, pc, times, pos, accs, pending, runs, result>>

\* A recomputation starts within what has been aggregated.
RecomputesThePast(r) == r = 0 \/ r <= state + 1

StartProcess(r) ==
  /\ pc = "down" /\ runs < MaxRuns /\ RecomputesThePast(r)
  /\ runs' = runs + 1 /\ result' = "none"
  /\ recomputeFrom' = r /\ pc' = "load"
  /\ startTs' = 0 /\ maxTs' = 0
  /\ pos' = 0 /\ accs' = << >>
  /\ batch' = << >> /\ pools' = << >> /\ poolSeen' = << >>
  /\ UNCHANGED <<len, stored>>

LoadStartTimestamp ==
  /\ pc = "load"
  /\ startTs' = CASE recomputeFrom > 0 -> recomputeFrom - 1
                  [] recomputeFrom = 0 /\ state = None -> 0
                  [] OTHER -> state
  /\ maxTs' = startTs'
  /\ pc' = "scan"
  /\ UNCHANGED <<len, stored, recomputeFrom, pos, accs, pending, runs, result>>
-----------------------------------------------------------------------------
MaxOf(a, b) == IF a >= b THEN a ELSE b

NewAccumulator(r) ==
  [window |-> WindowOf(r.ts), events |-> {}, lastBlock |-> r.block, lastTs |-> r.ts,
   firstBlock |-> r.block]

\* AddEvent of the i-th record; the blocks and times count malformed swaps too.
AddEvent(a, i) ==
  LET r == Feed[i]
  IN  [a EXCEPT !.events = IF r.ok THEN @ \cup {i} ELSE @,
                !.lastBlock = IF r.ts >= a.lastTs THEN r.block ELSE @,
                !.lastTs = MaxOf(@, r.ts),
                !.firstBlock = IF @ = 0 \/ r.block < @ THEN r.block ELSE @]

\* f with x mapped to v.
Put(f, x, v) == [y \in DOMAIN f \cup {x} |-> IF y = x THEN v ELSE f[y]]

\* registerPool: the record is due the first time, and when it moves back.
Registers(p, a) == p \notin DOMAIN poolSeen \/ poolSeen[p] > a.firstBlock

Row(a) == [events |-> a.events, tvlBlock |-> a.lastBlock]

\* flushAccumulator of the accumulator of pool p.
Flush(p) ==
  IF p \in NoMeta THEN UNCHANGED pending
  ELSE
    /\ batch' = Append(batch, [key |-> <<p, accs[p].window>>, row |-> Row(accs[p])])
    /\ IF Registers(p, accs[p])
       THEN /\ pools' = Append(pools, [pool |-> p, block |-> accs[p].firstBlock])
            /\ poolSeen' = Put(poolSeen, p, accs[p].firstBlock)
       ELSE UNCHANGED <<pools, poolSeen>>

SkipRecord ==
  /\ pc = "scan" /\ pos < len
  /\ Feed[pos + 1].ts <= startTs
  /\ pos' = pos + 1
  /\ UNCHANGED <<len, stored, pc, times, accs, pending, runs, result>>

\* Record i goes into the open window of its pool, opens the first one, or
\* closes the open window, be it earlier or later, and opens its own.
AddToWindow(i) ==
  LET p == Feed[i].pool
  IN  /\ p \in DOMAIN accs /\ accs[p].window = WindowOf(Feed[i].ts)
      /\ accs' = Put(accs, p, AddEvent(accs[p], i))
      /\ UNCHANGED pending

OpenWindow(i) ==
  LET p == Feed[i].pool
  IN  /\ p \notin DOMAIN accs
      /\ accs' = Put(accs, p, AddEvent(NewAccumulator(Feed[i]), i))
      /\ UNCHANGED pending

DropsWindow(i) ==           \* mutant of RollWindow: the closed window is not flushed
  LET p == Feed[i].pool
  IN  /\ p \in DOMAIN accs /\ accs[p].window # WindowOf(Feed[i].ts)
      /\ UNCHANGED pending
      /\ accs' = Put(accs, p, AddEvent(NewAccumulator(Feed[i]), i))

RollWindow(i) ==
  LET p == Feed[i].pool
  IN  /\ p \in DOMAIN accs /\ accs[p].window # WindowOf(Feed[i].ts)
      /\ Flush(p)
      /\ accs' = Put(accs, p, AddEvent(NewAccumulator(Feed[i]), i))

ScanRecord ==
  /\ pc = "scan" /\ pos < len
  /\ Feed[pos + 1].ts > startTs
  /\ AddToWindow(pos + 1) \/ OpenWindow(pos + 1) \/ RollWindow(pos + 1)
  /\ IF Feed[pos + 1].ok
     THEN /\ maxTs' = MaxOf(maxTs, Feed[pos + 1].ts)
          /\ pc' = IF Len(batch') >= BatchSize THEN "pools" ELSE "scan"
     ELSE UNCHANGED <<maxTs, pc>>
  /\ pos' = pos + 1
  /\ UNCHANGED <<len, stored, recomputeFrom, startTs, runs, result>>

EndOfInput ==
  /\ pc = "scan" /\ pos = len
  /\ pc' = "drain"
  /\ UNCHANGED <<len, stored, times, pos, accs, pending, runs, result>>

\* The loop over a.accumulators, a map: in any order.
DrainAccumulator ==
  /\ pc = "drain"
  /\ \E p \in DOMAIN accs :
       /\ Flush(p)
       /\ accs' = [q \in DOMAIN accs \ {p} |-> accs[q]]
  /\ UNCHANGED <<len, stored, pc, times, pos, runs, result>>

DropsLastBatch ==           \* mutant of Drained: only full batches are stored
  /\ pc = "drain" /\ DOMAIN accs = {}
  /\ pc' = "save"
  /\ UNCHANGED <<len, stored, times, pos, accs, pending, runs, result>>

Drained ==
  /\ pc = "drain" /\ DOMAIN accs = {}
  /\ pc' = IF batch = << >> /\ pools = << >> THEN "save" ELSE "pools"
  /\ UNCHANGED <<len, stored, times, pos, accs, pending, runs, result>>
-----------------------------------------------------------------------------
LatestBlockWins(p) ==       \* mutant of BlocksOf: EXCLUDED instead of LEAST
  LET new == {pools[n].block : n \in {m \in DOMAIN pools : pools[m].pool = p}}
  IN  IF new = {} THEN {firstSeen[p]} ELSE new

\* UpsertPools, one transaction: first_seen_block is the LEAST of the old and
\* the new ones.
BlocksOf(p) == {pools[n].block : n \in {m \in DOMAIN pools : pools[m].pool = p}}
                 \cup {firstSeen[q] : q \in {p} \cap DOMAIN firstSeen}

UpsertPools ==
  /\ pc = "pools" /\ pc' = "metrics"
  /\ firstSeen' = [p \in DOMAIN firstSeen \cup {pools[n].pool : n \in DOMAIN pools} |->
                     Min(BlocksOf(p))]
  /\ UNCHANGED <<len, rows, state, times, pos, accs, pending, runs, result>>

\* UpsertWindowMetrics, one transaction: the last entry of a key wins, and
\* replaces the row.
BatchKeys == {batch[n].key : n \in DOMAIN batch}
LastEntry(k) ==
  CHOOSE n \in DOMAIN batch :
    batch[n].key = k /\ \A m \in DOMAIN batch : m > n => batch[m].key # k

UpsertWindowMetrics ==
  /\ pc = "metrics" /\ pc' = "save"
  /\ rows' = [k \in DOMAIN rows \cup BatchKeys |->
                IF k \in BatchKeys THEN batch[LastEntry(k)].row ELSE rows[k]]
  /\ batch' = << >> /\ pools' = << >>
  /\ UNCHANGED <<len, firstSeen, state, times, pos, accs, poolSeen, runs, result>>

WindowItself(window) ==     \* mutant of SafeTs: the - 1 is missing
  IF window > 1 THEN window ELSE recomputeFrom

\* What is safe to record while windows are open: nothing of the earliest one.
SafeTs(window) == IF window > 1 THEN window - 1 ELSE recomputeFrom

SavesMaxTs ==               \* mutant of SaveState: open windows are forgotten
  /\ pc = "save" /\ DOMAIN accs # {}
  /\ state' = maxTs
  /\ pc' = "scan"
  /\ UNCHANGED <<len, rows, firstSeen, times, pos, accs, pending, runs, result>>

SaveState ==
  /\ pc = "save" /\ DOMAIN accs # {}
  /\ \E p \in DOMAIN accs :
       /\ \A q \in DOMAIN accs : accs[p].window <= accs[q].window
       /\ state' = SafeTs(accs[p].window)
  /\ pc' = "scan"
  /\ UNCHANGED <<len, rows, firstSeen, times, pos, accs, pending, runs, result>>

SaveFinalState ==
  /\ pc = "save" /\ DOMAIN accs = {}
  /\ recomputeFrom' = maxTs /\ state' = maxTs
  /\ pc' = "down" /\ result' = "ok"
  /\ UNCHANGED <<len, rows, firstSeen, startTs, maxTs, pos, accs, pending, runs>>

\* Run returns an error (of the input, the database or the state store), its
\* context is cancelled, or the process is killed: all leave the same behind.
Interrupted ==
  /\ pc # "down" /\ pc' = "down"
  /\ result' = "error"
  /\ UNCHANGED <<len, stored, times, pos, accs, pending, runs>>
-----------------------------------------------------------------------------
RunStep ==
  \/ LoadStartTimestamp
  \/ SkipRecord \/ ScanRecord \/ EndOfInput
  \/ DrainAccumulator \/ Drained
  \/ UpsertPools \/ UpsertWindowMetrics
  \/ SaveState \/ SaveFinalState

Next ==
  \/ InputGrows
  \/ \E r \in RecomputeChoices : StartProcess(r)
  \/ RunStep
  \/ Interrupted

Spec == Init /\ [][Next]_vars

\* A process goes on until it ends; that it is started, or interrupted, is not fair.
FairSpec == Spec /\ WF_vars(RunStep)
-----------------------------------------------------------------------------
Accumulator == [window : Nat, events : SUBSET Events, lastBlock : Nat, lastTs : Nat,
                firstBlock : Nat]
MetricsRow == [events : SUBSET Events, tvlBlock : Nat]
BatchEntry == [key : Keys, row : MetricsRow]
PoolRecord == [pool : Pools, block : Nat]
MapsTo(f, D, R) == DOMAIN f \subseteq D /\ \A x \in DOMAIN f : f[x] \in R

TypeOK ==
  /\ len \in 0..Len(Feed)
  /\ MapsTo(rows, Keys, MetricsRow)
  /\ MapsTo(firstSeen, Pools, Nat)
  /\ state \in Nat \cup {None}
  /\ pc \in {"down", "load", "scan", "drain", "pools", "metrics", "save"}
  /\ recomputeFrom \in Nat /\ startTs \in Nat /\ maxTs \in Nat
  /\ pos \in 0..len
  /\ MapsTo(accs, Pools, Accumulator)
  /\ batch \in Seq(BatchEntry) /\ pools \in Seq(PoolRecord)
  /\ MapsTo(poolSeen, Pools, Nat)
  /\ runs \in 0..MaxRuns /\ result \in {"none", "ok", "error"}

(***************************************************************************)
(* Every stored row sums up exactly the events of its window, in whatever  *)
(* run and however often it was written: no event is missing because of a  *)
(* restart, and none is counted twice.                                     *)
(***************************************************************************)
RowsExact == \A k \in DOMAIN rows : k \in Keys /\ IsExact(rows[k], k)

(***************************************************************************)
(* The saved time stamp claims no event whose row is not stored, and does  *)
(* not cut a window in two: the next run loses nothing by skipping the     *)
(* events up to it.                                                        *)
(***************************************************************************)
StateIsSafe ==
  /\ Separates(state)
  /\ \A i \in Events : Feed[i].ts <= state /\ KeyOf(i) \in Keys => KeyOf(i) \in DOMAIN rows

(***************************************************************************)
(* A run that reports success has stored a row for every window of its     *)
(* input, and the next one will start after its last event.                *)
(***************************************************************************)
SuccessIsComplete ==
  result = "ok" =>
    \A i \in 1..pos :
      /\ Feed[i].ts <= state
      /\ KeyOf(i) \in Keys => KeyOf(i) \in DOMAIN rows

(***************************************************************************)
(* Metrics never precede their pool, though the two tables are written in  *)
(* separate transactions, and first_seen_block is no later than any event  *)
(* of the pool's rows, whichever run wrote them.                           *)
(***************************************************************************)
RowsHavePool ==
  \A k \in DOMAIN rows :
    /\ k[1] \in DOMAIN firstSeen
    /\ \A i \in rows[k].events : firstSeen[k[1]] <= Feed[i].block

(***************************************************************************)
(* Whatever happened to the runs before, one that is left alone ends with  *)
(* a row for every window of the input: an interrupted predecessor, or one *)
(* that moved the state while windows were open, leaves nothing behind     *)
(* that is never made up for.                                              *)
(***************************************************************************)
StoredUpTo(n) == \A i \in 1..n : KeyOf(i) \in Keys => KeyOf(i) \in DOMAIN rows
RunDelivers ==
  pc = "load" ~> pc = "down" /\ (result = "error" \/ StoredUpTo(len))

(***************************************************************************)
(* The run implements the abstract table.                                  *)
(***************************************************************************)
Table == INSTANCE WindowTable WITH progress <- state
IsWindowTable == Table!Spec

(***************************************************************************)
(* "Idempotent Postgres upserts for incremental and recompute workflows":  *)
(* writing a row again never takes events out of it.                       *)
(***************************************************************************)
UpsertsIdempotent ==
  [][\A k \in DOMAIN rows : rows[k].events \subseteq rows'[k].events]_vars
=============================================================================
