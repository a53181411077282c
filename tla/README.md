# liquidityScope: TLA+ specifications and proofs

liquidityScope pulls Uniswap-V3-style logs from a BSC node (`indexer run`),
decodes them into typed events (`indexer decode`) and aggregates the events
into per-pool time windows in Postgres (`indexer aggregate`).  The three
commands are separate processes that communicate through files; each one keeps
a little durable state from which a restart resumes.  None of them uses
goroutines to any depth: what makes the program hard is not threads but
*restarts* -- a process may be killed, cancelled, or fail at any step, and a
later process must continue from what happens to be on disk or in the database.

That is what these modules are about.  They are written from the Go code under
`src/`; `PROJECT.json` (`map`) names the lines behind every definition.

## 1. Inventory

| Component | State it keeps | Operations | Module |
|---|---|---|---|
| `SplitRange` (`internal/indexer/range.go`) | locals `start`, `end`, `ranges`, all `uint64` | one loop | `SplitRange` |
| `CheckpointStore`, `FileStateStore` (`checkpoint.go`, `aggregate/state.go`) | a JSON file and its `.tmp` | `Load`, `Save` | `StateFile`, `AtomicRegister` |
| `Runner`, `withRetry` (`runner.go`, `retry.go`, `transform.go`) | the batch, `seen`, retry attempt | `Run` | `Indexer` |
| `JsonlStorage` (`storage/jsonl.go`) | the output file | `PutLogBatch` | `Indexer` |
| `chain.Client` | `tsCache` | `FilterLogs`, `BlockTimestamp`, `LatestBlockNumber`, `GetChainID`, `CallContract` | `Indexer`, `Reorg` |
| Decode command (`cmd/indexer/decode.go`) | two output files and their buffers | `runDecode` | `Decode` |
| `V3PoolDecoder`, `PoolMetaCache`, `TokenMetaCache` (`internal/dex`) | the two caches | `Decode`, `getPoolMeta`, `FetchPoolMeta`, `FetchTokenMeta` | `Decode` (caches, failing calls), `Payload` (topics, the four events) |
| `Aggregator`, `Accumulator` (`internal/aggregate`) | open windows, batch, `poolSeen`, `maxTs` | `Run`, `AddEvent`, `flushAccumulator`, `saveState` | `Aggregator`, `WindowFeed`, `WindowTable` |
| TVL, decimals and rates (`tvl.go`, `token_cache.go`, `helpers.go`) | `TokenDecimalsCache` | `applySwap`, `fetchTVL`, `getTokenDecimals`, `computeFeeRates`, `computeAPR` | `Figures` |
| Postgres store, state table (`storage/postgres`, `state_db.go`) | tables `pools`, `pool_window_metrics`, `indexer_state` | `UpsertPools`, `UpsertWindowMetrics`, `LoadState`, `SaveState` | `Aggregator`, `Pipeline` (lost commits) |
| Command wiring (`cmd/indexer/main.go`, `aggregate.go`) | signal context | `runIndexer`, `runAggregate` | `Indexer`, `Aggregator` (signals), `Settings` (partly) |
| Configuration (`internal/config`, `parse.go`) | none; one namespace of keys for three commands | `Load`, `LoadDecode`, `LoadAggregate`, `ParseTimestamp` | `Settings` (partly) |
| ABI constants (`abi.go`), record types (`internal/model`) | none | -- | `Payload` (event declarations) |
| The three commands on their files | `logs.jsonl`, `typed_events.jsonl`, the tables | run, decode, aggregate, again and again | `Pipeline` |

### How the components interact

```
 node --FilterLogs/HeaderByNumber--> Runner --PutLogBatch--> logs.jsonl
                                       |  `--Save--> checkpoint.json
 logs.jsonl --> decode --> typed_events.jsonl, decode_errors.jsonl
 typed_events.jsonl --> Aggregator --UpsertPools, UpsertWindowMetrics--> Postgres
                           |  `--Save--> aggregate_state.json or indexer_state
```

* The runner calls `SplitRange` once, then per batch: `FilterLogs` under
  `withRetry`, `BlockTimestamp` under `withRetry` for every log that is not a
  duplicate, `PutLogBatch`, `CheckpointStore.Save`.  Two files are written one
  after the other and nothing ties them together: the order is what makes a
  restart lose nothing.
* The aggregator reads the whole input again in every run, skips what is not
  younger than the loaded state, keeps one open window per pool, stores closed
  windows in batches, and records a time it believes safe to resume from.
  Pools, metrics and state are three transactions.

### What is hard, and what makes each component correct

* **SplitRange**: `uint64` wrap-around (`end - start + 1` of the full range is
  0; `end + 1` after `MaxUint64`).  Correct: the batches are a gapless cover,
  none over the limit, and the loop ends.
* **State files**: a write stopped half way.  Correct: `Save` behaves as one
  atomic assignment whatever fails.
* **Runner**: a crash or failure between append and checkpoint; interrupted
  appends; repeated logs in an answer; checkpoint of another range; a node
  whose head is behind the range; retries under cancellation.  Correct: no log
  at or below the checkpoint is missing and success means the range is covered,
  but for blocks a run with a higher `from` passed over; repetition is limited
  to one batch and leaves the chain order of first lines intact; every run ends.
* **Aggregator**: windows of different pools close at different times while one
  time stamp stands for the progress of all; a restart between two of the
  transactions; recomputation; input that has grown.  Correct: each stored row
  sums up exactly its window, the state never claims what is not stored,
  metrics never lack their pool.
* **Decode**: truncated outputs, buffered writers whose last error is dropped,
  metadata calls that fail, a cancellation the loop does not look at, caches.
  Correct: each line is reported once, in order; success accounts for every
  line; the history of a pool has no hole; metadata belongs to its event.
* **Payloads**: words of 256 bits for values of 24, 128 and 160; topics an
  operator adds; logs that do not fit their declaration.  Correct: a record says
  what the contract emitted; a log with the wrong number of topics or words is
  refused, and so is a tick that does not fit.
* **Figures**: fallbacks of the calls, rounding of fees, malformed swaps.
  Correct: a swap counts whole or not at all, fees are within their rounding
  error, both balances of a TVL are of the kind `tvl_method` names, the figures
  of a token are in one unit.
* **Reorganisations**: logs, time stamps and the checkpoint go by number.
  Correct: of final blocks, lines are exact and complete; no run tears a block
  between two times.
* **Pipeline**: what one command leaves behind is the next one's input.
  Correct: a fault disturbs the rows of its own window only.
* **Settings**: one set of keys, three commands.  Correct: no command overwrites
  its input, no state passes what it has not seen, a recomputation covers what
  was asked.

`PROJECT.json` (`hazards`) lists these at their lines, with the properties that
would catch them, or the reason no property does.

## 2. Plan

Done, in this order: `SplitRange`, `StateFile` (implements `AtomicRegister`),
`Indexer`, `WindowFeed` / `Aggregator` (implements `WindowTable`), `Decode`, the
proof modules of section 5; then `Figures`, `Payload`, `Reorg`, `Pipeline`,
`Settings`, and liveness in `Aggregator`.

The proof modules followed the models: `ProgressProofs` (`SplitRange`,
`StateFile`, `Settings`), `IndexerProofs`, `AggregatorProofs` with the
refinement of `WindowTable`, `ReorgProofs`, `DecodeProofs`, `FiguresProofs`,
`PayloadProofs`, `PipelineProofs`.

Every safety property that a passing run checks is stated by a theorem.  Left to
TLC is liveness.

## 3. Modules and their correspondence to the code

**SplitRange** -- `SplitRange` of `range.go`.  One step is one iteration; the
loop variables are 4-bit in the runs and `0..MaxUint` in the proofs.  `Wrap` is
the arithmetic of `uint64`.  `LastBatch` is the `break` at line 31, which keeps
`end + 1` from wrapping; `BadArguments` the two early returns.  Its names, and
those of `StateFile`, carry a prefix (`SplitInit`, `StoreInit`) and `at` is the
program counter here, because one proof module extends both.

**AtomicRegister, StateFile** -- the abstract register has a call that takes
effect at one instant and may return an error before or after.  `StateFile` is
`Save` of both stores, step by step (create the temporary file, write, rename,
return), with a failure or a crash at every step, and `Load`.  It implements
the register with the file as its value.  A half-written file is the value
`Partial`; a crash leaves the temporary file behind and the next `Save`
truncates it, as `os.WriteFile` does.

**Indexer** -- `Runner.Run`.  Durable state: `file`, `torn` (the output ends
without a newline), `checkpoint`.  `pc` names the place in `Run`:

| `pc` | code | actions |
|---|---|---|
| `connect` | `runner.go:70-87` chain id, latest block | `Connect`, `StepFails` |
| `load` | `89-108` checkpoint, "nothing to sync" | `Load`, `StepFails` |
| `batch` | `110-115` select at the head of the loop | `NextBatch`, `LeaveLoop` |
| `fetch` | `119-122` `filterLogsWithRetry` | `FilterLogs`, `CallFails`, `Backoff*` |
| `stamp` | `124-136` duplicates, timestamps, records | `SkipDuplicate`, `BuildRecord`, `CallFails`, `Backoff*` |
| `write` | `138-140` `PutLogBatch` | `WriteRecord`, `BatchStored`, `StepFails` |
| `save` | `142-149` `checkpoint.Save` | `SaveCheckpoint`, `StepFails` |

`CallFails`, `BackoffExpires` and `BackoffCancelled` are `withRetry` around
whichever call is due.  `Crash` and `Cancel` may happen at any step.  The logs
that match the filters are numbered in chain order and `BlockOf` gives their
blocks.  The node is external: it answers a range with any list `Answers`
allows -- all logs of the range, in order, and possibly one of them again -- or
fails; for a range that ends after its head it fails, or (`ClampingNode`)
answers up to the head.  `PutLogBatch` is one step per record, because the
`bufio.Writer` may have been flushed anywhere when the process dies; with
`TornWrites` also inside a line.  The checkpoint is read and written atomically,
which is what `StateFile` shows.  The `ranges` slice is replaced by
`start`, `end`: the next batch is computed when it is due, which
`SplitRange` and its proof justify.

**WindowFeed, WindowTable, Aggregator** -- the feed is the parsable lines of
the input (pool, time, block, and whether `AddEvent` accepts them); a row
stands for the *set of events* it sums up and the block of its TVL snapshot, so
that "exact" is a statement about sets.  `Aggregator` is `Run`: `ScanRecord` is
one iteration of the scan loop with everything it calls (rolling a window
flushes the accumulator and registers the pool), `DrainAccumulator` one
iteration of the loop over the map, in any order; `UpsertPools`,
`UpsertWindowMetrics`, `SaveState` and `SaveFinalState` are the three
transactions.  `Interrupted` ends the process anywhere.  Between runs the input
may grow.  `OrderlyInput` collects what the rows' exactness rests on: blocks in
order and with a number, inputs that end with whole windows, recomputations
that begin with one, no window at the epoch (`saveState` takes a window start of
0 for none).  `WindowTable` is the abstract promise: rows appear whole and exact,
and progress is recorded only over what is stored.

**Decode** -- `runDecode`, with `Decode` and `getPoolMeta` of the decoder.  A
line of the input has a kind, a pool and a block; the kind says how the loop
treats it.  `pc` is `"scan"` at the head of the loop and `"event"` after
`getPoolMeta`; the metadata is looked up in `CachedPool`, `FetchPool` or
`FetchPoolFails`, the payload decoded in `WriteEvent` or `RejectPayload`.
`FetchPool` is one step for the four pool calls and the token lookups: nothing
outside the process changes in between, and a kill loses both caches.  A
`jsonlWriter` is a record of its file, its buffer and bufio's sticky error;
`Writes` and `Flushes` are the sets of what a call may leave behind.  An error
of the output file ends the run, one of the error file is dropped, and so are
both errors of the deferred `Close` calls, which run in reverse order.  A
cancelled context makes every call to the node fail and nothing else.

**Figures** -- the sums of an accumulator and one `flushAccumulator` per window,
call by call.  `pc` is `"events"` while `applySwap` runs, `"decimals"` in the two
`getTokenDecimals` calls, then the `tvl_method` under which balances are being
read.  `Formatted` keeps amount and number of decimals apart, since the text of
`formatTokenAmount` is that pair; a balance is a function of pool, side and
height, and `reads` the heights they were read at.  The chain grows between any
two calls.  `CallContract` failing and answering are both possible everywhere.
`SwapsExchange` says what a V3 pool does and the code relies on: a swap takes in
one token only.

**Payload** -- `NewV3PoolDecoder` (`AddTopic`, once per entry of `topic0-map`, in
any order, as Go reads a map; `UnsupportedName`, `DecoderBuilt`) and `Decode` of
one log.  A word is a number below `Modulus`; `Packed` is how a contract encodes
a value, `Unpacked` what the abi package makes of a word.  The four decode
functions differ only in the declaration they follow and in which value goes to
which field (`Inputs`, `Fields`); `Inputs` parts a declaration into its indexed
arguments and the others, in the declaration's order.  `LogsAssumption` says that
contracts emit values of the declared types, `TopicsAssumption` that the four
topics differ.  `Damaged` is every way one topic or one word
may be missing, extra, or something else.

**Reorg** -- `Runner.Run` again, one version of the chain at a time: a block is
its number and the version in force when it was made, `final` the height below
which nothing is replaced any more.  The fetch takes the logs of the chain of
that moment as a set (`LogsAt`), of which the runner takes the first one in
chain order (`IsFirst`) at every step of its loop; each `BlockTimestamp` takes
the header of *its* moment or the cached one. A range that ends above the node's
head is answered up to the head or refused (`Stops`, which ends the process
anywhere): the runner saves its checkpoint in the first case.  Retries and torn
appends are left to `Indexer`.  The dedupe key (number, transaction, index)
never applies within one answer here, and is not in the module.

**Pipeline** -- one step is a batch of `run`, or a whole `decode` or `aggregate`,
and what each may leave when it dies: the justification for such coarse steps is
in `Indexer` (an append is a prefix and perhaps a fragment, the checkpoint
follows), `Decode` (the output is a prefix) and `Aggregator` (upserts before the
state).  `Scan` is the scan loop line by line: a pool's event of another window
closes the open one, and whenever `RowBatch` windows have been closed
(`FlushesAt`) their rows are stored and `saveState` writes a time before all open
windows (`SafeTs`), which may be older than the state it replaces.
`AggregateDiesScanning` is the end of the process after such a batch, before or
after its state is saved, and `AggregateDiesAtEnd` the end after the last batch.
`AggregateAll` and `AggregateLosesCommit` run to the end; what they store on the
way is overwritten by what they store last.
The module keeps what the others leave out: the *sequence* of events of a
row, so that an event counted twice is seen, and commits that fail: any of the
rows may be missing and the state moves all the same, since `store.go:67` and
`store.go:132` drop the error of the batch's `Close`.  The logs of a range are counted (`LogsUpTo`, `LogsDue`), as they are
numbered in chain order.

**Settings** -- viper's layers as functions from keys to values, and the three
commands as single steps on files named by settings.  A log is its block number
and a kind of line (raw log, typed event, decode error), and time is the block
number: what counts is which command reads and truncates which path, which name
the progress is stored under, and how the time stamps compare.  Four conditions
on the settings are what the properties rest on, and the code checks none of
them: `LogsAreKept` (decode writes to no path that run writes to), `OneLog` (one
output and one checkpoint for all runs, and aggregate does not read that
output), `OneSizePerFile` (a state file is used with one size of windows) and
`TimesFit` (a time to recompute from is positive and fits 64 bits).
`MCSettings` assumes them of its instance; `MCSettingsExample` is the instance
with the documented example file, in which the first one fails.  `batch-size`,
`log-level`, `topic0-map` are keys too and are not in the module; the run
command's failures, `out` and `errors` on one path, are neither.

**MC modules** give the constants their values; definitions written as mutants
(an operator next to the one it mutates, marked `mutant of`) belong to the
sensitivity checks of section 4 and are used by no action.

## 4. Model checking

Every passing run finishes without an error; every property of it has a mutant
in `PROJECT.json` that changes one definition the way a plausible bug would (a
lost `+ 1`, a forgotten flush, a dropped guard) and makes TLC report that
property.  The type invariant `TypeOK` of a module documents its state;
`indexer` checks its own, and those of the modules in section 5 are parts of
proved invariants.  Deadlock is checked in `progress`, `pipeline` and
`settings`, which can go on for ever: the other programs stop, because the
program returns or because the bound on the number of processes is reached.

| Run | Bounds | What it shows |
|---|---|---|
| `progress` | all 4096 argument triples of a 4-bit block number, and after each call a state file with three values | `SplitRange`: cover, batch limit, progress, wrap-around included, the full range being the one exception to the limit; the file: `Save` and `Load` implement the register, whose value is always whole |
| `indexer` | 4 blocks, 4 logs (two in one block, one block empty), batches of 2, three processes, three different command lines with one checkpoint, one retry, torn appends; fairness | nothing below the checkpoint is lost and success covers the request, but for blocks a higher `from` passed over; damage is limited to the first line after a fragment; no log twice in a run; first lines in chain order; the checkpoint and the writes move forward; every run ends |
| `decode` | 6 lines, one of every kind, three of them events of one pool; a second pool that shares a token; live metadata; two processes; fairness | each line once and in order; success accounts for every line; no hole in a pool's history; metadata of the event's pool and block; every run ends |
| `aggregator` | 8 events of 3 pools (one without metadata, one malformed swap) in windows of 10 s, the input in 4 lengths, batches of 2, three processes, recomputation from two boundaries; fairness | rows exact, state safe, success complete, pools before metrics, the abstract table implemented; a run left alone stores every window of its input and returns, whatever its predecessor left |
| `figures` | three windows of two pools with a common token, up to 2 swaps each (one way, the other way, second amount unparsable), one window without a last block, a pool without fee tier, every call failing or not, a growing chain, a balance of 0 | swaps count whole; fees are within one unit per swap of the exact share; both balances of a TVL are what its method says, units settle |
| `payload` | words of 6 bits, addresses and ticks of 3; every argument at the ends of its range; every word damaged; entries for a fork, a misnamed topic, two spellings, an empty key, no event's name | round trip of all four events, a log with topics or words too many or too few is refused and no tick wraps, the operator's entries win |
| `reorg` | 4 blocks, the last 2 replaceable, two reorganisations, batches of 2, three runs | one block one time within a run; final lines exact; settled blocks complete |
| `pipeline` | 5 logs of 2 pools in 4 blocks (windows of one pool close while one of the other is open), windows that span two batches, rows stored one at a time; three processes that die or lose a commit | faults stay in their window; a passed window has its row |
| `settings` | 3 blocks; 5 command lines of aggregate; 16 pairs of environment and file | inputs survive, progress has its rows, recomputation covers |

Why these bounds: a hazard of a restart needs two processes, and three make a
restart of a restart; a batch of two blocks over four has an inner boundary, a
batch that is not full and one whose logs share a block; `TornWrites` needs one
interrupted and one later append.  For the aggregator two pools whose windows
close at different times are enough for every overlap of an open window with a
saved state, and a third one covers the path without metadata.  For the decoder
three events of a pool are the least that can have a hole, and the second
process is there for the truncation of one file before the other.

Three runs end in a counterexample, each on one property that states what the
documentation says:

| Run | Statement | What happens |
|---|---|---|
| `aggregator_growth` | "Idempotent Postgres upserts for incremental and recompute workflows" (README.md:17) | the input ends inside a window; the next run overwrites its row with the later events only |
| `decode_errors` | "Decode failures are appended to `decode_errors.jsonl`." (README.md:57) | the file is opened with `O_TRUNC` (decode.go:84): a second run removes what the first reported |
| `settings_example` | the example `config.yaml` (README.md:124), and what main.go:59 says of decode's `--out` | `out` is shared: `decode --in logs.jsonl` truncates its own input |

The passing runs state what holds *around* these and the following conditions.
No code enforces them, and an operator has to know them:

* *Restarts repeat lines.*  A stop between the append and the checkpoint makes
  the next run append the batch again (`seen` is in memory), and each repeated
  line is an event of its own for `decode` and `aggregate`.  `indexer` says what
  is repeated, `pipeline` whom it hurts: the windows of the repeated logs
  (`Disturbed`).
* *A fragment swallows a record*, while the checkpoint moves past it: `HasLine`
  counts the damaged line, `DamageIsFirstLine` and `pipeline` bound the harm: to
  `aggregate` the window of the damaged line is one it sees a part of (`cut`).
* *The checkpoint does not say where it began.*  A run that begins above the
  checkpoint moves it past the blocks in between, and a later run with a smaller
  `from` skips them and reports success, though no run has fetched them.
  `SuccessCoversRequest` and `CheckpointedLogsHaveLine` exempt exactly these
  blocks: `gaps` collects what each saved checkpoint passed over.
* *The error file of decode is that of the last run*: `EachLineOnce` holds of two
  files that are both truncated at the start.
* *Two runs may give a block two times.*  `OneBlockOneTime` is about the lines of
  one run: when a run stops before its checkpoint and the block is replaced
  before the next run's header call, its log has two lines with two times.
* *A node that answers a range above its head* lets the checkpoint pass the end
  of the chain.  `indexer` has no such node (`ClampingNode`); `reorg` has, and
  speaks of blocks that were final when they were fetched.
* *The files of decode may lose their ends* in a run that reports success
  (decode.go:231, 82, 88): `SuccessAccountsForEveryLine` exempts a run whose
  writer broke.
* *Unsigned values are any word.*  A word above 2^128 or 2^160 where a contract
  would emit less is decoded as it is, and so are the high bits of an address
  dropped: neither the abi package nor the decoder looks.
* *Inputs of aggregate end with whole windows* (`WholeWindows`) and a well-formed
  line (`EndsWindow`): a malformed swap at the end does not move `maxTs`
  (aggregator.go:145), and the next run opens its window for that line alone.
  Recomputation starts at window boundaries (`WindowBoundaries`), within the
  recorded past (`RecomputesThePast`).
* *A lost commit is lost for good* (`pipeline` exempts its own windows).
* *Raw units.*  A failed call for decimals makes a row of raw amounts that looks
  like any other (aggregator.go:268); `UnitsSettle` bounds how long.
* *A TVL of two blocks.*  The fallback asks for the latest block twice
  (tvl.go:48-49); when the chain grows in between, the two balances of a
  `balance_of_latest` row are of two blocks.  `TvlIsWhatItSays` excludes mixing
  the window's block with the latest one, not this.
* *A swap whose output is 0* adds to the volume and pays no fee
  (accumulator.go:85); `FeeWithinRounding` leaves such swaps aside.
* *`--recompute-from 0`* means none, and a time before 1970 wraps around: the
  recomputation covers what was asked under `TimesFit`.
* *One output, one state file per window size.*  A state is a time and names
  neither the input nor the window size it was reached with, so progress has its
  rows only under `LogsAreKept`, `OneLog` and `OneSizePerFile`.

For the new modules: three processes of `reorg` make a block that is fetched,
replaced, and fetched again after the checkpoint was lost; two reorganisations
let an orphaned transaction come back; with a depth of two a batch of two may be
replaced whole.  Three faults in `pipeline` are one for each command, or a
restart of a restart, and lost commits between them; with one row to a batch
every closed window is a place for `aggregate` to die, and its second pool has an
open window before and after the first pool's has closed.  Amounts, words and
balances are a few values at the ends of their ranges and at both sides of a
rounding: the code treats all others alike.

**Fairness.**  `indexer`, `decode` and `aggregator` have a liveness property, under
`WF_vars(RunStep)`: the process is scheduled, its timers fire, and every call to
the node returns *somehow* -- `CallFails` is possible whenever a call is due, so
nothing assumes that a call succeeds (in `Decode`, `FetchPoolFails`; the
failures of `StepFails` are not needed there and not fair).  In `Aggregator` the
database and the node answer; `Interrupted` may end a run instead, and is not
fair.  `HeadGrows`, `Cancel`, `Crash` and
`StartProcess` are not fair.  The code sets no timeout of its own on calls, so
"every call returns" is the RPC client's to keep.

## 5. Proofs

`tlapm` proves the following for every value of the constants that satisfies
the named assumptions.

* **ProgressProofs**, on `SplitRange` -- `SplitRangeCovers`,
  `SplitRangeBatchesFit`, `SplitRangeTerminates`.  The only assumption is
  `MaxUintAssumption` (a positive number).  The inductive invariant `LoopInv`
  adds to the type invariant that the batches cut so far end just before `start`
  and that an unfinished loop has `start <= end of the range`; the second is
  what rules out the wrap of `end + 1`, since the last batch breaks out of the
  loop before.

  On `StateFile` -- `StateFileIsAtomicRegister`, for any set of values.  The
  inductive invariant `FileInv` says that the file is never a partial one, that
  the temporary file is whole when the program is about to rename it, and which
  value it then holds.

  On `Settings` -- `SettingsTyped` for every set of command lines, environments
  and configuration files (`SettingsAssumption`: their values are of the types
  the keys have); `SettingsFetchedLogsSurvive` under `LogsAreKept`,
  `SettingsRecomputeCovers` under `TimesFit`, and `SettingsProgressHasRows`
  under `LogsAreKept`, `OneLog`, `OneSizePerFile` and `TimesFit`.  The conditions
  are hypotheses, since `settings_example` violates the first of them.

  `KeptInv` says which file each fetched block is in: the output of *some* run.
  `ProgressHasRows` follows from three invariants, one per command: `LogInv`
  (one file has all logs up to the checkpoint), `EventsInv` (the events of a
  file have no gap among the fetched blocks) and `StateInv` (a state is of one
  window size and has the rows of every block up to it).  The second is what
  lets `aggregate` skip by time: an event that a later decode adds is younger
  than every one before it.
* **IndexerProofs** -- all seven safety properties of `Indexer`, for every
  chain, every set of command lines, every batch size, retry limit and number
  of processes, with torn appends, and with or without a checkpoint.  The
  assumptions are those of the module: `ChainAssumption` (logs are numbered in
  chain order), `NodeAssumption` (an answer is complete and in order, up to
  repetitions), `ConfigAssumption` (`batch-size` positive, as `runner.go:63`
  checks).  What `IndexerKeepsCheckpointedLogs` and `IndexerSuccessCovers` leave
  out are the blocks in `gaps`.

  The argument has three layers.  `RunInv` holds whatever the node answers: the
  types, `SeenInv` (what is seen or recorded lies above the checkpoint and
  within the batch) and `RunLinesInv` (the lines of this run are of logs it has
  seen and will not write again; a fragment stays the end of the file until the
  run's first line).  It yields `IndexerTypeOK`, `IndexerNoRepeatInRun`,
  `IndexerDamageIsFirstLine` and `IndexerWritesAboveCheckpoint`.  `KeepsInv`
  needs `~ClampingNode`: `CoverInv` says that everything below the checkpoint
  and below the current batch has a line or is in a gap, `BatchInv` where each
  log of the batch is -- in the reply, in the records, or in the file -- and
  `GapsInv` that a run's first batch begins at its `from` or follows the
  checkpoint, so that only a `from` above the checkpoint makes a gap.  Neither
  `CheckpointedLogsHaveLine` nor `SuccessCoversRequest` is inductive without it,
  because the checkpoint is saved long after the reply was taken apart.  It
  yields `IndexerKeepsCheckpointedLogs` and `IndexerSuccessCovers`.  `OrderInv`
  adds that records are sorted and that a line is only written when those of all
  earlier logs are there, and yields `IndexerFirstLinesInChainOrder`.

* **AggregatorProofs** -- `AggregatorTyped` for every input;
  `AggregatorRowsHavePool` for every input whose blocks are numbered
  (`BlocksNumbered`); `AggregatorRowsExact`, `AggregatorStateIsSafe`,
  `AggregatorSuccessIsComplete` and the refinement `AggregatorIsWindowTable`
  under `OrderlyInput`.  All of them for any number of events, pools and
  processes, any batch size, and interruptions at every step.

  `OrderlyInput` is no property of the code: an operator who aggregates an input
  that ends inside a window gets a wrong row, which is what `aggregator_growth`
  shows.  It is a hypothesis of these theorems and not an `ASSUME` of the module,
  so that run can violate it; `MCAggregator` assumes it of its instance, which
  TLC evaluates.

  None of the properties is inductive.  `ControlInv` holds of any input.
  `PoolsInv` follows `first_seen_block` from the accumulators through `poolSeen`
  and the pending pool records to the table: a metrics row in the batch has its
  pool stored or due.  `TableInv` is the argument for the rows.  `StartInv`: what
  the run skips has its rows, and consists of whole windows.  `AccsInv`: an open
  window holds *all* its events scanned so far, which needs the order of the
  feed -- once a pool has rolled to a later window no event of the earlier one
  can come.  `TakenInv`: a window taken is open, in the batch, or stored.
  `MaxTsInv`: the final state is the last event's time.  `StateIsSafe` follows
  at `SaveState`: windows before the *earliest* open one are not open, and the
  batch has just been stored, so `TakenInv` leaves only the table.
* **ReorgProofs** -- `ReorgOneBlockOneTime`, `ReorgFinalLinesExact`,
  `ReorgSettledBlocksComplete` and `ReorgTyped`, for every chain, time stamps,
  depth, batch size and number of reorganisations and runs.  The assumptions,
  `ReorgAssumption` and `ChainAssumption`, are types and `batch-size` positive.

  `RangeInv` places the lines of this run before the batch until it is appended;
  `CacheInv` says that the cache has no block ahead of the batch, and the time of
  every line of this run; together with `VersionInv` (one answer, one version of
  a block) that gives one time per block.  `SureInv` is about blocks final when
  the batch was fetched: a time the cache has of them is the chain's, since it
  was asked for after the fetch, and `KeptInv` follows their logs from the
  answer over the records to the output.
* **DecodeProofs** -- `DecodeEachLineOnce`,
  `DecodeSuccessAccountsForEveryLine`, `DecodePoolHistoryHasNoHole`,
  `DecodeMetaIsOfItsEvent` and `DecodeTyped`, for every input and whatever
  fails.  A crash or a disk error leaves any prefix of what was written in the
  file, so the invariant speaks of file and buffer together (`Whole`), and
  only of what a prefix inherits: order, metadata that fits, and no hole
  (`FilesInv`; the lemmas `PrefixKeeps`, `PrefixHasNoHole`).  `ScanInv` relates
  the files to the position: a pool with an event has its metadata cached, so
  every later event of it is written.  `AccountInv` is the count of lines while
  both writers work, and `ControlInv` the order of opening and closing.
* **FiguresProofs** -- `FiguresTvlIsWhatItSays`, `FiguresUnitsSettle` and
  `FiguresTyped`, for all windows, pools, swaps,
  balances and decimals (`FiguresAssumption` only gives their types).
  `WindowInv` says what the balances read so far are of; `CacheInv` that the
  cache holds the tokens' own decimals, those of every token an earlier row was
  in, and that the decimals in hand agree with both.

  `FiguresSwapsCountWhole`, and `FiguresFeeWithinRounding` under `SwapsExchange`,
  are about sums over all swaps of a window.  `FeeInv` bounds the shortfall of the
  fee by `FeeUnit - 1` for each swap that pays in, and each swap adds one quotient
  to it.  They rest on two facts about `SumFunction`: a sum over nothing is 0
  (`SumOfNothing`), and one more element adds its value (`SumOfOneMore`).  The
  community module defines the sum as a fold that takes the elements out in some
  order; `SumsOfExists`, `SumsOfTakesOut` and `SumsOfAgree` show that such a
  function exists and that the order makes no difference.
* **PayloadProofs** -- `PayloadRoundTrip`, `PayloadDecodedFits`,
  `PayloadEntriesWin` and `PayloadTyped`, for words, addresses and ticks of any
  width (`WidthAssumption`; so for 2^256, 2^160 and 2^23), every `topic0-map`,
  every log and whatever it is damaged by (`TopicsAssumption`,
  `LogsAssumption`).  `TableInv` gives each topic its name from the entries
  looked at so far; the rest follows from lemmas on the operators: `Remainders`,
  `EncodingMeaning` (a value survives its encoding), `DecodingMeaning` (addresses
  and amounts come out in range whatever the word, unsigned values are any word,
  and only a tick needs the check of `int24FromBig`), `DeclarationFacts` (names and places of each event
  agree), `FieldsMeaning` (every argument is read from its own place),
  `EncodedMeaning` and `DamagedTyped`.
* **PipelineProofs** -- `PipelineFaultsStayLocal`,
  `PipelinePassedWindowsHaveRows` and `PipelineTyped`, for every chain, window
  length, batch size and number of faults; the only assumption is
  `PipelineAssumption` (the logs are in chain order, and the numbers positive).

  The proof follows a log through the files.  `RawInv`: each line of the output
  is the log after that of the line before it, or an earlier one (`Climbs`), and
  every log up to the checkpoint has a line.  `Picked`: the typed events are a
  subsequence of the readable lines (`FoldExists` and `FoldRuns` unfold the fold
  that reads them).  So a window no log of which was repeated has its logs in
  `typed` once and in one piece (`OnceInTyped`, `OnePieceInTyped`).  `Scan` is a
  recursive function of the number of lines read (`ScanExists`, `ScanMeaning`);
  `OnePieceStep` goes with it: the logs of such a window have not come yet, or
  are those in the pool's open window, or are those of a closed one.  So
  whichever batch the process dies after, the rows it has stored are exact
  (`ClosedRowsSound`, `AllRowsSound`), unless a log is missing, which puts the
  window in `cut`.  `FlowInv` adds `CutState`: a window the state has passed in
  part was cut.

  What the state may say after a batch is `SafeTsMeaning`: it is a time before
  the window of each event in an open window, so that an event not younger than
  it lies in a window that has been closed, and stored with this batch or an
  earlier one.  A state that goes back does no harm of its own, but the next run
  reads events again whose rows are stored: `LateIsRepeated` says that a line
  that comes later and is older is a repetition.

Induction over data is done without the library's induction theorems, which take
an operator as a parameter: the numbers for which a statement fails would have a
least element (`LeastExists`, from `NatLessThanWellFounded` and `WFMin`), hence a
set of naturals with 0 and all successors is `Nat` (`AllNaturals`).

Every strengthening was checked by TLC on the run of its module before it was
proved.

Only model-checked: liveness (`RunsEnd` of `indexer` and `decode`, `RunDelivers`
of `aggregator`), which rests on fairness and is out of the prover's reach.  No
module uses RECURSIVE.

## 6. What is not modelled, and why

* Power loss: the code never calls `fsync`; all modules keep what the process
  has handed to the operating system.
* Two processes at the same time on one file or database: the code has no
  locking and no documentation of such a use; processes run one at a time.
* Confirmations: the code has no notion of a final block; `Reorg` has one only to
  say what can be relied on.  The `removed` flag is always false in an answer to
  `eth_getLogs`.
* go-ethereum (JSON-RPC, ABI unpacking), viper, pgx and Postgres: external, and
  modelled by how the code uses them.
* The quotients of rates and APR (`big.Rat`, 18 digits), the columns of the
  tables, and the texts of records.
* Symbols and names of tokens: fetched and cached, read by nothing.
* Parsing of addresses, topics and lists (`parse.go`, `getStringSlice`,
  `parseStringMap`), logging: stateless, better served by unit tests.
