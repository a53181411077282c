------------------------------- MODULE Pipeline -------------------------------
(***************************************************************************)
(* The three commands one after the other, again and again, on their       *)
(* files: run appends the logs of new blocks, decode rewrites the typed    *)
(* events from all of them, aggregate adds the windows above its state to  *)
(* the table.  Each may die half way.  What the commands do inside is in   *)
(* modules Indexer, Decode and Aggregator; here a step is a batch of run,  *)
(* a whole decode or a whole aggregate, and what it may leave behind when  *)
(* it dies or the database does not commit: of aggregate, the full batches *)
(* of rows it has stored so far, and the state saved after each of them.   *)
(*                                                                         *)
(* Every log is an event the decoder and AddEvent accept.                  *)
(***************************************************************************)
EXTENDS Integers, Sequences, SequencesExt, Functions

CONSTANTS
  Logs,                 \* in chain order: block, pool and time stamp
  WindowSeconds,
  BatchSize,            \* blocks per batch of run
  RowBatch,             \* closed windows per batch of aggregate
  MaxFaults             \* bound on the processes that die or lose a commit
ASSUME PipelineAssumption ==
  /\ Logs \in Seq(Range(Logs)) /\ Logs # << >>
  /\ \A i \in DOMAIN Logs :      \* no window starts at 0, which would count as none
       Logs[i].block \in Nat \ {0} /\ Logs[i].ts \in Nat /\ Logs[i].ts >= WindowSeconds
  /\ \A i, j \in DOMAIN Logs :
       i <= j => Logs[i].block <= Logs[j].block /\ Logs[i].ts <= Logs[j].ts
  /\ WindowSeconds \in Nat \ {0} /\ BatchSize \in Nat \ {0}
  /\ RowBatch \in Nat \ {0} /\ MaxFaults \in Nat

LastBlock == Logs[Len(Logs)].block
WindowOf(ts) == ts - (ts % WindowSeconds)
KeyOf(i) == <<Logs[i].pool, WindowOf(Logs[i].ts)>>
Keys == {KeyOf(i) : i \in DOMAIN Logs}
InWindow(k) == {i \in DOMAIN Logs : KeyOf(i) = k}

VARIABLES
  head,                 \* blocks on the chain
  raw,                  \* logs.jsonl: lines with their log, readable or not
  torn,                 \* does it end within a line?
  checkpoint,           \* last block of the last batch
  typed,                \* typed_events.jsonl: a sequence of logs
  rows,                 \* the table: function from keys to sequences of logs
  state,                \* time stamp up to which events are skipped
  \* history
  faults,
  cut                   \* windows aggregated when a part of their events was missing,
                        \* or whose rows were not committed

vars == <<head, raw, torn, checkpoint, typed, rows, state, faults, cut>>

Init ==
  /\ head = 0
  /\ raw = << >> /\ torn = FALSE /\ checkpoint = 0
  /\ typed = << >>
  /\ rows = << >> /\ state = 0
  /\ faults = 0 /\ cut = {}

ChainGrows ==
  /\ head < LastBlock /\ head' = head + 1
  /\ UNCHANGED <<raw, torn, checkpoint, typed, rows, state, faults, cut>>

Fault == faults < MaxFaults /\ faults' = faults + 1
-----------------------------------------------------------------------------
\* The batch that is due, how many logs it has, and the file with the first n of them
\* appended: the first one goes on a fragment's line.
BatchEnd == IF checkpoint + BatchSize <= head THEN checkpoint + BatchSize ELSE head
LogsUpTo(block) == Cardinality({i \in DOMAIN Logs : Logs[i].block <= block})
LogsDue == LogsUpTo(BatchEnd) - LogsUpTo(checkpoint)
Appended(n) ==
  raw \o [j \in 1..n |-> [log |-> LogsUpTo(checkpoint) + j, readable |-> ~(torn /\ j = 1)]]

RunBatch ==
  /\ checkpoint < head
  /\ raw' = Appended(LogsDue) /\ torn' = (torn /\ LogsDue = 0)
  /\ checkpoint' = BatchEnd
  /\ UNCHANGED <<head, typed, rows, state, faults, cut>>

\* Some lines are appended, and perhaps a part of the next one, but no checkpoint saved.
RunDies ==
  /\ checkpoint < head /\ Fault
  /\ \E n \in 0..LogsDue :
       /\ raw' = Appended(n)
       /\ torn' \in {torn /\ n = 0} \cup {n < LogsDue}
  /\ UNCHANGED <<head, checkpoint, typed, rows, state, cut>>
-----------------------------------------------------------------------------
AddEvent(logs, line) == IF line.readable THEN Append(logs, line.log) ELSE logs
Readable(lines) == FoldLeft(AddEvent, << >>, lines)

DecodeAll ==
  /\ typed' = Readable(raw)
  /\ UNCHANGED <<head, raw, torn, checkpoint, rows, state, faults, cut>>

\* The old output is gone, the new one ends early.
DecodeDies ==
  /\ Fault
  /\ \E n \in 0..Len(Readable(raw)) : typed' = SubSeq(Readable(raw), 1, n)
  /\ UNCHANGED <<head, raw, torn, checkpoint, rows, state, cut>>
-----------------------------------------------------------------------------
Put(f, x, v) == [y \in DOMAIN f \cup {x} |-> IF y = x THEN v ELSE f[y]]

SkipsOlder(i) ==            \* mutant of Skipped: < instead of <=
  Logs[i].ts < state
Skipped(i) == Logs[i].ts <= state

\* One line of the scan: into the pool's open window, or closing it for another one.
SameWindow(agg, i) ==
  Logs[i].pool \in DOMAIN agg.open /\ agg.open[Logs[i].pool].window = WindowOf(Logs[i].ts)
Moves(agg, i) == Logs[i].pool \in DOMAIN agg.open /\ ~SameWindow(agg, i)
KeyOfOpen(agg, p) == <<p, agg.open[p].window>>

AddLine(agg, i) ==
  LET p == Logs[i].pool
      logs == IF SameWindow(agg, i) THEN Append(agg.open[p].logs, i) ELSE <<i>>
  IN  IF Skipped(i) THEN agg
      ELSE [open |-> Put(agg.open, p, [window |-> WindowOf(Logs[i].ts), logs |-> logs]),
            closed |-> IF Moves(agg, i) THEN Put(agg.closed, KeyOfOpen(agg, p), agg.open[p].logs)
                       ELSE agg.closed]

\* The scan after n lines.
Scan[n \in 0..Len(typed)] ==
  IF n = 0 THEN [open |-> << >>, closed |-> << >>] ELSE AddLine(Scan[n - 1], typed[n])

MaxTs(n) == Max({state} \cup {Logs[typed[m]].ts : m \in 1..n})

\* The rows of the windows closed by then, of several ones of a key the last; at the end
\* of the input the open windows are closed too.
ClosedRows(n) == Scan[n].closed
OpenKeys == {KeyOfOpen(Scan[Len(typed)], p) : p \in DOMAIN Scan[Len(typed)].open}
AllRows ==
  [k \in OpenKeys \cup DOMAIN ClosedRows(Len(typed)) |->
     IF k \in OpenKeys THEN Scan[Len(typed)].open[k[1]].logs ELSE ClosedRows(Len(typed))[k]]

\* The lines after which a batch is full: it is stored, then the state.
Closes(n) == ~Skipped(typed[n]) /\ Moves(Scan[n - 1], typed[n])
FlushesAt(n) == Closes(n) /\ Cardinality({m \in 1..n : Closes(m)}) % RowBatch = 0

NewestOpen(n) ==            \* mutant of SafeTs: the newest open window counts
  Max({Scan[n].open[p].window : p \in DOMAIN Scan[n].open}) - 1

\* What saveState writes then: a time before all open windows, though it may be older than
\* the state it replaces.
SafeTs(n) == Min({Scan[n].open[p].window : p \in DOMAIN Scan[n].open}) - 1

\* The state once the first n lines are dealt with.
SavedBy(n) ==
  LET flushes == {m \in 1..n : FlushesAt(m)}
  IN  IF flushes = {} THEN state ELSE SafeTs(Max(flushes))

\* Windows the input ends in, or lacks a part of: some events are there or would have
\* come before the last one read, and some are not.
CutWindows(n) ==
  {k \in Keys : k[2] <= MaxTs(n) /\ ~(InWindow(k) \subseteq Range(typed))}

\* The first n lines have been read, and these rows are in the table, over the stored ones,
\* all but those whose commit failed: that leaves no rows, and no error either.  A window
\* closed more than once counts as lost if any of its commits is.
Stores(made, n, lost) ==
  /\ rows' = [k \in DOMAIN rows \cup (DOMAIN made \ lost) |->
                IF k \in DOMAIN made \ lost THEN made[k] ELSE rows[k]]
  /\ cut' = cut \cup CutWindows(n) \cup lost
  /\ UNCHANGED <<head, raw, torn, checkpoint, typed>>

AggregateAll ==
  /\ Stores(AllRows, Len(typed), {}) /\ state' = MaxTs(Len(typed))
  /\ UNCHANGED faults

\* After a full batch, before or after its state is saved.
AggregateDiesScanning ==
  /\ Fault
  /\ \E n \in 1..Len(typed) :
       /\ FlushesAt(n)
       /\ \E lost \in SUBSET DOMAIN ClosedRows(n) : Stores(ClosedRows(n), n, lost)
       /\ state' \in {SavedBy(n - 1), SavedBy(n)}

\* After the last batch, before the final state is saved.
AggregateDiesAtEnd ==
  /\ Fault
  /\ \E lost \in SUBSET DOMAIN AllRows : Stores(AllRows, Len(typed), lost)
  /\ state' = SavedBy(Len(typed))

\* The state moves on over lost rows.
AggregateLosesCommit ==
  /\ Fault
  /\ \E lost \in (SUBSET DOMAIN AllRows) \ {{}} : Stores(AllRows, Len(typed), lost)
  /\ state' = MaxTs(Len(typed))

Next ==
  \/ ChainGrows
  \/ RunBatch \/ RunDies
  \/ DecodeAll \/ DecodeDies
  \/ AggregateAll \/ AggregateDiesScanning \/ AggregateDiesAtEnd \/ AggregateLosesCommit

Spec == Init /\ [][Next]_vars
-----------------------------------------------------------------------------
(***************************************************************************)
(* The checkpoint is on the chain; events and rows are made of logs that   *)
(* have been fetched; a row's logs are of its pool and window.             *)
(***************************************************************************)
Fetched == {raw[j].log : j \in DOMAIN raw}
TypeOK ==
  /\ head \in 0..LastBlock /\ checkpoint \in 0..head /\ torn \in BOOLEAN
  /\ Fetched \subseteq DOMAIN Logs /\ Range(typed) \subseteq Fetched
  /\ DOMAIN rows \subseteq Keys
  /\ \A k \in DOMAIN rows : Range(rows[k]) \subseteq Fetched \cap InWindow(k)
  /\ state \in Nat /\ faults \in 0..MaxFaults /\ cut \subseteq Keys

\* What may go wrong with a window: a restart of run repeated one of its logs, or
\* aggregate saw a part of it, as it does of one with a damaged line, or lost its row.
Repeated(i) == \E j, k \in DOMAIN raw : j # k /\ raw[j].log = i /\ raw[k].log = i
Disturbed(k) == k \in cut \/ \E i \in InWindow(k) : Repeated(i)

ExactRow(row, k) == IsInjective(row) /\ Range(row) = InWindow(k)

(***************************************************************************)
(* End to end, through any restarts of the three commands: a row is        *)
(* exactly the events of its window, unless a log of this very window was  *)
(* repeated, it was aggregated before it was complete, because the input   *)
(* ended or a line was damaged, or its own row was not committed.          *)
(* Faults never spread to other windows or other pools.                    *)
(***************************************************************************)
FaultsStayLocal == \A k \in DOMAIN rows : ExactRow(rows[k], k) \/ Disturbed(k)

(***************************************************************************)
(* A window that the state has passed has its row, whoever died when; only *)
(* a disturbed one can be without.                                         *)
(***************************************************************************)
PassedWindowsHaveRows ==
  \A i \in DOMAIN Logs : Logs[i].ts <= state => KeyOf(i) \in DOMAIN rows \/ Disturbed(KeyOf(i))
=============================================================================
