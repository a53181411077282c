-------------------------------- MODULE Reorg ---------------------------------
(***************************************************************************)
(* Runner.Run and chain.Client on a chain that replaces its last blocks:   *)
(* between FilterLogs and the header calls, between two header calls, and  *)
(* between two batches or runs.  Logs are fetched by number, time stamps   *)
(* by number and cached by number; only the hash in a line tells which     *)
(* block it is from.                                                       *)
(*                                                                         *)
(* Retries, repeated logs in an answer and torn appends are in module      *)
(* Indexer; here a call that fails for good ends the process.              *)
(***************************************************************************)
EXTENDS Integers, Sequences, Functions

CONSTANTS
  MaxHead, MaxReorgs, MaxRuns,  \* bounds on the chain, its reorganisations, the processes
  Depth,                \* the last blocks of the chain may be replaced, the others are final
  BatchSize,
  Requests,             \* ranges asked for: from and to, 0 for the latest block
  LogsOf,               \* the transactions of the logs of a version of a block, in order
  TimeOf                \* its time stamp
ASSUME ReorgAssumption ==
  /\ MaxHead \in Nat /\ MaxReorgs \in Nat /\ MaxRuns \in Nat
  /\ Depth \in Nat /\ BatchSize \in Nat \ {0}
  /\ Requests \subseteq [from : Nat \ {0}, to : Nat]

Versions == 0..MaxReorgs
Blocks == 1..MaxHead
Txs == UNION {Range(LogsOf[b][v]) : b \in Blocks, v \in Versions}
ASSUME ChainAssumption ==
  /\ LogsOf \in [Blocks -> [Versions -> Seq(Txs)]]
  /\ TimeOf \in [Blocks -> [Versions -> Nat]]

\* The logs of version v of block b.
LogsIn(b, v) ==
  {[block |-> b, version |-> v, tx |-> LogsOf[b][v][i], index |-> i] : i \in DOMAIN LogsOf[b][v]}
Logs == UNION {LogsIn(b, v) : b \in Blocks, v \in Versions}

None == -1              \* no checkpoint

VARIABLES
  chain,                \* the node's chain: the version of each block
  reorgs,               \* reorganisations so far, the version of the next blocks
  final,                \* blocks up to this one are never replaced
  \* stored
  lines, checkpoint,
  \* the process
  pc, request,
  next, to, end,        \* first block of the batch, of the run the last, of the batch the last
  reply,                \* set of the logs of the answer without a record
  records,
  tsCache,              \* function from blocks to time stamps
  \* history
  run,
  sure,                 \* blocks up to this one were final when the batch was fetched
  settled               \* blocks that were final when a batch below the checkpoint was

node == <<chain, reorgs, final>>
range == <<request, next, to, end>>
vars == <<node, lines, checkpoint, pc, range, reply, records, tsCache, run, sure, settled>>

Init ==
  /\ chain = << >> /\ reorgs = 0 /\ final = 0
  /\ lines = << >> /\ checkpoint = None
  /\ pc = "down" /\ request \in Requests
  /\ next = 0 /\ to = 0 /\ end = 0
  /\ reply = {} /\ records = << >> /\ tsCache = << >>
  /\ run = 0 /\ sure = 0 /\ settled = {}
-----------------------------------------------------------------------------
MaxOf(a, b) == IF a >= b THEN a ELSE b
MinOf(a, b) == IF a <= b THEN a ELSE b
Versioned(n) == [i \in 1..n |-> reorgs']

ChainGrows ==
  /\ Len(chain) < MaxHead
  /\ chain' = Append(chain, reorgs) /\ UNCHANGED reorgs
  /\ final' = MaxOf(final, Len(chain') - Depth)
  /\ UNCHANGED <<lines, checkpoint, pc, range, reply, records, tsCache, run, sure, settled>>

\* Blocks that are not final are replaced, by more or by fewer ones.
ChainReorganises ==
  /\ reorgs < MaxReorgs /\ reorgs' = reorgs + 1
  /\ \E fork \in final..Len(chain) - 1, new \in 0..Depth :
       /\ fork + new <= MaxHead
       /\ chain' = SubSeq(chain, 1, fork) \o Versioned(new)
       /\ final' = MaxOf(final, Len(chain') - Depth)
  /\ UNCHANGED <<lines, checkpoint, pc, range, reply, records, tsCache, run, sure, settled>>
-----------------------------------------------------------------------------
CacheSurvives ==            \* mutant of StartProcess: the time stamps of the last run are kept
  /\ pc = "down" /\ run < MaxRuns
  /\ run' = run + 1 /\ request' \in Requests
  /\ to' = IF request'.to = 0 THEN Len(chain) ELSE request'.to
  /\ next' = IF checkpoint >= request'.from THEN checkpoint + 1 ELSE request'.from
  /\ next' <= to'
  /\ pc' = "batch" /\ end' = 0 /\ reply' = {} /\ records' = << >>
  /\ UNCHANGED <<node, lines, checkpoint, tsCache, sure, settled>>

\* NewClient, LatestBlockNumber and the checkpoint; nothing to sync is no step.
StartProcess ==
  /\ pc = "down" /\ run < MaxRuns
  /\ run' = run + 1 /\ request' \in Requests
  /\ to' = IF request'.to = 0 THEN Len(chain) ELSE request'.to
  /\ next' = IF checkpoint >= request'.from THEN checkpoint + 1 ELSE request'.from
  /\ next' <= to'
  /\ pc' = "batch" /\ end' = 0
  /\ reply' = {} /\ records' = << >> /\ tsCache' = << >>
  /\ UNCHANGED <<node, lines, checkpoint, sure, settled>>

NextBatch ==
  /\ pc = "batch" /\ next <= to
  /\ end' = IF next + BatchSize - 1 < to THEN next + BatchSize - 1 ELSE to
  /\ pc' = "fetch"
  /\ UNCHANGED <<node, lines, checkpoint, request, next, to, reply, records, tsCache, run, sure, settled>>

LeaveLoop ==
  /\ pc = "batch" /\ next > to
  /\ pc' = "down"
  /\ UNCHANGED <<node, lines, checkpoint, range, reply, records, tsCache, run, sure, settled>>

LogsAt(b) == LogsIn(b, chain[b])

\* The node answers from its chain of the moment; a range that ends above its head it
\* answers up to the head (or refuses: Stops).
FilterLogs ==
  /\ pc = "fetch"
  /\ reply' = UNION {LogsAt(b) : b \in next..MinOf(end, Len(chain))}
  /\ records' = << >> /\ pc' = "stamp"
  /\ sure' = final
  /\ UNCHANGED <<node, lines, checkpoint, range, tsCache, run, settled>>

Put(f, x, v) == [y \in DOMAIN f \cup {x} |-> IF y = x THEN v ELSE f[y]]
Record(log, ts) == [log |-> log, ts |-> ts, run |-> run, sure |-> log.block <= sure]

\* The runner takes the logs of the answer in their order.
IsFirst(log) ==
  \A other \in reply :
    log.block < other.block \/ (log.block = other.block /\ log.index <= other.index)

NeverCached ==              \* mutant of BlockTimestamp: every log asks for the header
  /\ pc = "stamp"
  /\ \E log \in reply :
       /\ IsFirst(log) /\ log.block <= Len(chain)
       /\ records' = Append(records, Record(log, TimeOf[log.block][chain[log.block]]))
       /\ reply' = reply \ {log}
  /\ UNCHANGED <<node, lines, checkpoint, pc, range, tsCache, run, sure, settled>>

\* The time is the cached one, or that of the block which has the number now.
BlockTimestamp ==
  /\ pc = "stamp"
  /\ \E log \in reply :
       LET b == log.block
       IN  /\ IsFirst(log)
           /\ \/ b \in DOMAIN tsCache /\ UNCHANGED tsCache
              \/ /\ b \notin DOMAIN tsCache /\ b <= Len(chain)
                 /\ tsCache' = Put(tsCache, b, TimeOf[b][chain[b]])
           /\ records' = Append(records, Record(log, tsCache'[b]))
           /\ reply' = reply \ {log}
  /\ UNCHANGED <<node, lines, checkpoint, pc, range, run, sure, settled>>

StoresLater ==              \* mutant of PutLogBatch: the append is left to a later flush
  /\ pc = "stamp" /\ reply = {}
  /\ pc' = "save" /\ lines' \in {lines, lines \o records}
  /\ UNCHANGED <<node, checkpoint, range, reply, records, tsCache, run, sure, settled>>

PutLogBatch ==
  /\ pc = "stamp" /\ reply = {}
  /\ pc' = "save" /\ lines' = lines \o records
  /\ UNCHANGED <<node, checkpoint, range, reply, records, tsCache, run, sure, settled>>

SaveCheckpoint ==
  /\ pc = "save" /\ pc' = "batch"
  /\ checkpoint' = end /\ next' = end + 1
  /\ settled' = settled \cup {b \in next..end : b <= sure}
  /\ UNCHANGED <<node, lines, request, to, end, reply, records, tsCache, run, sure>>

\* A call fails after its retries, the context is cancelled, or the process is killed.
Stops ==
  /\ pc # "down" /\ pc' = "down"
  /\ UNCHANGED <<node, lines, checkpoint, range, reply, records, tsCache, run, sure, settled>>

Next ==
  \/ ChainGrows \/ ChainReorganises
  \/ StartProcess \/ NextBatch \/ LeaveLoop
  \/ FilterLogs \/ BlockTimestamp \/ PutLogBatch \/ SaveCheckpoint
  \/ Stops

Spec == Init /\ [][Next]_vars
-----------------------------------------------------------------------------
\* A line carries a time that some version of its block has.
Line == {l \in [log : Logs, ts : Nat, run : 1..MaxRuns, sure : BOOLEAN] :
           \E v \in Versions : l.ts = TimeOf[l.log.block][v]}

(***************************************************************************)
(* Final blocks are blocks of the chain; what is recorded is a log of some *)
(* version of its block.                                                   *)
(***************************************************************************)
TypeOK ==
  /\ chain \in Seq(Versions) /\ Len(chain) <= MaxHead
  /\ reorgs \in Versions /\ final \in 0..Len(chain)
  /\ pc \in {"down", "batch", "fetch", "stamp", "save"}
  /\ request \in Requests /\ next \in Nat /\ to \in Nat /\ end \in Nat
  /\ pc \in {"fetch", "stamp", "save"} => next <= end /\ end <= to
  /\ checkpoint \in Nat \cup {None} /\ settled \subseteq 1..final
  /\ reply \subseteq Logs /\ records \in Seq(Line) /\ lines \in Seq(Line)
  /\ \A b \in DOMAIN tsCache : b \in Blocks /\ \E v \in Versions : tsCache[b] = TimeOf[b][v]
  /\ run \in 0..MaxRuns /\ sure \in 0..final

(***************************************************************************)
(* The lines that one run appends for a block are of one version and carry *)
(* one time stamp, though the chain may change between their header calls. *)
(* Two runs that fetch the block again may give its hash two times, when   *)
(* the chain changes before the second one's header call.                  *)
(***************************************************************************)
OneBlockOneTime ==
  \A i, j \in DOMAIN lines :
    lines[i].run = lines[j].run /\ lines[i].log.block = lines[j].log.block =>
      /\ lines[i].log.version = lines[j].log.version
      /\ lines[i].ts = lines[j].ts

(***************************************************************************)
(* A log fetched when its block was final is on the chain for good, with   *)
(* the time of its own block: no earlier version's time stamp comes back   *)
(* from a cache, and no orphan passes for it.                              *)
(***************************************************************************)
FinalLinesExact ==
  \A i \in DOMAIN lines :
    lines[i].sure =>
      LET b == lines[i].log.block
      IN  lines[i].log.version = chain[b] /\ lines[i].ts = TimeOf[b][chain[b]]

(***************************************************************************)
(* Of a block that was final when the batch below the checkpoint was       *)
(* fetched, the lines with the hash of the chain's block are its logs, all *)
(* of them, whatever was fetched, replaced and fetched again before.       *)
(***************************************************************************)
SettledBlocksComplete ==
  \A b \in settled :
    {<<lines[i].log.tx, lines[i].log.index>> :
       i \in {n \in DOMAIN lines : lines[n].log.block = b /\ lines[n].log.version = chain[b]}}
      = {<<LogsOf[b][chain[b]][i], i>> : i \in DOMAIN LogsOf[b][chain[b]]}
=============================================================================
