------------------------------- MODULE Indexer --------------------------------
(***************************************************************************)
(* The run command: Runner.Run of internal/indexer/runner.go with          *)
(* withRetry, the block timestamp cache of chain.Client, the JSONL storage *)
(* and the checkpoint.  Processes run one after the other; each may be     *)
(* killed, cancelled or fail at any step, and the next one resumes from    *)
(* what is on disk.                                                        *)
(*                                                                         *)
(* The logs that match the address and topic filters are numbered in chain *)
(* order; a reorganisation of the chain is not modelled.  Saving and       *)
(* loading the checkpoint is atomic (module StateFile), and the batches of *)
(* SplitRange are cut one at a time (module SplitRange).                   *)
(***************************************************************************)
EXTENDS Integers, Sequences, Functions

CONSTANTS
  BlockOf,              \* BlockOf[i] is the block of the i-th matching log
  MaxBlock,             \* bound on block numbers
  Answers(_, _),        \* the lists a node may return for the logs of a block range
  Requests,             \* command lines: from and to (0: up to the latest block)
  BatchSize, MaxRetries,
  CheckpointEnabled,
  TornWrites,           \* may an interrupted append end in the middle of a line?
  ClampingNode,         \* does the node answer for a range that ends after its head?
  MaxRuns               \* bound on the number of processes

Blocks == 0..MaxBlock
Logs == DOMAIN BlockOf
None == -1              \* no checkpoint file

LogsIn(first, last) == {i \in Logs : first <= BlockOf[i] /\ BlockOf[i] <= last}

\* A complete list in chain order, in which a log may be repeated later.
IsAnswer(s, first, last) ==
  /\ s \in Seq(Logs)
  /\ Range(s) = LogsIn(first, last)
  /\ \A j \in DOMAIN s :
       \/ \A i \in 1..j - 1 : s[i] < s[j]
       \/ \E i \in 1..j - 1 : s[i] = s[j]

ASSUME ChainAssumption ==
  /\ MaxBlock \in Nat
  /\ BlockOf \in Seq(Blocks)
  /\ \A i, j \in Logs : i <= j => BlockOf[i] <= BlockOf[j]
ASSUME NodeAssumption ==
  \A first, last \in Blocks :
    Answers(first, last) # {} /\ \A s \in Answers(first, last) : IsAnswer(s, first, last)
ASSUME ConfigAssumption ==
  /\ Requests \subseteq [from : Blocks, to : Blocks]
  /\ BatchSize \in Nat \ {0} /\ MaxRetries \in Int /\ MaxRuns \in Nat
  /\ CheckpointEnabled \in BOOLEAN /\ TornWrites \in BOOLEAN /\ ClampingNode \in BOOLEAN

VARIABLES
  \* the chain
  head,
  \* on disk
  file,                 \* lines of the output: log, run that wrote it, glued to a fragment?
  torn,                 \* the output ends in a line without its newline
  checkpoint,           \* last processed block, or None
  \* the process
  pc, cancelled,
  attempt, waiting,     \* withRetry: attempts that failed, in the backoff select
  req, to, start, end,  \* arguments, last block to sync, the batch
  reply,                \* logs of the batch not looked at yet
  records,              \* records of the batch not written yet
  seen, stamped,        \* keys seen, blocks in tsCache
  \* history
  runs, asked, result,  \* processes so far, their from arguments, how the last one ended
  gaps                  \* blocks the checkpoint passed over: a run began above them

disk == <<file, torn, checkpoint>>
retry == <<attempt, waiting>>
batch == <<start, end>>
work == <<reply, records, seen, stamped>>
history == <<runs, asked, gaps>>
vars == <<head, disk, pc, cancelled, retry, req, to, batch, work, history, result>>

Min(a, b) == IF a <= b THEN a ELSE b

Init ==
  /\ head \in Blocks
  /\ file = << >> /\ torn = FALSE /\ checkpoint = None
  /\ pc = "down" /\ cancelled = FALSE
  /\ attempt = 0 /\ waiting = FALSE
  /\ req \in Requests /\ to = 0 /\ start = 0 /\ end = 0
  /\ reply = << >> /\ records = << >> /\ seen = {} /\ stamped = {}
  /\ runs = 0 /\ asked = {} /\ result = "none" /\ gaps = {}
-----------------------------------------------------------------------------
HeadGrows ==
  /\ head < MaxBlock /\ head' = head + 1
  /\ UNCHANGED <<disk, pc, cancelled, retry, req, to, batch, work, history, result>>

\* NewRunner with an empty seen, NewClient with an empty tsCache, Run.
StartProcess(r) ==
  /\ pc = "down" /\ runs < MaxRuns
  /\ runs' = runs + 1 /\ asked' = asked \cup {r.from} /\ req' = r
  /\ pc' = "connect" /\ result' = "none"
  /\ cancelled' = FALSE /\ attempt' = 0 /\ waiting' = FALSE
  /\ to' = 0 /\ start' = 0 /\ end' = 0
  /\ reply' = << >> /\ records' = << >> /\ seen' = {} /\ stamped' = {}
  /\ UNCHANGED <<head, disk, gaps>>

\* SIGINT or SIGTERM cancels the context.
Cancel ==
  /\ pc # "down" /\ ~cancelled
  /\ cancelled' = TRUE
  /\ UNCHANGED <<head, disk, pc, retry, req, to, batch, work, history, result>>

Finish(how) ==
  /\ pc' = "down" /\ result' = how /\ waiting' = FALSE
  /\ UNCHANGED <<head, checkpoint, cancelled, attempt, req, to, batch, work, history>>

\* GetChainID and, when to is 0, LatestBlockNumber, neither of them retried.
Connect ==
  /\ pc = "connect" /\ ~cancelled
  /\ to' = IF req.to = 0 THEN head ELSE req.to
  /\ pc' = "load"
  /\ UNCHANGED <<head, disk, cancelled, retry, req, batch, work, history, result>>

ResumesAtCheckpoint ==              \* mutant of ResumeFrom: the +1 is missing
  IF checkpoint >= req.from THEN checkpoint ELSE req.from

ResumeFrom == IF checkpoint >= req.from THEN checkpoint + 1 ELSE req.from

\* The checkpoint is loaded; "nothing to sync" when it is past the range.
Load ==
  /\ pc = "load"
  /\ start' = ResumeFrom
  /\ IF ResumeFrom > to THEN pc' = "down" /\ result' = "ok"
                        ELSE pc' = "batch" /\ UNCHANGED result
  /\ UNCHANGED <<head, disk, cancelled, retry, req, to, end, work, history>>

NextBatch ==
  /\ pc = "batch" /\ ~cancelled /\ start <= to
  /\ end' = Min(start + BatchSize - 1, to)
  /\ pc' = "fetch" /\ attempt' = 0
  /\ UNCHANGED <<head, disk, cancelled, waiting, req, to, start, work, history, result>>

CancelIsSuccess ==          \* mutant of LeaveLoop: a cancelled loop returns nil
  /\ pc = "batch" /\ UNCHANGED <<file, torn>>
  /\ start > to \/ cancelled
  /\ Finish("ok")

\* The select before a batch, and the end of the loop.
LeaveLoop ==
  /\ pc = "batch" /\ UNCHANGED <<file, torn>>
  /\ \/ start > to /\ Finish("ok")
     \/ start <= to /\ cancelled /\ Finish("cancelled")
-----------------------------------------------------------------------------
\* A call to the node that withRetry guards is due.
NeverDuplicate(i) == FALSE  \* mutant of IsDuplicate: seen is not consulted
IsDuplicate(i) == i \in seen
TimestampDue ==
  /\ pc = "stamp" /\ reply # << >>
  /\ ~IsDuplicate(Head(reply)) /\ BlockOf[Head(reply)] \notin stamped
CallDue == ~waiting /\ (pc = "fetch" \/ TimestampDue)

OneRetryTooMany ==          \* mutant of CallFails: attempt > maxRetries
  /\ CallDue
  /\ IF attempt > MaxRetries
     THEN Finish("error")
     ELSE /\ waiting' = TRUE
          /\ UNCHANGED <<head, checkpoint, pc, cancelled, attempt, req, to, batch,
                         work, history, result>>
  /\ UNCHANGED <<file, torn>>

CallFails ==
  /\ CallDue
  /\ IF attempt >= MaxRetries
     THEN Finish("error")
     ELSE /\ waiting' = TRUE
          /\ UNCHANGED <<head, checkpoint, pc, cancelled, attempt, req, to, batch,
                         work, history, result>>
  /\ UNCHANGED <<file, torn>>

ForgetsAttempt ==           \* mutant of BackoffExpires: attempt++ is missing
  /\ waiting /\ waiting' = FALSE
  /\ UNCHANGED <<head, disk, pc, cancelled, attempt, req, to, batch, work, history, result>>

BackoffExpires ==
  /\ waiting /\ waiting' = FALSE
  /\ attempt' = attempt + 1
  /\ UNCHANGED <<head, disk, pc, cancelled, req, to, batch, work, history, result>>

BackoffCancelled ==
  /\ waiting /\ cancelled
  /\ UNCHANGED <<file, torn>> /\ Finish("cancelled")

\* A range that ends after the head is refused, or answered up to the head.
NodeAnswers == end <= head \/ ClampingNode

FilterLogs ==
  /\ CallDue /\ pc = "fetch" /\ ~cancelled /\ NodeAnswers
  /\ reply' \in Answers(start, Min(end, head))
  /\ pc' = "stamp" /\ attempt' = 0
  /\ UNCHANGED <<head, disk, cancelled, waiting, req, to, batch, records, seen,
                 stamped, history, result>>

SkipDuplicate ==
  /\ pc = "stamp" /\ reply # << >> /\ IsDuplicate(Head(reply))
  /\ reply' = Tail(reply)
  /\ UNCHANGED <<head, disk, pc, cancelled, retry, req, to, batch, records, seen,
                 stamped, history, result>>

\* The timestamp comes from tsCache, or from a header call that succeeds; the
\* key is seen from here on.
BuildRecord ==
  /\ pc = "stamp" /\ reply # << >> /\ ~IsDuplicate(Head(reply))
  /\ ~TimestampDue \/ (CallDue /\ ~cancelled)
  /\ records' = Append(records, Head(reply))
  /\ seen' = seen \cup {Head(reply)}
  /\ stamped' = stamped \cup {BlockOf[Head(reply)]}
  /\ reply' = Tail(reply) /\ attempt' = 0
  /\ UNCHANGED <<head, disk, pc, cancelled, waiting, req, to, batch, history, result>>

RecordsComplete ==
  /\ pc = "stamp" /\ reply = << >>
  /\ pc' = "write"
  /\ UNCHANGED <<head, disk, cancelled, retry, req, to, batch, work, history, result>>
-----------------------------------------------------------------------------
NoNewline ==                \* mutant of WriteRecord: WriteByte is missing
  /\ pc = "write" /\ records # << >>
  /\ file' = Append(file, [log |-> Head(records), run |-> runs, glued |-> torn])
  /\ torn' = TRUE
  /\ records' = Tail(records)
  /\ UNCHANGED <<head, checkpoint, pc, cancelled, retry, req, to, batch, reply, seen,
                 stamped, history, result>>

\* PutLogBatch appends the records; one that follows a fragment shares its line.
WriteRecord ==
  /\ pc = "write" /\ records # << >>
  /\ file' = Append(file, [log |-> Head(records), run |-> runs, glued |-> torn])
  /\ torn' = FALSE
  /\ records' = Tail(records)
  /\ UNCHANGED <<head, checkpoint, pc, cancelled, retry, req, to, batch, reply, seen,
                 stamped, history, result>>

BatchStored ==
  /\ pc = "write" /\ records = << >>
  /\ pc' = "save"
  /\ UNCHANGED <<head, disk, cancelled, retry, req, to, batch, work, history, result>>

\* How much of the record being written an interruption leaves behind.
LeavesFragment ==
  \/ UNCHANGED torn
  \/ pc = "write" /\ records # << >> /\ TornWrites /\ torn' = TRUE

ForgetsEnd ==               \* mutant of SaveCheckpoint: to is saved, not the batch's end
  /\ pc = "save"
  /\ checkpoint' = IF CheckpointEnabled THEN to ELSE checkpoint
  /\ gaps' = IF CheckpointEnabled THEN gaps \cup (checkpoint + 1..start - 1) ELSE gaps
  /\ start' = end + 1 /\ pc' = "batch"
  /\ UNCHANGED <<head, file, torn, cancelled, retry, req, to, end, work, runs, asked, result>>

SaveCheckpoint ==
  /\ pc = "save"
  /\ checkpoint' = IF CheckpointEnabled THEN end ELSE checkpoint
  /\ gaps' = IF CheckpointEnabled THEN gaps \cup (checkpoint + 1..start - 1) ELSE gaps
  /\ start' = end + 1 /\ pc' = "batch"
  /\ UNCHANGED <<head, file, torn, cancelled, retry, req, to, end, work, runs, asked, result>>

SkipsFailedBatch ==         \* mutant of StepFails: a failed write is only logged
  \/ /\ pc = "connect" \/ (pc \in {"load", "save"} /\ CheckpointEnabled)
     /\ UNCHANGED <<file, torn>>
     /\ Finish("error")
  \/ /\ pc = "write" /\ records # << >>
     /\ pc' = "batch" /\ start' = end + 1 /\ records' = << >>
     /\ UNCHANGED <<head, disk, cancelled, retry, req, to, end, reply, seen, stamped,
                    history, result>>

\* The calls that are not retried: connecting, the checkpoint file and the
\* output file (a batch without records does not open it).
StepFails ==
  /\ \/ pc = "connect"
     \/ pc \in {"load", "save"} /\ CheckpointEnabled
     \/ pc = "write" /\ records # << >>
  /\ UNCHANGED file /\ LeavesFragment
  /\ Finish("error")

Crash ==
  /\ pc # "down"
  /\ UNCHANGED file /\ LeavesFragment
  /\ Finish("crash")
-----------------------------------------------------------------------------
RunStep ==
  \/ Connect \/ Load \/ NextBatch \/ LeaveLoop
  \/ CallFails \/ BackoffExpires \/ BackoffCancelled
  \/ FilterLogs \/ SkipDuplicate \/ BuildRecord \/ RecordsComplete
  \/ WriteRecord \/ BatchStored \/ SaveCheckpoint \/ StepFails

Next ==
  \/ HeadGrows \/ Cancel \/ Crash
  \/ \E r \in Requests : StartProcess(r)
  \/ RunStep

Spec == Init /\ [][Next]_vars

\* The process is scheduled, timers fire and the node answers, one way or the other.
FairSpec == Spec /\ WF_vars(RunStep)
-----------------------------------------------------------------------------
Line == [log : Logs, run : 1..MaxRuns, glued : BOOLEAN]

TypeOK ==
  /\ head \in Blocks
  /\ file \in Seq(Line) /\ torn \in BOOLEAN
  /\ checkpoint \in Blocks \cup {None}
  /\ pc \in {"down", "connect", "load", "batch", "fetch", "stamp", "write", "save"}
  /\ cancelled \in BOOLEAN
  /\ attempt \in 0..(IF MaxRetries < 0 THEN 0 ELSE MaxRetries) /\ waiting \in BOOLEAN
  /\ req \in Requests
  /\ to \in Blocks /\ start \in 0..MaxBlock + 1 /\ end \in Blocks
  /\ reply \in Seq(Logs) /\ records \in Seq(Logs)
  /\ seen \subseteq Logs /\ stamped \subseteq Blocks
  /\ runs \in 0..MaxRuns /\ asked \subseteq Blocks /\ gaps \subseteq Blocks
  /\ result \in {"none", "ok", "error", "cancelled", "crash"}

HasLine(i) == \E k \in DOMAIN file : file[k].log = i

\* A log in the blocks between a checkpoint and the from of a run that then moved it: the
\* checkpoint does not say where it began, and no run fetches these blocks any more.
InGap(i) == BlockOf[i] \in gaps

(***************************************************************************)
(* No log is lost: whatever crashed, failed or was cancelled in whatever   *)
(* run, each log up to the checkpoint, which no later run fetches again,   *)
(* has its line in the output, the blocks that a run's from left out       *)
(* aside.                                                                  *)
(***************************************************************************)
CheckpointedLogsHaveLine ==
  \A i \in Logs : BlockOf[i] <= checkpoint => HasLine(i) \/ InGap(i)

(***************************************************************************)
(* What a fragment can damage is the first line the next run appends, so   *)
(* every interrupted run costs at most one log.                            *)
(***************************************************************************)
DamageIsFirstLine ==
  \A k \in DOMAIN file :
    file[k].glued => \A j \in 1..k - 1 : file[j].run # file[k].run

(***************************************************************************)
(* When a run reports success, every log of its range is on disk, put      *)
(* there by this run or an earlier one; but for logs in a gap, which it    *)
(* skips like all blocks below the checkpoint (runner.go:94), though no    *)
(* run has fetched them.                                                   *)
(***************************************************************************)
SuccessCoversRequest ==
  result = "ok" => \A i \in LogsIn(req.from, to) : HasLine(i) \/ InGap(i)

(***************************************************************************)
(* A run writes no log twice, though the node may list it twice.           *)
(***************************************************************************)
NoRepeatInRun ==
  \A j, k \in DOMAIN file :
    j # k /\ file[j].run = file[k].run => file[j].log # file[k].log

\* Every run so far was asked for the block of the i-th log.
AlwaysAsked(i) == \A f \in asked : f <= BlockOf[i]

(***************************************************************************)
(* Restarts repeat lines but never reorder them: a line is a repetition,   *)
(* or its log comes after all the logs before it.  Whoever drops           *)
(* repetitions reads the chain in order (from the highest --from on).      *)
(***************************************************************************)
FirstLinesInChainOrder ==
  \A k \in {l \in DOMAIN file : AlwaysAsked(file[l].log)} :
    \/ \A j \in 1..k - 1 : file[j].log < file[k].log
    \/ \E j \in 1..k - 1 : file[j].log = file[k].log

(***************************************************************************)
(* The checkpoint never moves back, and what is appended lies above it:    *)
(* the repetitions a restart writes are those of one unsaved batch.        *)
(***************************************************************************)
WritesAboveCheckpoint ==
  [][/\ checkpoint' >= checkpoint
     /\ Len(file') > Len(file) => BlockOf[file'[Len(file')].log] > checkpoint]_vars

(***************************************************************************)
(* A run ends: retries are bounded and a cancellation is honoured, whatever*)
(* fails, as long as every call to the node returns.                       *)
(***************************************************************************)
RunsEnd == (pc # "down") ~> (pc = "down")
=============================================================================
