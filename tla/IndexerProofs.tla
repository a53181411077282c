---------------------------- MODULE IndexerProofs -----------------------------
(***************************************************************************)
(* What the run command promises across restarts, for every chain, every   *)
(* sequence of command lines, every batch size and number of retries.      *)
(***************************************************************************)
EXTENDS Indexer, TLAPS

InBatch == pc \in {"fetch", "stamp", "write", "save"}
InLoop == InBatch \/ pc = "batch"

\* The control part, which holds whatever the node answers.
ControlInv ==
  /\ TypeOK
  /\ pc # "down" => runs > 0 /\ req.from \in asked /\ result = "none"
  /\ waiting => attempt < MaxRetries /\ InLoop
  /\ InBatch => start <= end /\ end <= to

\* A gap lies below the from of some run; the first batch that is not of this run's own
\* from follows the checkpoint.
GapsInv ==
  /\ \A b \in gaps : \E f \in asked : b < f
  /\ InLoop => /\ req.from <= start
               /\ CheckpointEnabled => start = req.from \/ start = checkpoint + 1

\* Every log of this run's range below block b has a line, unless it is in a gap.
CoveredBelow(b) ==
  \A i \in Logs : req.from <= BlockOf[i] /\ BlockOf[i] < b => HasLine(i) \/ InGap(i)

\* What is seen so far of the current batch and of those before it, all of
\* which lie above the checkpoint.
SeenInv ==
  /\ pc \in {"connect", "load"} => seen = {}
  /\ pc \in {"connect", "load", "batch", "fetch", "save"} => records = << >>
  /\ pc \in {"batch", "fetch"} => \A i \in seen : BlockOf[i] < start
  /\ pc \in {"stamp", "write", "save"} => \A i \in seen : BlockOf[i] <= end
  /\ pc = "stamp" => Range(reply) \subseteq LogsIn(start, end)
  /\ pc \in {"stamp", "write"} =>
       /\ Range(records) \subseteq seen
       /\ Range(records) \subseteq LogsIn(start, end)
  /\ pc = "stamp" => \A i \in seen : BlockOf[i] >= start => i \in Range(records)
  /\ InLoop => checkpoint < start

\* Where each log of the batch is.
BatchInv ==
  /\ pc = "stamp" => LogsIn(start, end) \subseteq Range(records) \cup Range(reply)
  /\ pc = "write" => \A i \in LogsIn(start, end) : HasLine(i) \/ i \in Range(records)
  /\ pc = "save" => CoveredBelow(end + 1)

\* Nothing is missing below the checkpoint and below the batch.
CoverInv ==
  /\ ~ClampingNode
  /\ CheckpointedLogsHaveLine
  /\ InLoop => CoveredBelow(start)
  /\ SuccessCoversRequest

KeepsInv == ControlInv /\ SeenInv /\ GapsInv /\ BatchInv /\ CoverInv

\* A run's lines are of logs it has seen and will not write again, and a
\* fragment it found is still the end of the file until its first line.
RunLinesInv ==
  /\ \A k \in DOMAIN file : file[k].run <= runs
  /\ pc # "down" =>
       \A k \in DOMAIN file :
         file[k].run = runs => file[k].log \in seen /\ file[k].log \notin Range(records)
  /\ pc # "down" /\ torn => \A k \in DOMAIN file : file[k].run # runs
  /\ \A j, k \in DOMAIN records : j # k => records[j] # records[k]
  /\ NoRepeatInRun
  /\ DamageIsFirstLine

\* Holds whatever the node answers.
RunInv == ControlInv /\ SeenInv /\ RunLinesInv

\* The records of the batch, and what the reply adds to them, are in order.
Earlier(m, j) == m \in Range(records) \/ \E i \in 1..j - 1 : reply[i] = m
BatchInOrder ==
  /\ pc \in {"stamp", "write"} =>
       \A j, k \in DOMAIN records : j < k => records[j] < records[k]
  /\ pc = "stamp" =>
       \A j \in DOMAIN reply :
         Earlier(reply[j], j) \/ \A m \in Logs : Earlier(m, j) => m < reply[j]

\* A line is only written when those of all earlier logs are there.
LinesInOrder ==
  /\ \A k \in DOMAIN file, i \in Logs :
       i < file[k].log /\ AlwaysAsked(i) => HasLine(i)
  /\ FirstLinesInChainOrder

OrderInv == BatchInOrder /\ LinesInOrder

-----------------------------------------------------------------------------
\* Sequences and their ranges.
LEMMA RangeOfTail ==
  ASSUME NEW S, NEW s \in Seq(S), s # << >>
  PROVE  /\ Head(s) \in S /\ Tail(s) \in Seq(S)
         /\ Range(s) = {Head(s)} \cup Range(Tail(s))
         /\ Len(Tail(s)) = Len(s) - 1
         /\ \A i \in DOMAIN Tail(s) : i + 1 \in DOMAIN s /\ Tail(s)[i] = s[i + 1]
<1>1. /\ Len(s) \in Nat \ {0} /\ Head(s) = s[1] /\ DOMAIN s = 1..Len(s)
      /\ Tail(s) \in Seq(S) /\ Len(Tail(s)) = Len(s) - 1
      /\ DOMAIN Tail(s) = 1..Len(s) - 1
      /\ \A i \in 1..Len(s) - 1 : Tail(s)[i] = s[i + 1]
  OBVIOUS
<1>2. ASSUME NEW i \in DOMAIN s PROVE s[i] \in {Head(s)} \cup Range(Tail(s))
  <2>1. CASE i = 1
    BY <2>1, <1>1
  <2>2. CASE i # 1
    <3>1. i - 1 \in DOMAIN Tail(s) /\ Tail(s)[i - 1] = s[i]
      BY <2>2, <1>1
    <3> QED
      BY <3>1 DEF Range
  <2> QED
    BY <2>1, <2>2
<1>3. ASSUME NEW i \in DOMAIN Tail(s) PROVE Tail(s)[i] \in Range(s)
  <2>1. i + 1 \in DOMAIN s /\ Tail(s)[i] = s[i + 1]
    BY <1>1
  <2> QED
    BY <2>1 DEF Range
<1>4. Head(s) \in Range(s) /\ Head(s) \in S
  BY <1>1 DEF Range
<1>5. Range(s) = {Head(s)} \cup Range(Tail(s))
  BY <1>2, <1>3, <1>4 DEF Range
<1> QED
  BY <1>1, <1>4, <1>5

LEMMA RangeOfAppend ==
  ASSUME NEW S, NEW s \in Seq(S), NEW e \in S
  PROVE  /\ Append(s, e) \in Seq(S)
         /\ Range(Append(s, e)) = Range(s) \cup {e}
         /\ Len(Append(s, e)) = Len(s) + 1
         /\ DOMAIN Append(s, e) = 1..Len(s) + 1
         /\ Append(s, e)[Len(s) + 1] = e
         /\ \A i \in 1..Len(s) : Append(s, e)[i] = s[i]
<1>1. /\ Len(s) \in Nat /\ DOMAIN s = 1..Len(s)
      /\ Append(s, e) \in Seq(S) /\ Len(Append(s, e)) = Len(s) + 1
      /\ DOMAIN Append(s, e) = 1..Len(s) + 1
      /\ Append(s, e)[Len(s) + 1] = e
      /\ \A i \in 1..Len(s) : Append(s, e)[i] = s[i]
  OBVIOUS
<1>2. ASSUME NEW i \in 1..Len(s) + 1 PROVE Append(s, e)[i] \in Range(s) \cup {e}
  BY <1>1 DEF Range
<1>3. ASSUME NEW i \in DOMAIN s PROVE s[i] \in Range(Append(s, e))
  <2>1. i \in DOMAIN Append(s, e) /\ Append(s, e)[i] = s[i]
    BY <1>1
  <2> QED
    BY <2>1 DEF Range
<1>4. e \in Range(Append(s, e))
  <2>1. Len(s) + 1 \in DOMAIN Append(s, e)
    BY <1>1
  <2> QED
    BY <2>1, <1>1 DEF Range
<1>5. Range(Append(s, e)) = Range(s) \cup {e}
  BY <1>1, <1>2, <1>3, <1>4 DEF Range
<1> QED
  BY <1>1, <1>5

LEMMA EmptyRange == Range(<< >>) = {}
  BY DEF Range

\* What a node answers for a range of blocks.
LEMMA AnswerMeaning ==
  ASSUME NEW first \in Blocks, NEW last \in Blocks, NEW s \in Answers(first, last)
  PROVE  /\ s \in Seq(Logs) /\ Range(s) = LogsIn(first, last)
         /\ \A j \in DOMAIN s :
              \/ \A i \in 1..j - 1 : s[i] < s[j]
              \/ \E i \in 1..j - 1 : s[i] = s[j]
  BY NodeAssumption DEF IsAnswer

LEMMA ChainFacts ==
  /\ MaxBlock \in Nat
  /\ Logs = 1..Len(BlockOf) /\ Len(BlockOf) \in Nat
  /\ \A i \in Logs : BlockOf[i] \in Blocks
  BY ChainAssumption DEF Logs, Blocks

LEMMA ConfigFacts ==
  /\ \A r \in Requests : r.from \in Blocks /\ r.to \in Blocks
  /\ BatchSize \in Nat \ {0} /\ MaxRetries \in Int /\ MaxRuns \in Nat
  BY ConfigAssumption

Attempts == 0..(IF MaxRetries < 0 THEN 0 ELSE MaxRetries)
LEMMA AttemptFacts ==
  /\ 0 \in Attempts
  /\ \A n \in Attempts : n < MaxRetries => n + 1 \in Attempts
  BY ConfigFacts DEF Attempts
-----------------------------------------------------------------------------
LEMMA InitControlInv == Init => ControlInv
<1> SUFFICES ASSUME Init PROVE ControlInv
  OBVIOUS
<1>1. << >> \in Seq(Line) /\ << >> \in Seq(Logs)
  OBVIOUS
<1>2. 0 \in Blocks /\ 0 \in 0..MaxBlock + 1 /\ 0 \in 0..MaxRuns
  BY ChainFacts, ConfigFacts DEF Blocks
<1>3. attempt \in Attempts
  BY AttemptFacts DEF Init
<1> QED
  BY <1>1, <1>2, <1>3 DEF Init, ControlInv, TypeOK, InLoop, InBatch, Attempts

LEMMA NextControlInv == ControlInv /\ [Next]_vars => ControlInv'
<1> SUFFICES ASSUME ControlInv, [Next]_vars PROVE ControlInv'
  OBVIOUS
<1> USE ChainFacts, ConfigFacts
    DEF ControlInv, TypeOK, InLoop, InBatch, Blocks, disk, retry, batch, work, history
<1>1. CASE HeadGrows
  BY <1>1 DEF HeadGrows
<1>2. CASE Cancel
  BY <1>2 DEF Cancel
<1>3. CASE Crash
  BY <1>3 DEF Crash, Finish, LeavesFragment
<1>4. ASSUME NEW r \in Requests, StartProcess(r) PROVE ControlInv'
  <2>1. runs' \in 0..MaxRuns /\ runs' > 0
    BY <1>4 DEF StartProcess
  <2>4. r.from \in Blocks
    BY ConfigFacts
  <2>5. asked' \subseteq Blocks /\ req'.from \in asked' /\ req' \in Requests
    BY <1>4, <2>4 DEF StartProcess
  <2>6. 0 \in Blocks /\ 0 \in 0..MaxBlock + 1
    OBVIOUS
  <2>2. attempt' \in Attempts
    BY <1>4, AttemptFacts DEF StartProcess
  <2>3. reply' \in Seq(Logs) /\ records' \in Seq(Logs)
    BY <1>4 DEF StartProcess
  <2> QED
    BY <1>4, <2>1, <2>2, <2>3, <2>5, <2>6 DEF StartProcess, Attempts
<1>5. CASE Connect
  BY <1>5 DEF Connect
<1>6. CASE Load
  <2>1. start' \in 0..MaxBlock + 1
    BY <1>6 DEF Load, ResumeFrom, None
  <2>2. pc' \in {"down", "batch"} /\ result' \in {"ok", "none"}
        /\ (pc' # "down" => result' = "none")
    BY <1>6 DEF Load
  <2>3. UNCHANGED <<head, file, torn, checkpoint, cancelled, attempt, waiting, req, to, end,
                    reply, records, seen, stamped, runs, asked, gaps>> /\ waiting = FALSE
    BY <1>6 DEF Load
  <2> QED
    BY <1>6, <2>1, <2>2, <2>3 DEF Load
<1>7. CASE NextBatch
  BY <1>7 DEF NextBatch, Min
<1>8. CASE LeaveLoop
  BY <1>8 DEF LeaveLoop, Finish
<1>9. CASE CallFails
  <2>1. CASE attempt >= MaxRetries
    <3>1. Finish("error") /\ UNCHANGED <<file, torn>>
      BY <1>9, <2>1 DEF CallFails
    <3> QED
      BY <3>1 DEF Finish
  <2>2. CASE ~(attempt >= MaxRetries)
    <3>1. /\ waiting' = TRUE /\ UNCHANGED <<file, torn>>
          /\ UNCHANGED <<head, checkpoint, pc, cancelled, attempt, req, to, start, end,
                         reply, records, seen, stamped, runs, asked, gaps, result>>
      BY <1>9, <2>2 DEF CallFails
    <3>2. attempt < MaxRetries
      BY <2>2
    <3>3. InLoop /\ pc' = pc
      BY <1>9, <3>1 DEF CallFails, CallDue, TimestampDue
    <3> QED
      BY <3>1, <3>2, <3>3
  <2> QED
    BY <2>1, <2>2
<1>10. CASE BackoffExpires
  <2>1. attempt' \in Attempts
    BY <1>10, AttemptFacts DEF BackoffExpires, Attempts
  <2> QED
    BY <1>10, <2>1 DEF BackoffExpires, Attempts
<1>11. CASE BackoffCancelled
  BY <1>11 DEF BackoffCancelled, Finish
<1>12. CASE FilterLogs
  <2>1. start \in Blocks /\ Min(end, head) \in Blocks
    BY <1>12 DEF FilterLogs, Min
  <2>2. reply' \in Seq(Logs)
    BY <1>12, <2>1, AnswerMeaning DEF FilterLogs
  <2> QED
    BY <1>12, <2>2 DEF FilterLogs
<1>13. CASE SkipDuplicate
  <2>1. reply' \in Seq(Logs)
    BY <1>13, RangeOfTail DEF SkipDuplicate
  <2> QED
    BY <1>13, <2>1 DEF SkipDuplicate
<1>14. CASE BuildRecord
  <2>1. Head(reply) \in Logs /\ reply' \in Seq(Logs)
    BY <1>14, RangeOfTail DEF BuildRecord
  <2>2. records' \in Seq(Logs)
    BY <1>14, <2>1, RangeOfAppend DEF BuildRecord
  <2>3. stamped' \subseteq Blocks /\ seen' \subseteq Logs
    BY <1>14, <2>1, Head(reply) \in Logs DEF BuildRecord
  <2>4. attempt' \in Attempts
    BY <1>14, AttemptFacts DEF BuildRecord
  <2> QED
    BY <1>14, <2>1, <2>2, <2>3, <2>4 DEF BuildRecord, Attempts
<1>15. CASE RecordsComplete
  BY <1>15 DEF RecordsComplete
<1>16. CASE WriteRecord
  <2>1. Head(records) \in Logs /\ records' \in Seq(Logs)
    BY <1>16, RangeOfTail DEF WriteRecord
  <2>2. [log |-> Head(records), run |-> runs, glued |-> torn] \in Line
    BY <1>16, <2>1 DEF WriteRecord, Line
  <2>3. file' \in Seq(Line)
    BY <1>16, <2>2, RangeOfAppend DEF WriteRecord
  <2> QED
    BY <1>16, <2>1, <2>3 DEF WriteRecord
<1>17. CASE BatchStored
  BY <1>17 DEF BatchStored
<1>18. CASE SaveCheckpoint
  <2>1. gaps' \subseteq Blocks
    <3>1. checkpoint + 1 \in Nat /\ start - 1 \in Int /\ start - 1 <= MaxBlock
      BY <1>18, ChainFacts DEF SaveCheckpoint, None, Blocks
    <3>2. checkpoint + 1..start - 1 \subseteq Blocks
      BY <3>1, ChainFacts DEF Blocks
    <3> QED
      BY <1>18, <3>2 DEF SaveCheckpoint
  <2> QED
    BY <1>18, <2>1 DEF SaveCheckpoint
<1>19. CASE StepFails
  BY <1>19 DEF StepFails, Finish, LeavesFragment
<1>20. CASE UNCHANGED vars
  BY <1>20 DEF vars
<1> QED
  BY <1>1, <1>2, <1>3, <1>4, <1>5, <1>6, <1>7, <1>8, <1>9, <1>10, <1>11, <1>12,
     <1>13, <1>14, <1>15, <1>16, <1>17, <1>18, <1>19, <1>20
  DEF Next, RunStep

THEOREM IndexerControlInv == Spec => []ControlInv
  BY InitControlInv, NextControlInv, PTL DEF Spec

\* The state of the runner stays within its types: no block number beyond the
\* range of the run, no more attempts than max-retries allows (retry.go:20).
THEOREM IndexerTypeOK == Spec => []TypeOK
<1>1. ControlInv => TypeOK
  BY DEF ControlInv
<1> QED
  BY <1>1, IndexerControlInv, PTL
-----------------------------------------------------------------------------
\* Steps that only concern the head, the retries and the context, and steps
\* that end the process.
progress ==
  <<file, checkpoint, req, to, start, end, reply, records, seen, runs, asked, gaps>>
Idle == UNCHANGED <<progress, torn, pc, result>>
Dies == pc # "down" /\ pc' = "down" /\ result' # "ok" /\ UNCHANGED progress
Succeeds ==
  /\ pc = "batch" /\ start > to
  /\ pc' = "down" /\ result' = "ok" /\ UNCHANGED <<progress, torn>>

LEMMA StepKinds ==
  ASSUME ControlInv, [Next]_vars
  PROVE  \/ Idle \/ Dies \/ Succeeds
         \/ \E r \in Requests : StartProcess(r)
         \/ Connect \/ Load \/ NextBatch
         \/ FilterLogs \/ SkipDuplicate \/ BuildRecord \/ RecordsComplete
         \/ WriteRecord \/ BatchStored \/ SaveCheckpoint
<1> USE DEF progress, disk, retry, batch, work, history
<1>1. CASE HeadGrows \/ Cancel \/ BackoffExpires \/ UNCHANGED vars
  BY <1>1 DEF Idle, HeadGrows, Cancel, BackoffExpires, vars
<1>2. CASE Crash
  BY <1>2 DEF Dies, Crash, Finish
<1>3. CASE LeaveLoop
  BY <1>3 DEF Dies, Succeeds, LeaveLoop, Finish
<1>4. CASE CallFails
  <2>1. pc # "down"
    BY <1>4 DEF CallFails, CallDue, TimestampDue
  <2>2. CASE attempt >= MaxRetries
    BY <1>4, <2>1, <2>2 DEF CallFails, Finish, Dies
  <2>3. CASE ~(attempt >= MaxRetries)
    BY <1>4, <2>3 DEF CallFails, Idle
  <2> QED
    BY <2>2, <2>3
<1>5. CASE BackoffCancelled
  <2>1. pc # "down"
    BY <1>5 DEF BackoffCancelled, ControlInv, InLoop, InBatch
  <2> QED
    BY <1>5, <2>1 DEF BackoffCancelled, Finish, Dies
<1>6. CASE StepFails
  BY <1>6 DEF StepFails, Finish, Dies
<1> QED
  BY <1>1, <1>2, <1>3, <1>4, <1>5, <1>6 DEF Next, RunStep
-----------------------------------------------------------------------------
LEMMA NextSeenInv ==
  ASSUME ControlInv, SeenInv, [Next]_vars
  PROVE  SeenInv'
<1> USE ChainFacts DEF ControlInv, TypeOK, InLoop, InBatch, Blocks, SeenInv, LogsIn
<1>1. CASE Idle
  BY <1>1 DEF Idle, progress, Range
<1>2. CASE Dies \/ Succeeds
  BY <1>2 DEF Dies, Succeeds, progress
<1>3. ASSUME NEW r \in Requests, StartProcess(r) PROVE SeenInv'
  BY <1>3 DEF StartProcess
<1>4. CASE Connect
  BY <1>4 DEF Connect, work
<1>5. CASE Load
  BY <1>5 DEF Load, ResumeFrom, None, disk, work
<1>6. CASE NextBatch
  BY <1>6 DEF NextBatch, disk, work
<1>7. CASE FilterLogs
  <2>1. Min(end, head) <= end /\ start \in Blocks /\ Min(end, head) \in Blocks
    BY <1>7 DEF FilterLogs, Min
  <2>2. Range(reply') = LogsIn(start, Min(end, head))
    BY <1>7, <2>1, AnswerMeaning DEF FilterLogs
  <2>3. Range(records') = {}
    BY <1>7, EmptyRange DEF FilterLogs
  <2> QED
    BY <1>7, <2>1, <2>2, <2>3 DEF FilterLogs, disk, batch
<1>8. CASE SkipDuplicate
  <2>1. Range(reply') \subseteq Range(reply)
    BY <1>8, RangeOfTail DEF SkipDuplicate
  <2> QED
    BY <1>8, <2>1 DEF SkipDuplicate, disk, batch, Range
<1>9. CASE BuildRecord
  <2>1. /\ Range(reply') \subseteq Range(reply)
        /\ Head(reply) \in Logs /\ Head(reply) \in Range(reply)
    BY <1>9, RangeOfTail DEF BuildRecord
  <2>2. Range(records') = Range(records) \cup {Head(reply)}
    <3>1. records \in Seq(Logs) /\ records' = Append(records, Head(reply))
      BY <1>9 DEF BuildRecord
    <3> QED
      BY ONLY <2>1, <3>1, RangeOfAppend
  <2>3. /\ pc = "stamp" /\ pc' = "stamp" /\ start' = start /\ end' = end
        /\ seen' = seen \cup {Head(reply)} /\ checkpoint' = checkpoint
    BY <1>9 DEF BuildRecord, disk, batch
  <2>4. Head(reply) \in LogsIn(start, end)
    BY <2>1, <2>3
  <2> QED
    BY <2>1, <2>2, <2>3, <2>4
<1>10. CASE RecordsComplete
  BY <1>10 DEF RecordsComplete, disk, work, batch, Range
<1>11. CASE WriteRecord
  <2>1. Range(records') \subseteq Range(records)
    BY <1>11, RangeOfTail DEF WriteRecord
  <2> QED
    BY <1>11, <2>1 DEF WriteRecord, batch, Range
<1>12. CASE BatchStored
  BY <1>12 DEF BatchStored, disk, work, batch
<1>13. CASE SaveCheckpoint
  BY <1>13 DEF SaveCheckpoint, work
<1> QED
  BY <1>1, <1>2, <1>3, <1>4, <1>5, <1>6, <1>7, <1>8, <1>9, <1>10, <1>11, <1>12,
     <1>13, StepKinds

LEMMA NextGapsInv ==
  ASSUME ControlInv, GapsInv, [Next]_vars
  PROVE  GapsInv'
<1> USE ChainFacts, ConfigFacts DEF ControlInv, TypeOK, InLoop, InBatch, Blocks, None, GapsInv
<1>1. CASE Idle \/ Dies \/ Succeeds
  BY <1>1 DEF Idle, Dies, Succeeds, progress
<1>2. ASSUME NEW r \in Requests, StartProcess(r) PROVE GapsInv'
  BY <1>2 DEF StartProcess
<1>3. CASE Connect
  BY <1>3 DEF Connect, history
<1>4. CASE Load
  BY <1>4 DEF Load, ResumeFrom, disk, history
<1>5. CASE NextBatch \/ FilterLogs \/ SkipDuplicate \/ BuildRecord
  BY <1>5 DEF NextBatch, FilterLogs, SkipDuplicate, BuildRecord, disk, batch, history
<1>6. CASE RecordsComplete \/ WriteRecord \/ BatchStored
  BY <1>6 DEF RecordsComplete, WriteRecord, BatchStored, disk, batch, history
<1>7. CASE SaveCheckpoint
  <2>1. /\ pc = "save" /\ req' = req /\ asked' = asked /\ start' = end + 1
        /\ req.from \in asked /\ req.from <= start /\ start <= end
        /\ CheckpointEnabled => checkpoint' = end
    BY <1>7 DEF SaveCheckpoint
  <2>2. ASSUME NEW b \in gaps' PROVE \E f \in asked : b < f
    <3>1. CASE b \in gaps
      BY <3>1
    <3>2. CASE b \notin gaps
      <4>1. CheckpointEnabled /\ b \in checkpoint + 1..start - 1
        BY <1>7, <2>2, <3>2 DEF SaveCheckpoint
      <4>2. checkpoint \in Int /\ start \in Int
        OBVIOUS
      <4>3. b < start /\ start # checkpoint + 1
        BY <4>1, <4>2
      <4>4. b < req.from
        BY <2>1, <4>1, <4>3
      <4> QED
        BY <2>1, <4>4
    <3> QED
      BY <3>1, <3>2
  <2>3. req.from <= end + 1
    BY <2>1
  <2> QED
    BY <2>1, <2>2, <2>3
<1> QED
  BY <1>1, <1>2, <1>3, <1>4, <1>5, <1>6, <1>7, StepKinds

\* What all runs were asked for is in no gap.
LEMMA AskedNotInGap ==
  ASSUME GapsInv, asked \subseteq Blocks, NEW i \in Logs, AlwaysAsked(i)
  PROVE  ~InGap(i)
<1> SUFFICES ASSUME BlockOf[i] \in gaps PROVE FALSE
  BY DEF InGap
<1>1. PICK f \in asked : BlockOf[i] < f
  BY DEF GapsInv
<1>2. f <= BlockOf[i] /\ f \in Int /\ BlockOf[i] \in Int
  BY ChainFacts DEF AlwaysAsked, Blocks
<1> QED
  BY <1>1, <1>2

LEMMA WriteAddsLine ==
  ASSUME ControlInv, WriteRecord
  PROVE  /\ file' \in Seq(Line) /\ Len(file') = Len(file) + 1
         /\ DOMAIN file = 1..Len(file) /\ DOMAIN file' = 1..Len(file) + 1
         /\ Len(file) \in Nat
         /\ file'[Len(file) + 1] = [log |-> Head(records), run |-> runs, glued |-> torn]
         /\ \A k \in DOMAIN file : file'[k] = file[k]
         /\ \A i \in Logs : HasLine(i)' <=> HasLine(i) \/ i = Head(records)
<1>1. records \in Seq(Logs) /\ records # << >> /\ file \in Seq(Line)
  BY DEF ControlInv, TypeOK, WriteRecord
<1>2. Head(records) \in Logs
  BY <1>1, RangeOfTail
<1> DEFINE line == [log |-> Head(records), run |-> runs, glued |-> torn]
<1>3. line \in Line
  BY <1>2, ConfigFacts DEF ControlInv, TypeOK, WriteRecord, Line
<1>4. file' = Append(file, line)
  BY DEF WriteRecord
<1>5. /\ file' \in Seq(Line) /\ Len(file') = Len(file) + 1
      /\ DOMAIN file = 1..Len(file) /\ DOMAIN file' = 1..Len(file) + 1
      /\ Len(file) \in Nat
      /\ file'[Len(file) + 1] = line
      /\ \A k \in DOMAIN file : file'[k] = file[k]
  <2> HIDE DEF line
  <2> QED
    BY <1>1, <1>3, <1>4, RangeOfAppend
<1>6. ASSUME NEW i \in Logs PROVE HasLine(i)' <=> HasLine(i) \/ i = Head(records)
  <2>1. line.log = Head(records)
    OBVIOUS
  <2> HIDE DEF line
  <2> QED
    BY <1>5, <2>1 DEF HasLine
<1> QED
  BY <1>5, <1>6

\* Types and control facts the proof below needs.
LEMMA KeepsFacts ==
  ASSUME KeepsInv
  PROVE  /\ ~ClampingNode /\ ControlInv
         /\ checkpoint \in Int /\ head \in Blocks /\ end \in Blocks /\ to \in Blocks
         /\ start \in Int /\ start >= 0
         /\ req.from \in Blocks
         /\ reply \in Seq(Logs) /\ records \in Seq(Logs)
         /\ pc # "down" => req.from \in asked /\ result = "none"
         /\ InBatch => start <= end /\ end <= to
  BY ConfigFacts, ChainFacts DEF KeepsInv, ControlInv, CoverInv, TypeOK, Blocks, None

LEMMA BlocksAreInts == \A i \in Logs : BlockOf[i] \in Int /\ BlockOf[i] >= 0
  BY ChainFacts DEF Blocks

\* What is covered stays so, while lines are kept and no run is started.
LEMMA CoverStays ==
  ASSUME UNCHANGED <<file, checkpoint, req, to, gaps, result>>, CoverInv,
         InLoop' => InLoop /\ start' = start
  PROVE  CoverInv'
  BY DEF CoverInv, CheckpointedLogsHaveLine, CoveredBelow, SuccessCoversRequest, HasLine,
         InGap, LogsIn

LEMMA NextKeepsInv ==
  ASSUME KeepsInv, [Next]_vars
  PROVE  BatchInv' /\ CoverInv'
<1> USE KeepsFacts, BlocksAreInts
<1>0. BatchInv /\ CoverInv /\ SeenInv /\ GapsInv
  BY DEF KeepsInv
<1> USE DEF InLoop, InBatch
<1>1. CASE Idle
  <2>1. CoverInv'
    BY <1>0, <1>1, CoverStays DEF Idle, progress
  <2>2. BatchInv'
    BY <1>0, <1>1
    DEF Idle, progress, BatchInv, CoveredBelow, HasLine, InGap, LogsIn, Range
  <2> QED
    BY <2>1, <2>2
<1>2. CASE Dies
  <2>1. BatchInv'
    BY <1>2 DEF Dies, BatchInv
  <2>2. CoverInv'
    BY <1>0, <1>2
    DEF Dies, progress, CoverInv, CheckpointedLogsHaveLine, CoveredBelow, SuccessCoversRequest, HasLine, InGap
  <2> QED
    BY <2>1, <2>2
<1>3. CASE Succeeds
  <2>1. BatchInv'
    BY <1>3 DEF Succeeds, BatchInv
  <2>2. \A i \in LogsIn(req.from, to) : HasLine(i) \/ InGap(i)
    BY <1>0, <1>3 DEF Succeeds, CoverInv, CoveredBelow, LogsIn, Blocks
  <2>3. CoverInv'
    BY <1>0, <1>3, <2>2
    DEF Succeeds, progress, CoverInv, CheckpointedLogsHaveLine, CoveredBelow, SuccessCoversRequest, HasLine, InGap,
        LogsIn
  <2> QED
    BY <2>1, <2>3
<1>4. ASSUME NEW r \in Requests, StartProcess(r) PROVE BatchInv' /\ CoverInv'
  BY <1>0, <1>4
  DEF StartProcess, disk, BatchInv, CoverInv, CheckpointedLogsHaveLine, CoveredBelow, SuccessCoversRequest, HasLine,
      InGap
<1>5. CASE Connect
  BY <1>0, <1>5
  DEF Connect, disk, history, BatchInv, CoverInv, CheckpointedLogsHaveLine, CoveredBelow, SuccessCoversRequest, HasLine,
      InGap
<1>6. CASE Load
  <2>1. CoveredBelow(ResumeFrom) /\ checkpoint < ResumeFrom
    <3>2. CASE checkpoint >= req.from
      BY <1>0, <3>2 DEF ResumeFrom, CoverInv, CheckpointedLogsHaveLine, CoveredBelow
    <3>3. CASE ~(checkpoint >= req.from)
      BY <3>3 DEF ResumeFrom, CoveredBelow, Blocks
    <3> QED
      BY <3>2, <3>3
  <2>2. /\ start' = ResumeFrom /\ to' = to /\ file' = file /\ gaps' = gaps
        /\ checkpoint' = checkpoint /\ req' = req /\ result = "none"
    BY <1>6 DEF Load, disk, history
  <2>3. BatchInv'
    BY <1>6 DEF Load, BatchInv
  <2>4. CoveredBelow(ResumeFrom)' /\ CheckpointedLogsHaveLine'
    BY <1>0, <2>1, <2>2 DEF CoverInv, CheckpointedLogsHaveLine, CoveredBelow, HasLine, InGap, ResumeFrom
  <2>5. SuccessCoversRequest'
    <3>1. CASE ResumeFrom > to
      <4>1. ResumeFrom \in Int
        BY DEF ResumeFrom, Blocks
      <4>2. \A i \in LogsIn(req.from, to) : HasLine(i) \/ InGap(i)
        BY <2>1, <3>1, <4>1 DEF CoveredBelow, LogsIn, Blocks
      <4> QED
        BY <2>2, <4>2 DEF SuccessCoversRequest, HasLine, InGap, LogsIn
    <3>2. CASE ~(ResumeFrom > to)
      BY <1>6, <2>2, <3>2 DEF Load, SuccessCoversRequest
    <3> QED
      BY <3>1, <3>2
  <2> QED
    BY <1>6, <2>1, <2>2, <2>3, <2>4, <2>5 DEF CoverInv, CheckpointedLogsHaveLine, CoveredBelow, ResumeFrom
<1>7. CASE NextBatch
  <2>1. BatchInv'
    BY <1>7 DEF NextBatch, BatchInv
  <2> QED
    BY <1>0, <1>7, <2>1, CoverStays DEF NextBatch, disk, history
<1>8. CASE FilterLogs
  <2>1. Min(end, head) = end /\ start \in Blocks /\ end \in Blocks
    BY <1>8, ChainFacts DEF FilterLogs, NodeAnswers, Min, Blocks
  <2>2. Range(reply') = LogsIn(start, end)
    BY <1>8, <2>1, AnswerMeaning DEF FilterLogs
  <2>3. BatchInv'
    BY <1>8, <2>2 DEF FilterLogs, BatchInv, batch
  <2> QED
    BY <1>0, <1>8, <2>3, CoverStays DEF FilterLogs, disk, batch, history
<1>9. CASE SkipDuplicate
  <2>1. Range(reply) = {Head(reply)} \cup Range(reply')
    BY <1>9, RangeOfTail DEF SkipDuplicate
  <2>2. Head(reply) \in Range(records)
    <3>1. Head(reply) \in LogsIn(start, end) /\ Head(reply) \in seen
      BY <1>0, <1>9, <2>1 DEF SkipDuplicate, IsDuplicate, SeenInv
    <3> QED
      BY <1>0, <1>9, <3>1 DEF SkipDuplicate, SeenInv, LogsIn
  <2>3. records' = records /\ start' = start /\ end' = end
    BY <1>9 DEF SkipDuplicate, batch
  <2>4. LogsIn(start, end) \subseteq Range(records) \cup Range(reply')
    BY <1>0, <1>9, <2>1, <2>2 DEF SkipDuplicate, BatchInv
  <2>5. BatchInv'
    BY <1>9, <2>3, <2>4 DEF SkipDuplicate, BatchInv
  <2> QED
    BY <1>0, <1>9, <2>5, CoverStays DEF SkipDuplicate, disk, batch, history
<1>10. CASE BuildRecord
  <2>1. Range(reply) = {Head(reply)} \cup Range(reply') /\ Head(reply) \in Logs
    BY <1>10, RangeOfTail DEF BuildRecord
  <2>2. Range(records') = Range(records) \cup {Head(reply)}
    BY <1>10, <2>1, RangeOfAppend DEF BuildRecord
  <2>3. LogsIn(start, end) \subseteq Range(records') \cup Range(reply')
    BY <1>0, <1>10, <2>1, <2>2 DEF BuildRecord, BatchInv
  <2>4. BatchInv'
    BY <1>10, <2>3 DEF BuildRecord, BatchInv, batch
  <2> QED
    BY <1>0, <1>10, <2>4, CoverStays DEF BuildRecord, disk, batch, history
<1>11. CASE RecordsComplete
  <2>1. LogsIn(start, end) \subseteq Range(records)
    BY <1>0, <1>11, EmptyRange DEF RecordsComplete, BatchInv
  <2>2. BatchInv'
    BY <1>11, <2>1 DEF RecordsComplete, BatchInv, batch, work
  <2> QED
    BY <1>0, <1>11, <2>2, CoverStays DEF RecordsComplete, disk, batch, history
<1>12. CASE WriteRecord
  <2>1. Range(records) = {Head(records)} \cup Range(records')
    BY <1>12, RangeOfTail DEF WriteRecord
  <2>2. \A i \in Logs : HasLine(i)' <=> HasLine(i) \/ i = Head(records)
    BY <1>12, WriteAddsLine
  <2>3. /\ pc = "write" /\ pc' = "write" /\ start' = start /\ end' = end /\ to' = to
        /\ gaps' = gaps /\ req' = req /\ checkpoint' = checkpoint /\ result' = "none"
    BY <1>12 DEF WriteRecord, batch, history
  <2>4. BatchInv'
    BY <1>0, <2>1, <2>2, <2>3 DEF BatchInv, LogsIn
  <2>5. CoverInv'
    BY <1>0, <2>2, <2>3 DEF CoverInv, CheckpointedLogsHaveLine, CoveredBelow, SuccessCoversRequest,
        InGap
  <2> QED
    BY <2>4, <2>5
<1>13. CASE BatchStored
  <2>1. \A i \in LogsIn(start, end) : HasLine(i)
    BY <1>0, <1>13, EmptyRange DEF BatchStored, BatchInv
  <2>2. CoveredBelow(end + 1)
    BY <1>0, <1>13, <2>1 DEF BatchStored, CoverInv, CoveredBelow, LogsIn, Blocks
  <2>3. BatchInv'
    BY <1>13, <2>2
    DEF BatchStored, BatchInv, CoveredBelow, HasLine, InGap, disk, batch, history
  <2> QED
    BY <1>0, <1>13, <2>3, CoverStays DEF BatchStored, disk, batch, history
<1>14. CASE SaveCheckpoint
  <2>1. BatchInv'
    BY <1>14 DEF SaveCheckpoint, BatchInv
  <2>2. CoveredBelow(end + 1)
    BY <1>0, <1>14 DEF SaveCheckpoint, BatchInv
  <2>3. /\ file' = file /\ req' = req /\ start' = end + 1 /\ result' = "none"
        /\ gaps \subseteq gaps'
        /\ \/ checkpoint' = end /\ (checkpoint + 1..start - 1) \subseteq gaps'
           \/ checkpoint' = checkpoint
    BY <1>14 DEF SaveCheckpoint
  <2>4. req.from <= start /\ start <= end
    BY <1>0, <1>14 DEF SaveCheckpoint, GapsInv
  <2>5. \A i \in Logs : HasLine(i)' = HasLine(i) /\ (InGap(i) => InGap(i)')
    BY <2>3 DEF HasLine, InGap
  <2>6. CheckpointedLogsHaveLine'
    <3> SUFFICES ASSUME NEW i \in Logs, BlockOf[i] <= checkpoint'
                 PROVE  HasLine(i) \/ InGap(i)'
      BY <2>5 DEF CheckpointedLogsHaveLine
    <3>1. CASE BlockOf[i] <= checkpoint
      BY <1>0, <2>5, <3>1 DEF CoverInv, CheckpointedLogsHaveLine
    <3>2. CASE checkpoint < BlockOf[i] /\ BlockOf[i] < start
      <4>1. (checkpoint + 1..start - 1) \subseteq gaps'
        BY <2>3, <3>2
      <4>2. BlockOf[i] \in checkpoint + 1..start - 1
        BY <3>2
      <4> QED
        BY <4>1, <4>2 DEF InGap
    <3>3. CASE checkpoint < BlockOf[i] /\ start <= BlockOf[i]
      <4>1. BlockOf[i] <= end
        BY <2>3, <3>3
      <4>2. req.from <= BlockOf[i] /\ BlockOf[i] < end + 1
        BY <2>4, <3>3, <4>1 DEF Blocks
      <4> QED
        BY <2>2, <2>5, <4>2 DEF CoveredBelow
    <3> QED
      BY <3>1, <3>2, <3>3
  <2>7. CoveredBelow(start)'
    BY <2>2, <2>3, <2>5 DEF CoveredBelow
  <2> QED
    BY <1>0, <2>1, <2>3, <2>6, <2>7 DEF CoverInv, SuccessCoversRequest
<1> QED
  BY <1>1, <1>2, <1>3, <1>4, <1>5, <1>6, <1>7, <1>8, <1>9, <1>10, <1>11, <1>12,
     <1>13, <1>14, StepKinds

LEMMA InitKeepsInv == ~ClampingNode /\ Init => KeepsInv
<1> SUFFICES ASSUME ~ClampingNode, Init PROVE KeepsInv
  OBVIOUS
<1>1. SeenInv /\ BatchInv /\ (InLoop <=> FALSE) /\ SuccessCoversRequest
  BY DEF Init, SeenInv, BatchInv, InLoop, InBatch, SuccessCoversRequest
<1>2. CheckpointedLogsHaveLine /\ GapsInv
  BY <1>1, ChainFacts DEF Init, None, CheckpointedLogsHaveLine, GapsInv, Blocks
<1> QED
  BY <1>1, <1>2, InitControlInv DEF KeepsInv, CoverInv

THEOREM IndexerKeepsInv == ~ClampingNode /\ Spec => []KeepsInv
<1>1. KeepsInv /\ [Next]_vars => KeepsInv'
  BY NextControlInv, NextSeenInv, NextGapsInv, NextKeepsInv DEF KeepsInv, CoverInv
<1> QED
  BY <1>1, InitKeepsInv, PTL DEF Spec

\* No log is lost across restarts: behind a node that refuses ranges past its
\* head, all logs up to the checkpoint are in the output, but for the blocks that
\* a run passed over because it began above the checkpoint (runner.go:138-147).
THEOREM IndexerKeepsCheckpointedLogs ==
  ~ClampingNode /\ Spec => []CheckpointedLogsHaveLine
<1>1. KeepsInv => CheckpointedLogsHaveLine
  BY DEF KeepsInv, CoverInv
<1> QED
  BY <1>1, IndexerKeepsInv, PTL

\* When a run returns nil, its range is in the output, but for the part that it
\* skipped and that an earlier run, which moved the checkpoint past it, had begun
\* above (runner.go:94-152).
THEOREM IndexerSuccessCovers == ~ClampingNode /\ Spec => []SuccessCoversRequest
<1>1. KeepsInv => SuccessCoversRequest
  BY DEF KeepsInv, CoverInv
<1> QED
  BY <1>1, IndexerKeepsInv, PTL

-----------------------------------------------------------------------------
LEMMA RunFacts ==
  ASSUME RunInv
  PROVE  /\ runs \in Int /\ file \in Seq(Line) /\ DOMAIN file = 1..Len(file)
         /\ Len(file) \in Nat
         /\ \A k \in DOMAIN file : file[k].run \in Int /\ file[k].log \in Logs
         /\ reply \in Seq(Logs) /\ records \in Seq(Logs)
         /\ DOMAIN records = 1..Len(records) /\ Len(records) \in Nat
<1>1. file \in Seq(Line) /\ runs \in Int /\ reply \in Seq(Logs) /\ records \in Seq(Logs)
  BY ConfigFacts DEF RunInv, ControlInv, TypeOK
<1>2. \A l \in Line : l.run \in Int /\ l.log \in Logs
  BY ConfigFacts DEF Line
<1> QED
  BY <1>1, <1>2

\* The parts of RunLinesInv about the file alone.
LEMMA LinesUntouched ==
  ASSUME RunLinesInv, UNCHANGED file
  PROVE  NoRepeatInRun' /\ DamageIsFirstLine'
  BY DEF RunLinesInv, NoRepeatInRun, DamageIsFirstLine

LEMMA NextRunLinesInv ==
  ASSUME RunInv, [Next]_vars
  PROVE  RunLinesInv'
<1>0. RunLinesInv /\ SeenInv
  BY DEF RunInv
<1> USE RunFacts
<1>1. CASE /\ UNCHANGED <<file, torn, runs, records>> /\ seen \subseteq seen'
           /\ pc # "down" \/ pc' = "down"
  BY <1>0, <1>1, LinesUntouched DEF RunLinesInv, Range
<1>2. CASE Dies
  BY <1>0, <1>2, LinesUntouched DEF Dies, progress, RunLinesInv
<1>3. ASSUME NEW r \in Requests, StartProcess(r) PROVE RunLinesInv'
  <2>1. file' = file /\ runs' = runs + 1 /\ records' = << >>
    BY <1>3 DEF StartProcess, disk
  <2>2. \A k \in DOMAIN file : file[k].run < runs'
    BY <1>0, <2>1 DEF RunLinesInv
  <2> QED
    BY <1>0, <2>1, <2>2, LinesUntouched DEF RunLinesInv
<1>4. CASE BuildRecord
  <2>1. Head(reply) \in Logs /\ Head(reply) \notin seen /\ pc = "stamp"
    BY <1>4, RangeOfTail DEF BuildRecord, IsDuplicate
  <2>2. /\ records' = Append(records, Head(reply)) /\ seen' = seen \cup {Head(reply)}
        /\ file' = file /\ torn' = torn /\ runs' = runs /\ pc' = pc
    BY <1>4 DEF BuildRecord, disk, history
  <2>3. /\ DOMAIN records' = 1..Len(records) + 1
        /\ records'[Len(records) + 1] = Head(reply)
        /\ \A i \in 1..Len(records) : records'[i] = records[i]
        /\ Range(records') = Range(records) \cup {Head(reply)}
    BY <2>1, <2>2, RangeOfAppend
  <2>4. \A i \in 1..Len(records) : records[i] # Head(reply)
    BY <1>0, <2>1 DEF SeenInv, Range
  <2>5. \A j, k \in DOMAIN records' : j # k => records'[j] # records'[k]
    BY <1>0, <2>3, <2>4 DEF RunLinesInv
  <2> QED
    BY <1>0, <2>1, <2>2, <2>3, <2>5, LinesUntouched DEF RunLinesInv
<1>5. CASE WriteRecord
  <2> DEFINE n == Len(file) + 1
  <2>1. pc = "write" /\ pc' = "write" /\ torn' = FALSE /\ runs' = runs /\ seen' = seen
    BY <1>5 DEF WriteRecord, history
  <2>2. /\ DOMAIN file' = 1..n /\ DOMAIN file = 1..n - 1 /\ n \in Nat \ {0}
        /\ file'[n].log = Head(records) /\ file'[n].run = runs /\ file'[n].glued = torn
        /\ \A k \in DOMAIN file : file'[k] = file[k]
    BY <1>5, WriteAddsLine DEF RunInv
  <2>3. /\ Range(records) = {Head(records)} \cup Range(records')
        /\ \A i \in DOMAIN records' : i + 1 \in DOMAIN records /\ records'[i] = records[i + 1]
        /\ DOMAIN records' = 1..Len(records) - 1 /\ Len(records) > 0
        /\ Head(records) = records[1]
    BY <1>5, RangeOfTail DEF WriteRecord
  <2>4. Head(records) \notin Range(records') /\ Head(records) \in seen
    BY <1>0, <2>1, <2>3 DEF RunLinesInv, SeenInv, Range
  <2>5. \A j, k \in DOMAIN records' : j # k => records'[j] # records'[k]
    BY <1>0, <2>3 DEF RunLinesInv
  <2>6. \A k \in DOMAIN file :
          file[k].run = runs => file[k].log \in seen /\ file[k].log \notin Range(records)
    BY <1>0, <2>1 DEF RunLinesInv
  <2>7. NoRepeatInRun'
    <3>1. \A k \in DOMAIN file : file'[k].run = runs => file'[k].log # file'[n].log
      BY <2>2, <2>3, <2>6
    <3>2. \A j, k \in DOMAIN file :
            j # k /\ file'[j].run = file'[k].run => file'[j].log # file'[k].log
      BY <1>0, <2>2 DEF RunLinesInv, NoRepeatInRun
    <3>3. file'[n].run = runs /\ \A k \in DOMAIN file : file'[k].run = runs =>
            file'[k].log # file'[n].log
      BY <2>2, <3>1
    <3>4. DOMAIN file' = DOMAIN file \cup {n}
      BY ONLY <2>2
    <3>5. \A j, k \in DOMAIN file' :
            j # k /\ file'[j].run = file'[k].run => file'[j].log # file'[k].log
      BY ONLY <3>2, <3>3, <3>4
    <3> QED
      BY ONLY <3>5 DEF NoRepeatInRun
  <2>8. DamageIsFirstLine'
    <3>1. torn => \A k \in DOMAIN file : file[k].run # runs
      BY <1>0, <2>1 DEF RunLinesInv
    <3>2. \A k \in DOMAIN file :
            file[k].glued => \A j \in 1..k - 1 : file[j].run # file[k].run
      BY <1>0 DEF RunLinesInv, DamageIsFirstLine
    <3>3. \A k \in DOMAIN file : \A j \in 1..k - 1 : j \in DOMAIN file /\ k # n
      OBVIOUS
    <3>4. \A j \in 1..n - 1 : j \in DOMAIN file
      OBVIOUS
    <3>5. ASSUME NEW k \in DOMAIN file', file'[k].glued, NEW j \in 1..k - 1
          PROVE  file'[j].run # file'[k].run
      <4>1. CASE k = n
        BY <2>2, <3>1, <3>4, <3>5, <4>1
      <4>2. CASE k # n
        <5>1. k \in DOMAIN file
          BY <2>2, <4>2
        <5> QED
          BY <2>2, <3>2, <3>3, <3>5, <5>1
      <4> QED
        BY <4>1, <4>2
    <3> QED
      BY <3>5 DEF DamageIsFirstLine
  <2>9. \A k \in DOMAIN file' :
          /\ file'[k].run <= runs
          /\ file'[k].run = runs => file'[k].log \in seen /\ file'[k].log \notin Range(records')
    BY <1>0, <2>2, <2>3, <2>4, <2>6 DEF RunLinesInv
  <2> QED
    BY <2>1, <2>5, <2>7, <2>8, <2>9 DEF RunLinesInv
<1> QED
  BY <1>1, <1>2, <1>3, <1>4, <1>5, StepKinds
  DEF RunInv, Idle, Succeeds, progress, Connect, Load, NextBatch, FilterLogs, SkipDuplicate,
      RecordsComplete, BatchStored, SaveCheckpoint, disk, work, history

THEOREM IndexerRunInv == Spec => []RunInv
<1>1. Init => SeenInv /\ RunLinesInv
  BY DEF Init, SeenInv, InLoop, InBatch, RunLinesInv, NoRepeatInRun, DamageIsFirstLine
<1>2. RunInv /\ [Next]_vars => RunInv'
  BY NextControlInv, NextSeenInv, NextRunLinesInv DEF RunInv
<1> QED
  BY <1>1, <1>2, InitControlInv, PTL DEF Spec, RunInv

\* A run writes no log twice, whatever the node repeats (runner.go:126-129).
THEOREM IndexerNoRepeatInRun == Spec => []NoRepeatInRun
<1>1. RunInv => NoRepeatInRun
  BY DEF RunInv, RunLinesInv
<1> QED
  BY <1>1, IndexerRunInv, PTL

\* An interrupted append damages at most one line, the next run's first
\* (jsonl.go:40-62).
THEOREM IndexerDamageIsFirstLine == Spec => []DamageIsFirstLine
<1>1. RunInv => DamageIsFirstLine
  BY DEF RunInv, RunLinesInv
<1> QED
  BY <1>1, IndexerRunInv, PTL

\* The checkpoint only moves forward, and appended records lie above it
\* (runner.go:94-95, 138-147).
THEOREM IndexerWritesAboveCheckpoint == Spec => WritesAboveCheckpoint
<1> DEFINE Above ==
      /\ checkpoint' >= checkpoint
      /\ Len(file') > Len(file) => BlockOf[file'[Len(file')].log] > checkpoint
<1>1. RunInv /\ [Next]_vars => [Above]_vars
  <2> SUFFICES ASSUME RunInv, [Next]_vars PROVE Above
    OBVIOUS
  <2>0. ControlInv /\ SeenInv /\ Len(file) \in Nat
    BY RunFacts DEF RunInv
  <2>4. /\ checkpoint \in Int /\ start \in Int /\ end \in Int
        /\ pc \in {"write", "save"} => checkpoint < start /\ start <= end
    BY <2>0, ChainFacts DEF ControlInv, TypeOK, SeenInv, InLoop, InBatch, Blocks, None
  <2>1. CASE file' = file /\ checkpoint' = checkpoint
    BY <2>0, <2>1, <2>4
  <2>2. CASE WriteRecord
    <3>1. /\ Len(file') = Len(file) + 1 /\ Len(file) \in Nat
          /\ file'[Len(file')].log = Head(records)
      BY <2>0, <2>2, WriteAddsLine
    <3>2. Head(records) \in LogsIn(start, end)
      BY <2>0, <2>2, RangeOfTail, RunFacts DEF WriteRecord, SeenInv
    <3>3. pc = "write" /\ checkpoint' = checkpoint
      BY <2>2 DEF WriteRecord
    <3>4. BlockOf[Head(records)] \in Int /\ start <= BlockOf[Head(records)]
      BY <3>2, BlocksAreInts DEF LogsIn
    <3> QED
      BY <2>4, <3>1, <3>3, <3>4
  <2>3. CASE SaveCheckpoint
    BY <2>0, <2>3, <2>4 DEF SaveCheckpoint
  <2> QED
    BY <2>0, <2>1, <2>2, <2>3, StepKinds
    DEF Idle, Dies, Succeeds, progress, StartProcess, Connect, Load, NextBatch, FilterLogs,
        SkipDuplicate, BuildRecord, RecordsComplete, BatchStored, disk
<1> QED
  BY <1>1, IndexerRunInv, PTL DEF Spec, WritesAboveCheckpoint
-----------------------------------------------------------------------------
LEMMA NextBatchInOrder ==
  ASSUME RunInv, BatchInOrder, [Next]_vars
  PROVE  BatchInOrder'
<1>0. SeenInv /\ ControlInv
  BY DEF RunInv
<1> USE RunFacts, ChainFacts
<1>1. CASE pc' \notin {"stamp", "write"}
  BY <1>1 DEF BatchInOrder
<1>2. CASE UNCHANGED <<pc, reply, records>>
  <2>1. pc' = pc /\ reply' = reply /\ records' = records
    BY ONLY <1>2
  <2> QED
    BY ONLY BatchInOrder, <2>1 DEF BatchInOrder, Earlier
<1>3. CASE FilterLogs
  <2>1. start \in Blocks /\ Min(end, head) \in Blocks
    BY <1>0, <1>3 DEF FilterLogs, Min, ControlInv, TypeOK, InBatch, Blocks
  <2>2. \A j \in DOMAIN reply' :
          \/ \A i \in 1..j - 1 : reply'[i] < reply'[j]
          \/ \E i \in 1..j - 1 : reply'[i] = reply'[j]
    BY <1>3, <2>1, AnswerMeaning DEF FilterLogs
  <2>3. records' = << >> /\ Range(records)' = {} /\ pc' = "stamp"
    BY <1>0, <1>3, EmptyRange DEF FilterLogs, SeenInv
  <2>4. \A m, j : Earlier(m, j)' <=> \E i \in 1..j - 1 : reply'[i] = m
    BY <2>3 DEF Earlier
  <2>5. \A j \in DOMAIN reply' :
          \/ Earlier(reply[j], j)'
          \/ \A m \in Logs : Earlier(m, j)' => m < reply'[j]
    <3> SUFFICES ASSUME NEW j \in DOMAIN reply'
                 PROVE  \/ Earlier(reply[j], j)'
                        \/ \A m \in Logs : Earlier(m, j)' => m < reply'[j]
      OBVIOUS
    <3>1. CASE \A i \in 1..j - 1 : reply'[i] < reply'[j]
      BY ONLY <2>4, <3>1
    <3>2. CASE \E i \in 1..j - 1 : reply'[i] = reply'[j]
      BY ONLY <2>3, <3>2 DEF Earlier
    <3> QED
      BY ONLY <2>2, <3>1, <3>2
  <2> QED
    BY <2>3, <2>5 DEF BatchInOrder
<1>4. CASE SkipDuplicate \/ BuildRecord
  <2>1. pc = "stamp" /\ pc' = "stamp" /\ reply # << >> /\ reply' = Tail(reply)
    BY <1>4 DEF SkipDuplicate, BuildRecord
  <2>2. /\ Head(reply) \in Logs /\ Head(reply) = reply[1] /\ Head(reply) \in Range(reply)
        /\ DOMAIN reply = 1..Len(reply) /\ Len(reply) \in Nat \ {0}
        /\ DOMAIN reply' = 1..Len(reply) - 1
        /\ \A i \in 1..Len(reply) - 1 : reply'[i] = reply[i + 1]
    BY <2>1, RangeOfTail
  <2>3. Range(records)' = Range(records) \cup {Head(reply)}
    <3>1. CASE SkipDuplicate
      <4>1. Head(reply) \in seen /\ BlockOf[Head(reply)] >= start
        BY <1>0, <2>1, <2>2, <3>1 DEF SkipDuplicate, IsDuplicate, SeenInv, LogsIn
      <4>2. Head(reply) \in Range(records)
        BY <1>0, <2>1, <4>1 DEF SeenInv
      <4> QED
        BY <3>1, <4>2 DEF SkipDuplicate, Range
    <3>2. CASE BuildRecord
      BY <2>2, <3>2, RangeOfAppend DEF BuildRecord
    <3> QED
      BY <1>4, <3>1, <3>2
  <2> DEFINE NowEarlier(m, j) == m \in Range(records') \/ \E i \in 1..j - 1 : reply'[i] = m
  <2>4. ASSUME NEW j \in DOMAIN reply', NEW m PROVE NowEarlier(m, j) <=> Earlier(m, j + 1)
    <3>1. (\E i \in 1..j : reply[i] = m) <=> m = reply[1] \/ \E i \in 1..j - 1 : reply[i + 1] = m
      <4>0. j \in Nat \ {0}
        BY <2>2
      <4>1. \A i \in 1..j : i = 1 \/ (i - 1 \in 1..j - 1 /\ (i - 1) + 1 = i)
        BY ONLY <4>0
      <4>2. 1 \in 1..j /\ \A i \in 1..j - 1 : i + 1 \in 1..j
        BY ONLY <4>0
      <4> QED
        BY <4>1, <4>2
    <3>2. \A i \in 1..j - 1 : reply'[i] = reply[i + 1]
      BY <2>2
    <3>3. (j + 1) - 1 = j
      BY <2>2
    <3> QED
      BY <2>2, <2>3, <3>1, <3>2, <3>3 DEF Earlier
  <2>5. \A j \in DOMAIN reply' :
          NowEarlier(reply'[j], j) \/ \A m \in Logs : NowEarlier(m, j) => m < reply'[j]
    <3>1. \A j \in DOMAIN reply' : j + 1 \in DOMAIN reply /\ reply'[j] = reply[j + 1]
      BY <2>2
    <3>2. \A j \in DOMAIN reply :
            Earlier(reply[j], j) \/ \A m \in Logs : Earlier(m, j) => m < reply[j]
      BY <2>1 DEF BatchInOrder
    <3> HIDE DEF NowEarlier
    <3> QED
      BY <2>4, <3>1, <3>2
  <2>6. \A j, k \in DOMAIN records' : j < k => records'[j] < records'[k]
    <3>1. CASE SkipDuplicate
      BY <2>1, <3>1 DEF SkipDuplicate, BatchInOrder
    <3>2. CASE BuildRecord
      <4>1. Head(reply) \notin Range(records)
        BY <1>0, <2>1, <3>2 DEF BuildRecord, IsDuplicate, SeenInv
      <4>2. /\ \A m : Earlier(m, 1) <=> m \in Range(records)
            /\ 1 \in DOMAIN reply /\ Range(records) \subseteq Logs
        BY <1>0, <2>1, <2>2 DEF Earlier, SeenInv, LogsIn
      <4>3. \A m \in Range(records) : m < Head(reply)
        BY <2>1, <2>2, <4>1, <4>2 DEF BatchInOrder
      <4>4. \A i \in 1..Len(records) : records[i] < Head(reply)
        BY <4>3 DEF Range
      <4>5. /\ DOMAIN records' = 1..Len(records) + 1
            /\ records'[Len(records) + 1] = Head(reply)
            /\ \A i \in 1..Len(records) : records'[i] = records[i]
        BY <2>2, <3>2, RangeOfAppend DEF BuildRecord
      <4> QED
        <5>1. \A j, k \in 1..Len(records) : j < k => records[j] < records[k]
          BY <2>1 DEF BatchInOrder
        <5> SUFFICES ASSUME NEW j \in 1..Len(records) + 1, NEW k \in 1..Len(records) + 1, j < k
                     PROVE  records'[j] < records'[k]
          BY <4>5
        <5>2. j \in 1..Len(records)
          OBVIOUS
        <5>3. CASE k = Len(records) + 1
          BY <4>4, <4>5, <5>2, <5>3
        <5>4. CASE k # Len(records) + 1
          <6> HIDE RunFacts, ChainFacts
          <6>0. Len(records) \in Nat
            BY RunFacts
          <6>1. k \in 1..Len(records)
            BY <5>4, <6>0
          <6>2. records[j] < records[k]
            BY <5>1, <5>2, <6>1
          <6> QED
            BY <4>5, <5>2, <6>1, <6>2
        <5> QED
          BY <5>3, <5>4
    <3> QED
      BY <1>4, <3>1, <3>2
  <2> QED
    BY <2>1, <2>5, <2>6 DEF BatchInOrder, Earlier
<1>5. CASE RecordsComplete
  BY <1>5 DEF RecordsComplete, work, BatchInOrder
<1>6. CASE WriteRecord
  <2>1. pc = "write" /\ pc' = "write"
    BY <1>6 DEF WriteRecord
  <2>2. /\ \A i \in DOMAIN records' : i + 1 \in DOMAIN records /\ records'[i] = records[i + 1]
        /\ DOMAIN records' = 1..Len(records) - 1
    BY <1>6, RangeOfTail DEF WriteRecord
  <2> QED
    BY <2>1, <2>2 DEF BatchInOrder
<1> QED
  BY <1>0, <1>1, <1>2, <1>3, <1>4, <1>5, <1>6, StepKinds
  DEF Idle, Dies, Succeeds, progress, StartProcess, Connect, Load, NextBatch,
      BatchStored, SaveCheckpoint

LEMMA NextLinesInOrder ==
  ASSUME RunInv, KeepsInv, OrderInv, [Next]_vars
  PROVE  LinesInOrder'
<1>0. /\ ControlInv /\ SeenInv /\ GapsInv /\ BatchInv /\ CoverInv
      /\ BatchInOrder /\ LinesInOrder
  BY DEF KeepsInv, OrderInv
<1> USE RunFacts, ChainFacts
<1>1. CASE file' = file /\ asked \subseteq asked'
  BY <1>0, <1>1 DEF LinesInOrder, FirstLinesInChainOrder, AlwaysAsked, HasLine
<1>2. CASE WriteRecord
  <2> DEFINE n == Len(file) + 1
             m == Head(records)
  <2>1. pc = "write" /\ records # << >> /\ asked' = asked
    BY <1>2 DEF WriteRecord, history
  <2>2. /\ DOMAIN file' = 1..n /\ file'[n].log = m
        /\ \A k \in DOMAIN file : file'[k] = file[k]
        /\ \A i \in Logs : HasLine(i)' <=> HasLine(i) \/ i = m
    BY <1>0, <1>2, WriteAddsLine
  <2>3. m = records[1] /\ m \in Logs /\ m \in LogsIn(start, end)
    BY <1>0, <2>1, RangeOfTail DEF SeenInv
  <2> HIDE DEF m
  <2>4. ASSUME NEW i \in Logs, i < m, AlwaysAsked(i) PROVE HasLine(i)
    <3>0. i <= m /\ m \in Logs
      BY <2>3, <2>4
    <3>1. BlockOf[i] <= BlockOf[m] /\ BlockOf[m] <= end
      BY <2>3, <2>4, <3>0, ChainAssumption DEF LogsIn
    <3>2. CASE BlockOf[i] < start
      <4>1. req.from \in asked /\ asked \subseteq Blocks
        BY <1>0, <2>1 DEF ControlInv, TypeOK
      <4>2. req.from <= BlockOf[i] /\ ~InGap(i)
        BY <1>0, <2>4, <4>1, AskedNotInGap DEF AlwaysAsked
      <4> QED
        BY <1>0, <2>1, <3>2, <4>2 DEF CoverInv, CoveredBelow, InLoop, InBatch
    <3>3. CASE ~(BlockOf[i] < start)
      <4>1. i \in LogsIn(start, end)
        <5>1. start \in Int /\ end \in Int
          BY KeepsFacts DEF Blocks
        <5>2. BlockOf[i] \in Int /\ BlockOf[m] \in Int
          BY <3>0, BlocksAreInts
        <5> QED
          BY <3>1, <3>3, <5>1, <5>2 DEF LogsIn
      <4>2. i \notin Range(records)
        <5> SUFFICES ASSUME NEW k \in DOMAIN records, records[k] = i PROVE FALSE
          BY DEF Range
        <5> QED
          <6>1. 1 \in DOMAIN records /\ k # 1 /\ 1 < k
            BY <2>3, <2>4
          <6>2. \A a, b \in DOMAIN records : a < b => records[a] < records[b]
            BY <1>0, <2>1 DEF BatchInOrder
          <6>3. records[1] < records[k]
            BY <6>1, <6>2
          <6> QED
            BY <2>3, <2>4, <6>3
      <4> QED
        BY <1>0, <2>1, <4>1, <4>2 DEF BatchInv
    <3> QED
      BY <3>2, <3>3
  <2>5. \A k \in DOMAIN file', i \in Logs :
          i < file'[k].log /\ AlwaysAsked(i)' => HasLine(i)'
    <3>1. \A i \in Logs : AlwaysAsked(i)' = AlwaysAsked(i)
      BY <2>1 DEF AlwaysAsked
    <3>2. \A k \in DOMAIN file, i \in Logs : i < file[k].log /\ AlwaysAsked(i) => HasLine(i)
      BY <1>0 DEF LinesInOrder
    <3> QED
      BY <2>2, <2>4, <3>1, <3>2
  <2>6. AlwaysAsked(m) =>
          \/ \A j \in DOMAIN file : file[j].log < m
          \/ \E j \in DOMAIN file : file[j].log = m
    <3> SUFFICES ASSUME AlwaysAsked(m), NEW j \in DOMAIN file, ~(file[j].log < m)
                 PROVE  HasLine(m)
      BY DEF HasLine
    <3>1. file[j].log = m \/ m < file[j].log
      BY <2>3
    <3> QED
      BY <1>0, <2>3, <3>1 DEF LinesInOrder, HasLine
  <2>7. FirstLinesInChainOrder'
    <3> SUFFICES ASSUME NEW k \in DOMAIN file', AlwaysAsked(file[k].log)'
                 PROVE  \/ \A j \in 1..k - 1 : file'[j].log < file'[k].log
                        \/ \E j \in 1..k - 1 : file'[j].log = file'[k].log
      BY DEF FirstLinesInChainOrder
    <3>1. AlwaysAsked(file'[k].log)
      BY <2>1 DEF AlwaysAsked
    <3>2. CASE k = n
      <4>1. file'[k].log = m /\ AlwaysAsked(m)
        BY <2>2, <3>1, <3>2
      <4>2. 1..k - 1 = DOMAIN file
        BY <3>2
      <4> QED
        BY <2>2, <2>6, <4>1, <4>2
    <3>3. CASE k # n
      <4>1. k \in DOMAIN file /\ AlwaysAsked(file[k].log)
        BY <2>2, <3>1, <3>3
      <4>2. \/ \A j \in 1..k - 1 : file[j].log < file[k].log
            \/ \E j \in 1..k - 1 : file[j].log = file[k].log
        BY <1>0, <4>1 DEF LinesInOrder, FirstLinesInChainOrder
      <4>3. \A j \in 1..k - 1 : j \in DOMAIN file
        BY <4>1
      <4>4. \A j \in 1..k - 1 : file'[j] = file[j] /\ file'[k] = file[k]
        BY <2>2, <4>1, <4>3
      <4> QED
        BY <4>2, <4>4
    <3> QED
      BY <3>2, <3>3
  <2> QED
    BY <2>5, <2>7 DEF LinesInOrder
<1> QED
  BY <1>0, <1>1, <1>2, StepKinds
  DEF Idle, Dies, Succeeds, progress, StartProcess, Connect, Load, NextBatch, FilterLogs,
      SkipDuplicate, BuildRecord, RecordsComplete, BatchStored, SaveCheckpoint, disk, history

\* Restarts repeat lines but never reorder them: the next run starts at the
\* first block whose logs may be missing (runner.go:94-95, 138-147).
THEOREM IndexerFirstLinesInChainOrder ==
  ~ClampingNode /\ Spec => []FirstLinesInChainOrder
<1>1. Init => OrderInv
  BY DEF Init, OrderInv, BatchInOrder, LinesInOrder, FirstLinesInChainOrder
<1>2. RunInv /\ KeepsInv /\ OrderInv /\ [Next]_vars => OrderInv'
  BY NextBatchInOrder, NextLinesInOrder DEF OrderInv
<1>3. OrderInv => FirstLinesInChainOrder
  BY DEF OrderInv, LinesInOrder
<1> QED
  BY <1>1, <1>2, <1>3, IndexerRunInv, IndexerKeepsInv, PTL DEF Spec
=============================================================================
