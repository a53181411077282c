---------------------------- MODULE ProgressProofs ----------------------------
(***************************************************************************)
(* What the commands take for granted when they work through a range, keep *)
(* their progress and find each other's files: SplitRange covers its       *)
(* range, for every width of the block number; the tmp-and-rename protocol *)
(* is an atomic register, for any values; and of the settings, which       *)
(* conditions on them keep logs and progress.                              *)
(***************************************************************************)
EXTENDS SplitRange, StateFile, Settings, WellFoundedInduction, TLAPS

\* Uint values are their own remainder, and the largest plus one wraps to 0.
LEMMA WrapInside == ASSUME NEW n \in Uint PROVE Wrap(n) = n
  BY MaxUintAssumption DEF Uint, Wrap

LEMMA WrapAround == Wrap(MaxUint + 1) = 0
  BY MaxUintAssumption DEF Wrap

\* The loop invariant: start is the first block after the last batch cut.
LoopInv ==
  /\ SplitTypeOK
  /\ at # "error" => batchSize > 0 /\ from <= to
  /\ at = "loop" => start <= to /\ from <= start
  /\ Covers
  /\ at = "loop" /\ Len(ranges) = 0 => start = from
  /\ at = "loop" /\ Len(ranges) > 0 => start = ranges[Len(ranges)].To + 1
  /\ BatchesFit

\* Remaining and End as the code means them, where the arithmetic wraps and
\* where it does not.
LEMMA EndMeaning ==
  ASSUME SplitTypeOK, batchSize > 0, start <= to
  PROVE  /\ End \in Uint
         /\ start <= End /\ End <= to
         /\ End # to => End = start + batchSize - 1
         /\ (start > 0 \/ to < MaxUint) => End - start < batchSize
<1> USE MaxUintAssumption DEF SplitTypeOK
<1>1. CASE start > 0 \/ to < MaxUint
  <2>1. to - start + 1 \in Uint
    BY <1>1 DEF Uint
  <2>2. Remaining = to - start + 1
    BY <2>1, WrapInside DEF Remaining
  <2>3. CASE Remaining <= batchSize
    BY <2>2, <2>3 DEF End, Uint
  <2>4. CASE ~(Remaining <= batchSize)
    <3>1. start + batchSize - 1 \in Uint /\ start + batchSize - 1 < to
      BY <2>2, <2>4 DEF Uint
    <3>2. End = start + batchSize - 1
      BY <3>1, <2>4, WrapInside DEF End
    <3> QED
      BY <3>1, <3>2 DEF Uint
  <2> QED
    BY <2>3, <2>4
<1>2. CASE start = 0 /\ to = MaxUint
  <2>1. Remaining = 0
    BY <1>2, WrapAround DEF Remaining, Uint
  <2>2. End = to
    BY <2>1 DEF End, Uint
  <2> QED
    BY <2>2, <1>2 DEF Uint
<1> QED
  BY <1>1, <1>2 DEF Uint

\* Appending the batch start..e keeps every batch property.
LEMMA AppendBatch ==
  ASSUME LoopInv, at = "loop", NEW e \in Uint, start <= e, e <= to,
         (start > 0 \/ to < MaxUint) => e - start < batchSize,
         ranges' = Append(ranges, [From |-> start, To |-> e]),
         UNCHANGED args
  PROVE  /\ ranges' \in Seq(BlockRange)
         /\ Len(ranges') > 0
         /\ ranges'[Len(ranges')].To = e
         /\ ranges'[1].From = from
         /\ Adjacent' /\ InRange' /\ BatchesFit'
<1> DEFINE b == [From |-> start, To |-> e]
           n == Len(ranges)
<1>1. b \in BlockRange /\ ranges \in Seq(BlockRange) /\ n \in Nat
  BY DEF LoopInv, SplitTypeOK, BlockRange
<1>2. /\ Len(ranges') = n + 1
      /\ ranges' \in Seq(BlockRange)
      /\ ranges'[n + 1] = b
      /\ \A i \in 1..n : ranges'[i] = ranges[i]
  BY <1>1
<1>3. from' = from /\ to' = to /\ batchSize' = batchSize
  BY DEF args
<1>4. ranges'[1].From = from
  BY <1>1, <1>2 DEF LoopInv, Covers
<1>5. Adjacent'
  <2> SUFFICES ASSUME NEW i \in 1..n
               PROVE  ranges'[i + 1].From = ranges'[i].To + 1
    BY <1>1, <1>2 DEF Adjacent
  <2>1. CASE i < n
    BY <2>1, <1>1, <1>2 DEF LoopInv, Covers, Adjacent
  <2>2. CASE i = n
    BY <2>2, <1>1, <1>2 DEF LoopInv
  <2> QED
    BY <2>1, <2>2, <1>1
<1>6. InRange'
  BY <1>1, <1>2, <1>3 DEF LoopInv, SplitTypeOK, Covers, InRange
<1>7. BatchesFit'
  <2> SUFFICES ASSUME from > 0 \/ to < MaxUint, NEW i \in 1..n + 1
               PROVE  ranges'[i].To - ranges'[i].From < batchSize
    BY <1>2, <1>3 DEF BatchesFit, FitsBatch
  <2>1. CASE i = n + 1
    BY <2>1, <1>2, MaxUintAssumption DEF LoopInv, SplitTypeOK, Uint
  <2>2. CASE i # n + 1
    BY <2>2, <1>1, <1>2 DEF LoopInv, BatchesFit, FitsBatch
  <2> QED
    BY <2>1, <2>2
<1> QED
  BY <1>1, <1>2, <1>4, <1>5, <1>6, <1>7

LEMMA InitLoopInv == SplitInit => LoopInv
  BY MaxUintAssumption
  DEF SplitInit, LoopInv, SplitTypeOK, BadArguments, Covers, Adjacent, InRange,
      BatchesFit, FitsBatch, Uint

LEMMA NextLoopInv == LoopInv /\ [SplitNext]_splitVars => LoopInv'
<1> SUFFICES ASSUME LoopInv, [SplitNext]_splitVars PROVE LoopInv'
  OBVIOUS
<1>1. CASE LastBatch
  <2>1. /\ at = "loop" /\ start <= to /\ batchSize > 0 /\ SplitTypeOK
        /\ End = to /\ UNCHANGED <<args, start>> /\ at' = "ranges"
    BY <1>1 DEF LoopInv, LastBatch
  <2>2. /\ ranges' \in Seq(BlockRange)
        /\ Len(ranges') > 0
        /\ ranges'[Len(ranges')].To = to
        /\ ranges'[1].From = from
        /\ Adjacent' /\ InRange' /\ BatchesFit'
    BY <1>1, <2>1, EndMeaning, AppendBatch DEF LastBatch
  <2>3. from' = from /\ to' = to /\ batchSize' = batchSize /\ start' = start
    BY <2>1 DEF args
  <2> QED
    BY <2>1, <2>2, <2>3 DEF LoopInv, SplitTypeOK, Covers
<1>2. CASE NextBatch
  <2>1. /\ at = "loop" /\ start <= to /\ batchSize > 0 /\ SplitTypeOK
        /\ End # to /\ UNCHANGED args
    BY <1>2 DEF LoopInv, NextBatch
  <2>2. /\ End \in Uint /\ start <= End /\ End < to
        /\ (start > 0 \/ to < MaxUint) => End - start < batchSize
    BY <2>1, EndMeaning DEF SplitTypeOK, Uint
  <2>3. /\ ranges' \in Seq(BlockRange)
        /\ Len(ranges') > 0
        /\ ranges'[Len(ranges')].To = End
        /\ ranges'[1].From = from
        /\ Adjacent' /\ InRange' /\ BatchesFit'
    BY <1>2, <2>1, <2>2, AppendBatch DEF NextBatch, SplitTypeOK, Uint
  <2>4. from' = from /\ to' = to /\ batchSize' = batchSize
    BY <2>1 DEF args
  <2>5. End + 1 \in Uint
    BY <2>1, <2>2, MaxUintAssumption DEF SplitTypeOK, Uint
  <2>6. start' = End + 1 /\ at' = "loop"
    BY <1>2, <2>1, <2>2, <2>5, WrapInside DEF NextBatch, MoveStartTo, SplitTypeOK, Uint
  <2> QED
    BY <2>1, <2>2, <2>3, <2>4, <2>5, <2>6, MaxUintAssumption
    DEF LoopInv, SplitTypeOK, Covers, Uint
<1>3. CASE UNCHANGED splitVars
  BY <1>3 DEF splitVars, LoopInv, SplitTypeOK, Covers, Adjacent, InRange, BatchesFit, FitsBatch
<1> QED
  BY <1>1, <1>2, <1>3 DEF SplitNext

\* The loop invariant holds in every reachable state.
THEOREM SplitRangeInvariant == SplitSpec => []LoopInv
  BY InitLoopInv, NextLoopInv, PTL DEF SplitSpec

\* The batches are a gapless, overlap-free cover of from..to (range.go:20-35).
THEOREM SplitRangeCovers == SplitSpec => []Covers
<1>1. LoopInv => Covers
  BY DEF LoopInv
<1> QED
  BY <1>1, SplitRangeInvariant, PTL

\* No batch exceeds batchSize, unless the range is all of 0..MaxUint.
THEOREM SplitRangeBatchesFit == SplitSpec => []BatchesFit
<1>1. LoopInv => BatchesFit
  BY DEF LoopInv
<1> QED
  BY <1>1, SplitRangeInvariant, PTL

\* The loop terminates: an iteration that goes on has moved start forward,
\* and start never passes to, which never changes.
THEOREM SplitRangeTerminates == SplitSpec => LoopVariant
<1>1. LoopInv /\ [SplitNext]_splitVars => [at' = "loop" => start < start']_splitVars
  <2> SUFFICES ASSUME LoopInv, SplitNext, at' = "loop" PROVE start < start'
    BY DEF splitVars
  <2>1. NextBatch
    BY DEF SplitNext, LastBatch
  <2>2. /\ at = "loop" /\ start <= to /\ batchSize > 0 /\ SplitTypeOK /\ End # to
    BY <2>1 DEF LoopInv, NextBatch
  <2>3. /\ End \in Uint /\ start <= End /\ End < to
    BY <2>2, EndMeaning DEF SplitTypeOK, Uint
  <2>4. End + 1 \in Uint
    BY <2>2, <2>3, MaxUintAssumption DEF SplitTypeOK, Uint
  <2> QED
    BY <2>1, <2>2, <2>3, <2>4, WrapInside DEF NextBatch, MoveStartTo, SplitTypeOK, Uint
<1> QED
  BY <1>1, SplitRangeInvariant, PTL DEF SplitSpec, LoopVariant
-----------------------------------------------------------------------------
\* What is renamed over path is the whole argument of the Save in progress.
FileInv ==
  /\ StoreTypeOK
  /\ path # Partial
  /\ pc = "rename" => tmp = arg
  /\ pc \in {"create", "write", "rename"} => arg \in Values
  /\ pc = "return" => path = arg

LEMMA InitFileInv == StoreInit => FileInv
  BY ContentAssumption DEF StoreInit, FileInv, StoreTypeOK

LEMMA NextFileInv == FileInv /\ [StoreNext]_storeVars => FileInv'
<1> SUFFICES ASSUME FileInv, [StoreNext]_storeVars PROVE FileInv'
  OBVIOUS
<1> USE ContentAssumption DEF FileInv, StoreTypeOK, files
<1>1. ASSUME NEW v \in Values, Save(v) PROVE FileInv'
  BY <1>1 DEF Save
<1>2. CASE CreateTmp
  BY <1>2 DEF CreateTmp
<1>3. CASE WriteTmp
  BY <1>3 DEF WriteTmp
<1>4. CASE Rename
  BY <1>4 DEF Rename
<1>5. CASE Return
  BY <1>5 DEF Return
<1>6. CASE StepFails
  BY <1>6 DEF StepFails
<1>7. CASE Crash
  BY <1>7 DEF Crash
<1>8. CASE Load
  BY <1>8 DEF Load, Parsed
<1>9. CASE UNCHANGED storeVars
  BY <1>9 DEF storeVars
<1> QED
  BY <1>1, <1>2, <1>3, <1>4, <1>5, <1>6, <1>7, <1>8, <1>9 DEF StoreNext

THEOREM StateFileInvariant == StoreSpec => []FileInv
  BY InitFileInv, NextFileInv, PTL DEF StoreSpec

LEMMA StepRefines == FileInv /\ [StoreNext]_storeVars => [Register!Next]_(Register!vars)
<1> SUFFICES ASSUME FileInv, [StoreNext]_storeVars PROVE [Register!Next]_(Register!vars)
  OBVIOUS
<1> USE DEF FileInv, StoreTypeOK, files, Register!vars, Register!Next
<1>1. ASSUME NEW v \in Values, Save(v) PROVE Register!Call(v)
  BY <1>1 DEF Save, Register!Call
<1>2. CASE CreateTmp \/ WriteTmp
  BY <1>2 DEF CreateTmp, WriteTmp
<1>3. CASE Rename
  BY <1>3 DEF Rename, Register!TakeEffect
<1>4. CASE Return
  BY <1>4 DEF Return, Register!End
<1>5. CASE StepFails
  BY <1>5 DEF StepFails, Register!End
<1>6. CASE Crash
  BY <1>6 DEF Crash, Register!End
<1>7. CASE Load
  BY <1>7 DEF Load, Parsed, Register!Load
<1>8. CASE UNCHANGED storeVars
  BY <1>8 DEF storeVars
<1> QED
  BY <1>1, <1>2, <1>3, <1>4, <1>5, <1>6, <1>7, <1>8 DEF StoreNext

\* A Save that returned nil, and no Save that returned an error, is what the
\* next Load finds, also across a crash.
THEOREM StateFileIsAtomicRegister == StoreSpec => IsAtomicRegister
<1>1. StoreInit => Register!Init
  BY DEF StoreInit, Register!Init
<1> QED
  BY <1>1, StepRefines, StateFileInvariant, PTL DEF StoreSpec, IsAtomicRegister, Register!Spec
-----------------------------------------------------------------------------
Kinds == {"log", "event", "error"}
Seconds(a) == WindowSeconds(Setting("aggregate", a, "window"))
Name(a) == StateName(a, Seconds(a))
Output(r) == Setting("run", r, "out")
Saved(r) == Setting("run", r, "checkpoint")

FilesTyped ==
  \A p \in DOMAIN disk : disk[p] \subseteq [kind : Kinds, block : fetched]

\* Lines are of blocks that have been fetched, and what is typed is what was given.
SettingsInv ==
  /\ env \in EnvChoices /\ file \in FileChoices
  /\ head \in 0..MaxBlock /\ fetched \subseteq 1..head
  /\ FilesTyped
  /\ \A p \in DOMAIN checkpoint : checkpoint[p] \in 0..head
  /\ \A row \in rows : row[1] \in Nat \ {0} /\ row[2] \in fetched
  /\ \A name \in DOMAIN state : state[name] \in 0..Modulus - 1
  /\ recompute.input \subseteq Int

\* What was fetched is where some run has put it.
KeptInv ==
  \A b \in fetched : \E r \in FlagChoices.run : b \in Of("log", Content(Output(r)))

\* There is one file of logs; it has all that was fetched, and the next block to be
\* fetched is above.
LogInv ==
  \A r \in FlagChoices.run :
    /\ Of("log", Content(Output(r))) = fetched
    /\ \A p \in DOMAIN disk : p # Output(r) => Of("log", disk[p]) = {}
    /\ \A b \in fetched : Saved(r) \in DOMAIN checkpoint /\ b <= checkpoint[Saved(r)]

\* The events of a file are those of all blocks up to some block.
EventsInv ==
  \A p \in DOMAIN disk : \A b \in fetched : \A c \in Of("event", disk[p]) :
    b <= c => b \in Of("event", disk[p])

\* States belong to one size of windows, lie on a block that was fetched, and have
\* the rows of all blocks up to it.
StateInv ==
  /\ \A u \in used : \E a \in FlagChoices.aggregate : u = <<Name(a), Seconds(a)>>
  /\ \A name \in DOMAIN state :
       /\ \E u \in used : u[1] = name
       /\ state[name] = 0 \/ \E b \in fetched : state[name] <= b
  /\ \A u \in used : u[1] \in DOMAIN state =>
       \A b \in fetched : b <= state[u[1]] => <<u[2], b>> \in rows

ProgressInv == LogInv /\ EventsInv /\ StateInv
-----------------------------------------------------------------------------
\* Block numbers and times of every layer are numbers, so what viper picks is one.
Numbers == {"from", "to", "window", "recompute_from"}
NumbersOf(key) == IF key \in {"from", "to"} THEN Nat \cup {Unreadable} ELSE Int
Numeric(layer) == \A key \in Numbers : key \in DOMAIN layer => layer[key] \in NumbersOf(key)

LEMMA ChoicesNumeric ==
  \A layer \in FlagChoices.run \cup FlagChoices.aggregate \cup EnvChoices \cup FileChoices : Numeric(layer)
  BY SettingsAssumption DEF Numeric, Numbers, NumbersOf

\* The first layer that has a key: some layer that has it.
LEMMA ValueMeaning ==
  ASSUME NEW layers, NEW key, HasKey(layers, key)
  PROVE  \E i \in 1..4 : key \in DOMAIN layers[i] /\ Value(layers, key) = layers[i][key]
<1> DEFINE First(i) ==
             key \in DOMAIN layers[i] /\ \A j \in 1..i - 1 : key \notin DOMAIN layers[j]
           first == CHOOSE i \in 1..4 : First(i)
<1>1. \E i \in 1..4 : First(i)
  <2>1. \A i \in 1..4 : i = 1 \/ i = 2 \/ i = 3 \/ i = 4
    OBVIOUS
  <2>2. 1..1 - 1 = {} /\ 1..2 - 1 = {1} /\ 1..3 - 1 = {1, 2} /\ 1..4 - 1 = {1, 2, 3}
    OBVIOUS
  <2>3. \/ key \in DOMAIN layers[1] \/ key \in DOMAIN layers[2]
        \/ key \in DOMAIN layers[3] \/ key \in DOMAIN layers[4]
    BY <2>1 DEF HasKey
  <2> QED
    BY <2>2, <2>3
<1>2. first \in 1..4 /\ key \in DOMAIN layers[first]
  BY <1>1
<1>3. Value(layers, key) = layers[first][key]
  BY DEF Value
<1> QED
  BY <1>2, <1>3

\* A number that is given, or has a default, is one.
LEMMA SettingNumeric ==
  ASSUME env \in EnvChoices, file \in FileChoices,
         NEW command \in {"run", "aggregate"}, NEW flags \in FlagChoices[command],
         NEW key \in Numbers, Given(command, flags, key)
  PROVE  Setting(command, flags, key) \in NumbersOf(key)
<1> DEFINE layers == Layers(command, flags, env, file)
<1>1. PICK i \in 1..4 : key \in DOMAIN layers[i] /\ Setting(command, flags, key) = layers[i][key]
  BY ValueMeaning DEF Given, Setting
<1>2. /\ layers[1] = flags /\ layers[2] = env /\ layers[3] = file /\ layers[4] = Defaults[command]
      /\ i = 1 \/ i = 2 \/ i = 3 \/ i = 4
  BY DEF Layers
<1>3. Numeric(flags) /\ Numeric(env) /\ Numeric(file)
  BY ChoicesNumeric
<1>4. Numeric(Defaults["run"]) /\ Numeric(Defaults["aggregate"])
  BY DEF Numeric, Numbers, NumbersOf, Defaults
<1> HIDE DEF layers
<1> QED
  BY <1>1, <1>2, <1>3, <1>4 DEF Numeric

LEMMA DefaultsGiven ==
  ASSUME NEW flags
  PROVE  /\ Given("run", flags, "from") /\ Given("run", flags, "to")
         /\ Given("aggregate", flags, "window")
<1>1. /\ "from" \in DOMAIN Defaults["run"] /\ "to" \in DOMAIN Defaults["run"]
      /\ "window" \in DOMAIN Defaults["aggregate"]
  BY DEF Defaults
<1>2. \A c : Layers(c, flags, env, file)[4] = Defaults[c]
  BY DEF Layers
<1> QED
  BY <1>1, <1>2 DEF Given, HasKey
-----------------------------------------------------------------------------
\* What the three commands do, in terms of the files and names they were told to use.
Blocks(first, last) == {b \in first..last : b > 0}
Fetches(r, first, last) ==
  /\ first \in Nat /\ last \in Nat /\ first <= last /\ last <= head
  /\ Saved(r) \in DOMAIN checkpoint => checkpoint[Saved(r)] < first
  /\ disk' = IF Blocks(first, last) = {} THEN disk
              ELSE Put(disk, Output(r), Content(Output(r)) \cup Lines("log", Blocks(first, last)))
  /\ checkpoint' = Put(checkpoint, Saved(r), last)
  /\ fetched' = fetched \cup Blocks(first, last)
  /\ UNCHANGED <<env, file, head, rows, state, used, recompute>>

LEMMA NumberMeaning == \A n \in NumbersOf("from") \cup NumbersOf("to") : Number(n) \in Nat
  BY DEF Number, NumbersOf

LEMMA RunFetches ==
  ASSUME SettingsInv, NEW r \in FlagChoices.run, Run(r)
  PROVE  \E first, last : Fetches(r, first, last)
<1> DEFINE from0 == Number(Setting("run", r, "from"))
           to0 == Number(Setting("run", r, "to"))
           last0 == IF to0 = 0 THEN head ELSE to0
           first0 == IF Saved(r) \in DOMAIN checkpoint /\ checkpoint[Saved(r)] >= from0
                     THEN checkpoint[Saved(r)] + 1 ELSE from0
<1>1. from0 \in Nat /\ to0 \in Nat
  <2>1. "from" \in Numbers /\ "to" \in Numbers
    BY DEF Numbers
  <2>2. Setting("run", r, "from") \in NumbersOf("from") /\ Setting("run", r, "to") \in NumbersOf("to")
    BY <2>1, SettingNumeric, DefaultsGiven DEF SettingsInv
  <2> QED
    BY <2>2, NumberMeaning
<1>2. /\ first0 <= last0 /\ last0 <= head
      /\ disk' = IF {b \in first0..last0 : b > 0} = {} THEN disk
                  ELSE Put(disk, Output(r),
                           Content(Output(r)) \cup Lines("log", {b \in first0..last0 : b > 0}))
      /\ checkpoint' = Put(checkpoint, Saved(r), last0)
      /\ fetched' = fetched \cup {b \in first0..last0 : b > 0}
      /\ UNCHANGED <<env, file, head, rows, state, used, recompute>>
  BY DEF Run, Output, Saved
<1>3. head \in Nat /\ \A p \in DOMAIN checkpoint : checkpoint[p] \in Nat
  BY SettingsAssumption DEF SettingsInv
<1>4. first0 \in Nat /\ last0 \in Nat
  BY <1>1, <1>3
<1>5. Saved(r) \in DOMAIN checkpoint => checkpoint[Saved(r)] < first0
  BY <1>1, <1>3
<1> HIDE DEF first0, last0
<1>6. Fetches(r, first0, last0)
  BY <1>2, <1>4, <1>5 DEF Fetches, Blocks
<1> QED
  BY <1>6

Out(d) == Setting("decode", d, "out")
Errors(d) == Setting("decode", d, "errors")
Failures(input) == {[line EXCEPT !.kind = "error"] : line \in {x \in input : x.kind # "log"}}
Decodes(d, input) ==
  /\ input = {} \/ \E p \in DOMAIN disk : input = disk[p]
  /\ disk' = Put(Put(disk, Out(d), Lines("event", Of("log", input))), Errors(d), Failures(input))
  /\ UNCHANGED <<env, file, head, checkpoint, rows, state, fetched, used, recompute>>

LEMMA DecodeDecodes ==
  ASSUME NEW d \in FlagChoices.decode, DecodeInput(d)
  PROVE  \E input : Decodes(d, input)
<1> DEFINE in0 == IF Setting("decode", d, "in") \in
                       {Setting("decode", d, "out"), Setting("decode", d, "errors")}
                  THEN {} ELSE disk[Setting("decode", d, "in")]
<1>1. /\ Setting("decode", d, "in") \in DOMAIN disk
      /\ disk' = Put(Put(disk, Out(d), Lines("event", Of("log", in0))), Errors(d), Failures(in0))
      /\ UNCHANGED <<env, file, head, checkpoint, rows, state, fetched, used, recompute>>
  BY DEF DecodeInput, Out, Errors, Failures
<1>2. in0 = {} \/ \E p \in DOMAIN disk : in0 = disk[p]
  BY <1>1
<1> HIDE DEF in0
<1> QED
  BY <1>1, <1>2 DEF Decodes

Input(a) == disk[Setting("aggregate", a, "in")]
Above(blocks, ts) == {b \in blocks : b > ts}
Asked(a) ==
  IF Given("aggregate", a, "recompute_from") THEN Setting("aggregate", a, "recompute_from") ELSE None
FirstTs(a) == StartTs(IF Asked(a) = None THEN 0 ELSE Timestamp(Asked(a)), Name(a))
Times(a) == Above(Of("event", Input(a)), FirstTs(a)) \cup Above(Of("log", Input(a)), FirstTs(a))
LastTs(a) == Max(Times(a) \cup {FirstTs(a)})
Sums(a) ==
  /\ Accepted(a, Setting("aggregate", a, "window")) /\ RecomputesThePast(Asked(a), Name(a))
  /\ Setting("aggregate", a, "in") \in DOMAIN disk
  /\ rows' = rows \cup {<<Seconds(a), b>> : b \in Above(Of("event", Input(a)), FirstTs(a))}
  /\ state' = IF Fits(Name(a), LastTs(a)) THEN Put(state, Name(a), LastTs(a)) ELSE state
  /\ used' = used \cup {<<Name(a), Seconds(a)>>}
  /\ recompute' = [from |-> Asked(a), input |-> Of("event", Input(a)),
                    events |-> Above(Of("event", Input(a)), FirstTs(a))]
  /\ UNCHANGED <<env, file, head, disk, checkpoint, fetched>>

LEMMA AggregateSums ==
  ASSUME NEW a \in FlagChoices.aggregate, Aggregate(a)
  PROVE  Sums(a)
  BY DEF Aggregate, Sums, Times, LastTs, FirstTs, Asked, Above, Input, Name, Seconds
-----------------------------------------------------------------------------
\* What Put, Of and Lines return.
LEMMA PutMeaning ==
  ASSUME NEW f, NEW x, NEW v
  PROVE  /\ DOMAIN Put(f, x, v) = DOMAIN f \cup {x} /\ Put(f, x, v)[x] = v
         /\ \A y \in DOMAIN f : y # x => Put(f, x, v)[y] = f[y]
  BY DEF Put

\* What holds of all values of a function holds after Put if it holds of the new one.
AllIn(f, S) == \A x \in DOMAIN f : f[x] \in S

LEMMA PutKeeps ==
  ASSUME NEW f, NEW x, NEW v, NEW S, AllIn(f, S), v \in S
  PROVE  AllIn(Put(f, x, v), S)
<1> SUFFICES ASSUME NEW y \in DOMAIN Put(f, x, v) PROVE Put(f, x, v)[y] \in S
  BY DEF AllIn
<1> QED
  BY DEF Put, AllIn

At(f, x) == IF x \in DOMAIN f THEN f[x] ELSE {}

LEMMA AtPut ==
  ASSUME NEW f, NEW x, NEW v, NEW y
  PROVE  At(Put(f, x, v), y) = IF y = x THEN v ELSE At(f, y)
  BY DEF At, Put

LEMMA OfMeaning ==
  ASSUME NEW kind, NEW lines, NEW b
  PROVE  b \in Of(kind, lines) <=> \E line \in lines : line.kind = kind /\ line.block = b
  BY DEF Of

LEMMA LinesMeaning ==
  ASSUME NEW kind, NEW blocks
  PROVE  /\ Of(kind, Lines(kind, blocks)) = blocks
         /\ \A other : other # kind => Of(other, Lines(kind, blocks)) = {}
         /\ kind \in Kinds => Lines(kind, blocks) \subseteq [kind : Kinds, block : blocks]
<1>1. \A line : line \in Lines(kind, blocks) <=>
        \E b \in blocks : line = [kind |-> kind, block |-> b]
  BY DEF Lines
<1>2. \A b : b \in Of(kind, Lines(kind, blocks)) <=> b \in blocks
  <2>1. ASSUME NEW b, b \in Of(kind, Lines(kind, blocks)) PROVE b \in blocks
    BY <2>1, <1>1, OfMeaning
  <2>2. ASSUME NEW b \in blocks PROVE b \in Of(kind, Lines(kind, blocks))
    <3> DEFINE line == [kind |-> kind, block |-> b]
    <3>1. line \in Lines(kind, blocks) /\ line.kind = kind /\ line.block = b
      BY <1>1
    <3> HIDE DEF line
    <3> QED
      BY <3>1, OfMeaning
  <2> QED
    BY <2>1, <2>2
<1>3. \A other, b : other # kind => b \notin Of(other, Lines(kind, blocks))
  BY <1>1, OfMeaning
<1>4. kind \in Kinds => Lines(kind, blocks) \subseteq [kind : Kinds, block : blocks]
  BY <1>1
<1> QED
  BY <1>2, <1>3, <1>4

LEMMA UnionOf ==
  ASSUME NEW kind, NEW A, NEW B
  PROVE  Of(kind, A \cup B) = Of(kind, A) \cup Of(kind, B)
  BY DEF Of

LEMMA FailuresMeaning ==
  ASSUME NEW input, NEW blocks, input \subseteq [kind : Kinds, block : blocks]
  PROVE  /\ Failures(input) \subseteq [kind : Kinds, block : blocks]
         /\ \A kind : kind # "error" => Of(kind, Failures(input)) = {}
  BY DEF Failures, Of, Kinds

LEMMA OfTyped ==
  ASSUME NEW kind, NEW lines, NEW blocks, lines \subseteq [kind : Kinds, block : blocks]
  PROVE  Of(kind, lines) \subseteq blocks
  BY DEF Of

LEMMA LeastExists ==
  ASSUME NEW S, S \subseteq Nat, S # {}
  PROVE  \E x \in S : \A y \in S : x <= y
<1>1. PICK x \in S : \A y \in S : ~(<<y, x>> \in OpToRel(<, Nat))
  BY NatLessThanWellFounded, WFMin
<1>2. ASSUME NEW y \in S PROVE x <= y
  <2>1. ~(y < x)
    BY <1>1 DEF OpToRel
  <2> QED
    BY <2>1
<1> QED
  BY <1>2

LEMMA MaxMeaning ==
  ASSUME NEW n \in Nat, NEW S, S \subseteq 0..n, S # {}
  PROVE  Max(S) \in S /\ \A y \in S : y <= Max(S)
<1> DEFINE Gaps == {n - x : x \in S}
<1>1. PICK g \in Gaps : \A y \in Gaps : g <= y
  <2>1. \A x \in S : n - x \in Nat
    OBVIOUS
  <2>2. Gaps \subseteq Nat /\ Gaps # {}
    BY <2>1
  <2> HIDE DEF Gaps
  <2> QED
    BY <2>2, LeastExists
<1>2. PICK x \in S : g = n - x
  OBVIOUS
<1>3. \A y \in S : x >= y
  <2>1. ASSUME NEW y \in S PROVE x >= y
    <3>1. n - x <= n - y
      BY <1>1, <1>2
    <3>2. x \in Int /\ y \in Int
      OBVIOUS
    <3> QED
      BY <3>1, <3>2
  <2> QED
    BY <2>1
<1>4. Max(S) \in S /\ \A y \in S : Max(S) >= y
  BY <1>3 DEF Max
<1>5. \A y \in S : y \in Int
  OBVIOUS
<1> QED
  BY <1>4, <1>5
-----------------------------------------------------------------------------
\* Where a run of aggregate starts and ends.
LEMMA TimesMeaning ==
  ASSUME SettingsInv, NEW a \in FlagChoices.aggregate, Sums(a)
  PROVE  /\ FirstTs(a) \in 0..Modulus - 1 /\ LastTs(a) \in 0..Modulus - 1
         /\ LastTs(a) = FirstTs(a) \/ LastTs(a) \in Times(a)
         /\ FirstTs(a) <= LastTs(a)
         /\ Input(a) \subseteq [kind : Kinds, block : fetched]
<1>1. Modulus \in Nat \ {0} /\ MaxBlock \in Nat /\ 4 * MaxBlock <= Modulus
  BY SettingsAssumption
<1>2. Given("aggregate", a, "recompute_from") => Asked(a) \in Int
  BY SettingNumeric DEF Numbers, NumbersOf, Asked, SettingsInv
<1>3. Asked(a) \in Int
  BY <1>2 DEF Asked, None
<1>4. Timestamp(Asked(a)) \in 0..Modulus - 1
  BY <1>1, <1>3 DEF Timestamp
<1>5. FirstTs(a) \in 0..Modulus - 1
  BY <1>1, <1>4 DEF FirstTs, StartTs, SettingsInv
<1>6. Input(a) \subseteq [kind : Kinds, block : fetched]
  BY DEF Sums, Input, SettingsInv, FilesTyped
<1>7. fetched \subseteq 0..Modulus - 1
  BY <1>1 DEF SettingsInv
<1> DEFINE all == Times(a) \cup {FirstTs(a)}
<1>8. all \subseteq 0..Modulus - 1 /\ all # {}
  BY <1>5, <1>6, <1>7, OfTyped DEF Times, Above
<1>9. LastTs(a) = Max(all)
  BY DEF LastTs
<1>10. FirstTs(a) \in all
  OBVIOUS
<1> HIDE DEF all
<1>11. Modulus - 1 \in Nat
  BY <1>1
<1>12. Max(all) \in all /\ \A y \in all : y <= Max(all)
  BY <1>8, <1>11, MaxMeaning
<1> QED
  BY <1>5, <1>6, <1>8, <1>9, <1>10, <1>12 DEF all
LEMMA RunTyped ==
  ASSUME SettingsInv, NEW r, NEW first, NEW last, Fetches(r, first, last)
  PROVE  SettingsInv'
<1> DEFINE new == Blocks(first, last)
           more == Content(Output(r)) \cup Lines("log", new)
<1>1. /\ MaxBlock \in Nat /\ head \in 0..MaxBlock
      /\ UNCHANGED <<env, file, head, rows, state, used, recompute>>
      /\ fetched' = fetched \cup new /\ checkpoint' = Put(checkpoint, Saved(r), last)
  BY SettingsAssumption DEF SettingsInv, Fetches
<1>2. new \subseteq 1..head
  BY <1>1 DEF Fetches, Blocks
<1>3. (fetched \subseteq 1..head)'
  BY <1>1, <1>2 DEF SettingsInv
<1>4. last \in 0..head
  BY <1>1 DEF Fetches
<1>5. \A p \in DOMAIN checkpoint' : checkpoint'[p] \in 0..head'
  <2>1. AllIn(checkpoint, 0..head)
    BY DEF SettingsInv, AllIn
  <2>2. AllIn(Put(checkpoint, Saved(r), last), 0..head)
    BY <2>1, <1>4, PutKeeps
  <2> QED
    BY <2>2, <1>1 DEF AllIn
<1>6. AllIn(disk, SUBSET [kind : Kinds, block : fetched'])
  BY <1>1 DEF SettingsInv, FilesTyped, AllIn
<1>7. more \subseteq [kind : Kinds, block : fetched']
  <2>1. Content(Output(r)) \subseteq [kind : Kinds, block : fetched']
    BY <1>6 DEF Content, AllIn
  <2>2. Lines("log", new) \subseteq [kind : Kinds, block : new]
    BY LinesMeaning DEF Kinds
  <2> QED
    BY <2>1, <2>2, <1>1
<1>8. disk' = disk \/ disk' = Put(disk, Output(r), more)
  BY DEF Fetches
<1> HIDE DEF more, new
<1>9. FilesTyped'
  <2>1. AllIn(Put(disk, Output(r), more), SUBSET [kind : Kinds, block : fetched'])
    BY <1>6, <1>7, PutKeeps
  <2>2. AllIn(disk', SUBSET [kind : Kinds, block : fetched'])
    BY <1>6, <1>8, <2>1
  <2> QED
    BY <2>2 DEF FilesTyped, AllIn
<1>10. \A row \in rows' : row[1] \in Nat \ {0} /\ row[2] \in fetched'
  BY <1>1 DEF SettingsInv
<1> QED
  BY <1>1, <1>3, <1>5, <1>9, <1>10 DEF SettingsInv

LEMMA DecodeTyped ==
  ASSUME SettingsInv, NEW d, NEW input, Decodes(d, input)
  PROVE  SettingsInv'
<1> DEFINE events == Lines("event", Of("log", input))
<1>1. input \subseteq [kind : Kinds, block : fetched]
  BY DEF Decodes, SettingsInv, FilesTyped
<1>2. events \subseteq [kind : Kinds, block : fetched]
  <2>1. Lines("event", Of("log", input)) \subseteq [kind : Kinds, block : Of("log", input)]
    BY LinesMeaning DEF Kinds
  <2>2. Of("log", input) \subseteq fetched
    BY <1>1, OfTyped
  <2> QED
    BY <2>1, <2>2
<1>3. Failures(input) \subseteq [kind : Kinds, block : fetched]
  BY <1>1, FailuresMeaning
<1>4. disk' = Put(Put(disk, Out(d), events), Errors(d), Failures(input))
  BY DEF Decodes
<1> HIDE DEF events
<1> DEFINE lineSets == SUBSET [kind : Kinds, block : fetched]
<1>5. AllIn(disk, lineSets) /\ events \in lineSets /\ Failures(input) \in lineSets
  BY <1>2, <1>3 DEF SettingsInv, FilesTyped, AllIn
<1>6. \A p \in DOMAIN disk' : disk'[p] \in lineSets
  <2> HIDE DEF lineSets
  <2>1. AllIn(Put(disk, Out(d), events), lineSets)
    BY <1>5, PutKeeps
  <2>2. AllIn(Put(Put(disk, Out(d), events), Errors(d), Failures(input)), lineSets)
    BY <1>5, <2>1, PutKeeps
  <2> QED
    BY <1>4, <2>2 DEF AllIn
<1>7. UNCHANGED <<env, file, head, checkpoint, rows, state, fetched, used, recompute>>
  BY DEF Decodes
<1> QED
  BY <1>6, <1>7 DEF SettingsInv, FilesTyped

LEMMA AggregateTyped ==
  ASSUME SettingsInv, NEW a \in FlagChoices.aggregate, Sums(a)
  PROVE  SettingsInv'
<1>1. /\ LastTs(a) \in 0..Modulus - 1
      /\ Input(a) \subseteq [kind : Kinds, block : fetched]
  BY TimesMeaning
<1>2. Of("event", Input(a)) \subseteq fetched
  BY <1>1, OfTyped
<1>3. Seconds(a) \in Nat \ {0}
  <2>1. Setting("aggregate", a, "window") \in Int
    BY SettingNumeric, DefaultsGiven DEF Numbers, NumbersOf, SettingsInv
  <2> QED
    BY <2>1 DEF Sums, Accepted, Seconds, WindowSeconds
<1>4. \A row \in rows' : row[1] \in Nat \ {0} /\ row[2] \in fetched
  BY <1>2, <1>3 DEF Sums, Above, SettingsInv
<1>5. \A name \in DOMAIN state' : state'[name] \in 0..Modulus - 1
  <2>1. AllIn(state, 0..Modulus - 1)
    BY DEF SettingsInv, AllIn
  <2>2. AllIn(Put(state, Name(a), LastTs(a)), 0..Modulus - 1)
    BY <2>1, <1>1, PutKeeps
  <2>3. state' = state \/ state' = Put(state, Name(a), LastTs(a))
    BY DEF Sums
  <2> QED
    BY <2>1, <2>2, <2>3 DEF AllIn
<1>6. recompute'.input \subseteq Int
  <2>1. recompute'.input = Of("event", Input(a))
    BY DEF Sums
  <2>2. fetched \subseteq Int
    BY DEF SettingsInv
  <2> QED
    BY <2>1, <2>2, <1>2
<1>7. UNCHANGED <<env, file, head, disk, checkpoint, fetched>>
  BY DEF Sums
<1> QED
  BY <1>4, <1>5, <1>6, <1>7 DEF SettingsInv, FilesTyped

LEMMA InitSettings == Init => SettingsInv
  BY SettingsAssumption DEF Init, SettingsInv, FilesTyped

LEMMA NextSettings == SettingsInv /\ [Next]_vars => SettingsInv'
<1> SUFFICES ASSUME SettingsInv, [Next]_vars PROVE SettingsInv'
  OBVIOUS
<1>1. CASE ChainGrows
  BY <1>1, SettingsAssumption DEF ChainGrows, SettingsInv, FilesTyped
<1>2. ASSUME NEW r \in FlagChoices.run, Run(r) PROVE SettingsInv'
  BY <1>2, RunFetches, RunTyped
<1>3. ASSUME NEW d \in FlagChoices.decode, DecodeInput(d) PROVE SettingsInv'
  BY <1>3, DecodeDecodes, DecodeTyped
<1>4. ASSUME NEW a \in FlagChoices.aggregate, Aggregate(a) PROVE SettingsInv'
  BY <1>4, AggregateSums, AggregateTyped
<1>5. CASE UNCHANGED vars
  BY <1>5 DEF vars, SettingsInv, FilesTyped
<1> QED
  BY <1>1, <1>2, <1>3, <1>4, <1>5 DEF Next
\* Whatever flags, environment and file there are.
THEOREM SettingsInvariant == Spec => []SettingsInv
  BY InitSettings, NextSettings, PTL DEF Spec

\* Checkpoints and what is fetched stay on the chain, rows are of fetched blocks and
\* whole windows, and time stamps fit 64 bits.
THEOREM SettingsTyped == Spec => []TypeOK
<1>1. SettingsInv => TypeOK
  BY DEF SettingsInv, FilesTyped, Kinds, TypeOK
<1> QED
  BY <1>1, SettingsInvariant, PTL
-----------------------------------------------------------------------------
\* Environment and file stay, and so does every setting.
LEMMA SameSettings ==
  ASSUME env' = env, file' = file, NEW x
  PROVE  /\ Output(x)' = Output(x) /\ Saved(x)' = Saved(x)
         /\ Seconds(x)' = Seconds(x) /\ Name(x)' = Name(x)
<1>1. \A c : Layers(c, x, env, file)' = Layers(c, x, env, file)
  BY DEF Layers
<1>2. \A c, k : Setting(c, x, k)' = Setting(c, x, k)
  BY <1>1 DEF Setting
<1> QED
  BY <1>1, <1>2 DEF Output, Saved, Seconds, Name, StateName, Given

\* Decode truncates no file a run writes to.
LEMMA OutputKept ==
  ASSUME LogsAreKept, SettingsInv, NEW r \in FlagChoices.run, NEW d \in FlagChoices.decode
  PROVE  Output(r) # Out(d) /\ Output(r) # Errors(d)
  BY DEF LogsAreKept, SettingsInv, Output, Out, Errors, Setting

LEMMA NextKept == LogsAreKept /\ SettingsInv /\ KeptInv /\ [Next]_vars => KeptInv'
<1> SUFFICES ASSUME LogsAreKept, SettingsInv, KeptInv, [Next]_vars PROVE KeptInv'
  OBVIOUS
<1>1. ASSUME NEW r \in FlagChoices.run, Run(r) PROVE KeptInv'
  <2>1. PICK first, last : Fetches(r, first, last)
    BY <1>1, RunFetches
  <2> DEFINE new == Blocks(first, last)
  <2>2. /\ fetched' = fetched \cup new /\ env' = env /\ file' = file
        /\ disk' = IF new = {} THEN disk
                   ELSE Put(disk, Output(r), Content(Output(r)) \cup Lines("log", new))
    BY <2>1 DEF Fetches
  <2> HIDE DEF new
  <2>3. \A s \in FlagChoices.run : Of("log", At(disk, Output(s))) \subseteq Of("log", At(disk', Output(s)))
    BY <2>2, AtPut, UnionOf DEF At, Content
  <2>4. new \subseteq Of("log", At(disk', Output(r)))
    BY <2>2, AtPut, UnionOf, LinesMeaning
  <2>5. \A b \in fetched' : \E s \in FlagChoices.run : b \in Of("log", At(disk', Output(s)))
    BY <2>2, <2>3, <2>4 DEF KeptInv, Content, At
  <2> QED
    BY <2>2, <2>5, SameSettings DEF KeptInv, Content, At
<1>2. ASSUME NEW d \in FlagChoices.decode, DecodeInput(d) PROVE KeptInv'
  <2>1. PICK input : Decodes(d, input)
    BY <1>2, DecodeDecodes
  <2>2. /\ fetched' = fetched /\ env' = env /\ file' = file
        /\ disk' = Put(Put(disk, Out(d), Lines("event", Of("log", input))), Errors(d), Failures(input))
    BY <2>1 DEF Decodes
  <2>3. \A s \in FlagChoices.run : At(disk', Output(s)) = At(disk, Output(s))
    BY <2>2, AtPut, OutputKept
  <2> QED
    BY <2>2, <2>3, SameSettings DEF KeptInv, Content, At
<1>3. CASE UNCHANGED <<env, file, disk, fetched>>
  BY <1>3, SameSettings DEF KeptInv, Content
<1> QED
  BY <1>1, <1>2, <1>3 DEF Next, vars, ChainGrows, Aggregate
\* The raw logs outlive every decode, when decode is told to write elsewhere
\* (decode.go:78-87).
THEOREM SettingsFetchedLogsSurvive == LogsAreKept => (Spec => []FetchedLogsSurvive)
<1> SUFFICES ASSUME LogsAreKept PROVE Spec => []FetchedLogsSurvive
  OBVIOUS
<1>1. Init => KeptInv
  BY DEF Init, KeptInv
<1>2. SettingsInv /\ KeptInv /\ [Next]_vars => KeptInv'
  BY NextKept
<1>3. KeptInv => FetchedLogsSurvive
  <2> SUFFICES ASSUME KeptInv, NEW b \in fetched
               PROVE  \E p \in DOMAIN disk : b \in Of("log", disk[p])
    BY DEF FetchedLogsSurvive
  <2>1. PICK r \in FlagChoices.run : b \in Of("log", Content(Output(r)))
    BY DEF KeptInv
  <2>2. Output(r) \in DOMAIN disk
    BY <2>1 DEF Content, Of
  <2> QED
    BY <2>1, <2>2 DEF Content
<1> QED
  BY <1>1, <1>2, <1>3, SettingsInvariant, PTL DEF Spec
-----------------------------------------------------------------------------
\* A positive time to recompute from is taken as it stands.
LEMMA AskedFits ==
  ASSUME TimesFit, SettingsInv, NEW a \in FlagChoices.aggregate, Asked(a) # None
  PROVE  /\ Asked(a) \in 1..Modulus - 1
         /\ FirstTs(a) = Asked(a) - 1
<1>1. Asked(a) \in 1..Modulus - 1
  BY DEF TimesFit, SettingsInv, Asked, Given, Setting
<1>2. Timestamp(Asked(a)) = Asked(a)
  BY <1>1, SettingsAssumption DEF Timestamp
<1> QED
  BY <1>1, <1>2 DEF FirstTs, StartTs

LEMMA NextRecompute ==
  TimesFit /\ SettingsInv /\ RecomputeCovers /\ [Next]_vars => RecomputeCovers'
<1> SUFFICES ASSUME TimesFit, SettingsInv, RecomputeCovers, [Next]_vars PROVE RecomputeCovers'
  OBVIOUS
<1>1. ASSUME NEW a \in FlagChoices.aggregate, Aggregate(a) PROVE RecomputeCovers'
  <2>1. Sums(a)
    BY <1>1, AggregateSums
  <2>2. /\ recompute'.from = Asked(a) /\ recompute'.input = Of("event", Input(a))
        /\ recompute'.events = Above(Of("event", Input(a)), FirstTs(a))
    BY <2>1 DEF Sums
  <2>3. Of("event", Input(a)) \subseteq Int
    <3>1. Input(a) \subseteq [kind : Kinds, block : fetched]
      BY <2>1, TimesMeaning
    <3>2. Of("event", Input(a)) \subseteq fetched /\ fetched \subseteq Int
      BY <3>1, OfTyped DEF SettingsInv
    <3> QED
      BY <3>2
  <2>4. ASSUME Asked(a) # None, NEW b \in Of("event", Input(a)), b >= Asked(a) PROVE b > FirstTs(a)
    BY <2>3, <2>4, AskedFits
  <2> QED
    BY <2>2, <2>4 DEF RecomputeCovers, Above
<1>2. CASE UNCHANGED recompute
  BY <1>2 DEF RecomputeCovers
<1>3. ASSUME NEW r \in FlagChoices.run, Run(r) PROVE UNCHANGED recompute
  BY <1>3 DEF Run
<1>4. ASSUME NEW d \in FlagChoices.decode, DecodeInput(d) PROVE UNCHANGED recompute
  BY <1>4 DEF DecodeInput
<1> QED
  BY <1>1, <1>2, <1>3, <1>4 DEF Next, vars, ChainGrows

\* Every event from the time asked for is summed up again (aggregator.go:206-210,
\* aggregate.go:76-92).
THEOREM SettingsRecomputeCovers == TimesFit => (Spec => []RecomputeCovers)
<1> SUFFICES ASSUME TimesFit PROVE Spec => []RecomputeCovers
  OBVIOUS
<1>1. Init => RecomputeCovers
  BY DEF Init, RecomputeCovers
<1>2. SettingsInv /\ RecomputeCovers /\ [Next]_vars => RecomputeCovers'
  BY NextRecompute
<1> QED
  BY <1>1, <1>2, SettingsInvariant, PTL DEF Spec
-----------------------------------------------------------------------------
\* What the hypotheses say of one environment and file.
LEMMA OneOutput ==
  ASSUME OneLog, SettingsInv, NEW r \in FlagChoices.run
  PROVE  /\ \A s \in FlagChoices.run : Output(s) = Output(r) /\ Saved(s) = Saved(r)
         /\ \A a \in FlagChoices.aggregate : Sums(a) => Setting("aggregate", a, "in") # Output(r)
<1>1. \A s \in FlagChoices.run : Output(s) = Output(r) /\ Saved(s) = Saved(r)
  BY DEF OneLog, SettingsInv, Output, Saved, Setting
<1>2. ASSUME NEW a \in FlagChoices.aggregate, Sums(a) PROVE Setting("aggregate", a, "in") # Output(r)
  <2>1. Given("aggregate", a, "in")
    BY <1>2 DEF Sums, Accepted, Complete, Required
  <2> QED
    BY <2>1 DEF OneLog, SettingsInv, Output, Setting, Given
<1> QED
  BY <1>1, <1>2

LEMMA OneSize ==
  ASSUME OneSizePerFile, SettingsInv, NEW a \in FlagChoices.aggregate, NEW b \in FlagChoices.aggregate,
         Name(a) = Name(b)
  PROVE  Seconds(a) = Seconds(b)
<1>1. CASE Given("aggregate", a, "state_file") /\ Given("aggregate", b, "state_file")
  <2>1. Setting("aggregate", a, "state_file") = Setting("aggregate", b, "state_file")
    BY <1>1 DEF Name, StateName
  <2> QED
    BY <1>1, <2>1 DEF OneSizePerFile, SettingsInv, Seconds, Setting, Given
<1>2. CASE ~Given("aggregate", a, "state_file") /\ ~Given("aggregate", b, "state_file")
  BY <1>2 DEF Name, StateName
<1>3. "file" # "db"
  OBVIOUS
<1> QED
  BY <1>1, <1>2, <1>3 DEF Name, StateName

LEMMA InitProgress == Init => ProgressInv
  BY DEF Init, ProgressInv, LogInv, EventsInv, StateInv, Content, Of

\* run writes blocks above all it has written, and above every state.
LEMMA RunProgress ==
  ASSUME OneLog, SettingsInv, ProgressInv,
         NEW r \in FlagChoices.run, NEW first, NEW last, Fetches(r, first, last)
  PROVE  ProgressInv'
<1> DEFINE new == Blocks(first, last)
<1>1. /\ fetched' = fetched \cup new /\ env' = env /\ file' = file
      /\ disk' = IF new = {} THEN disk
                 ELSE Put(disk, Output(r), Content(Output(r)) \cup Lines("log", new))
      /\ checkpoint' = Put(checkpoint, Saved(r), last)
      /\ UNCHANGED <<rows, state, used>>
  BY DEF Fetches
<1>2. /\ fetched \subseteq Nat /\ new \subseteq Nat \ {0} /\ first \in Nat /\ last \in Nat /\ first <= last
      /\ \A n \in new : first <= n /\ n <= last
  BY DEF SettingsInv, Fetches, Blocks
<1>3. \A b \in fetched : b < first
  <2> SUFFICES ASSUME NEW b \in fetched PROVE b < first
    OBVIOUS
  <2>1. Saved(r) \in DOMAIN checkpoint /\ b <= checkpoint[Saved(r)]
    BY DEF ProgressInv, LogInv
  <2>2. checkpoint[Saved(r)] < first /\ checkpoint[Saved(r)] \in Nat
    BY <2>1 DEF Fetches, SettingsInv
  <2> QED
    BY <2>1, <2>2, <1>2
<1> HIDE DEF new
<1>4. ASSUME NEW p PROVE Of("event", At(disk', p)) = Of("event", At(disk, p))
  <2>1. CASE new # {} /\ p = Output(r)
    <3>1. At(disk', p) = At(disk, p) \cup Lines("log", new)
      BY <2>1, <1>1, AtPut DEF Content, At
    <3>2. Of("event", Lines("log", new)) = {}
      BY LinesMeaning
    <3> QED
      BY <3>1, <3>2, UnionOf
  <2>2. CASE ~(new # {} /\ p = Output(r))
    BY <2>2, <1>1, AtPut
  <2> QED
    BY <2>1, <2>2
<1>5. \A p : p # Output(r) => At(disk', p) = At(disk, p)
  BY <1>1, AtPut
<1>6. Of("log", At(disk', Output(r))) = fetched'
  <2>1. Of("log", At(disk, Output(r))) = fetched
    BY DEF ProgressInv, LogInv, Content, At
  <2>2. CASE new = {}
    BY <2>1, <2>2, <1>1
  <2>3. CASE new # {}
    <3>1. At(disk', Output(r)) = At(disk, Output(r)) \cup Lines("log", new)
      BY <2>3, <1>1, AtPut DEF Content, At
    <3> QED
      BY <3>1, <2>1, <1>1, UnionOf, LinesMeaning
  <2> QED
    BY <2>2, <2>3
<1>7. Saved(r) \in DOMAIN checkpoint' /\ checkpoint'[Saved(r)] = last
  BY <1>1 DEF Put
<1>8. LogInv'
  <2>0. \A s : Output(s)' = Output(s) /\ Saved(s)' = Saved(s)
    BY <1>1, SameSettings
  <2> SUFFICES ASSUME NEW s \in FlagChoices.run
               PROVE  /\ Of("log", At(disk', Output(s))) = fetched'
                      /\ \A p \in DOMAIN disk' : p # Output(s) => Of("log", disk'[p]) = {}
                      /\ \A b \in fetched' : Saved(s) \in DOMAIN checkpoint' /\ b <= checkpoint'[Saved(s)]
    BY <2>0 DEF LogInv, Content, At
  <2>1. Output(s) = Output(r) /\ Saved(s) = Saved(r)
    BY OneOutput
  <2>2. ASSUME NEW p \in DOMAIN disk', p # Output(s) PROVE Of("log", disk'[p]) = {}
    <3>1. p \in DOMAIN disk /\ disk'[p] = disk[p]
      BY <2>2, <2>1, <1>1 DEF Put
    <3> QED
      BY <3>1, <2>1, <2>2 DEF ProgressInv, LogInv
  <2>3. ASSUME NEW b \in fetched' PROVE b <= last
    BY <2>3, <1>1, <1>2, <1>3
  <2> QED
    BY <2>1, <2>2, <2>3, <1>6, <1>7
<1>9. EventsInv'
  <2> SUFFICES ASSUME NEW p \in DOMAIN disk', NEW b \in fetched', NEW c \in Of("event", disk'[p]), b <= c
               PROVE  b \in Of("event", disk'[p])
    BY DEF EventsInv
  <2>1. c \in Of("event", At(disk, p)) /\ Of("event", disk'[p]) = Of("event", At(disk, p))
    BY <1>4 DEF At
  <2>2. p \in DOMAIN disk /\ At(disk, p) = disk[p]
    BY <2>1 DEF At, Of
  <2>3. c \in fetched
    BY <2>1, <2>2, OfTyped DEF SettingsInv, FilesTyped
  <2>4. b \in fetched
    BY <2>3, <1>1, <1>2, <1>3
  <2> QED
    BY <2>1, <2>2, <2>4 DEF ProgressInv, EventsInv
<1>10. StateInv'
  <2>1. ASSUME NEW name \in DOMAIN state, NEW b \in new PROVE ~(b <= state[name])
    <3>1. state[name] \in Nat
      BY DEF SettingsInv
    <3>2. state[name] = 0 \/ \E c \in fetched : state[name] <= c
      BY DEF ProgressInv, StateInv
    <3> QED
      BY <3>1, <3>2, <1>2, <1>3
  <2> QED
    BY <1>1, <2>1, SameSettings DEF ProgressInv, StateInv
<1> QED
  BY <1>8, <1>9, <1>10 DEF ProgressInv
\* decode makes events of all logs there are, or empties a file.
LEMMA DecodeProgress ==
  ASSUME LogsAreKept, SettingsInv, KeptInv, ProgressInv,
         NEW d \in FlagChoices.decode, NEW input, Decodes(d, input)
  PROVE  ProgressInv'
<1> DEFINE events == Lines("event", Of("log", input))
<1>1. /\ disk' = Put(Put(disk, Out(d), events), Errors(d), Failures(input))
      /\ UNCHANGED <<env, file, checkpoint, rows, state, fetched, used>>
      /\ input = {} \/ \E p \in DOMAIN disk : input = disk[p]
  BY DEF Decodes
<1>2. input \subseteq [kind : Kinds, block : fetched]
  BY <1>1 DEF SettingsInv, FilesTyped
<1>3. /\ Of("log", events) = {} /\ Of("event", events) = Of("log", input)
      /\ Of("log", Failures(input)) = {} /\ Of("event", Failures(input)) = {}
  BY <1>2, LinesMeaning, FailuresMeaning
<1> HIDE DEF events
<1>4. ASSUME NEW p \in DOMAIN disk'
      PROVE  disk'[p] = events \/ disk'[p] = Failures(input) \/ (p \in DOMAIN disk /\ disk'[p] = disk[p])
  BY <1>1 DEF Put
<1>5. \A s : Output(s)' = Output(s) /\ Saved(s)' = Saved(s)
  BY <1>1, SameSettings
<1>6. LogInv'
  <2> SUFFICES ASSUME NEW s \in FlagChoices.run
               PROVE  /\ Of("log", At(disk', Output(s))) = fetched'
                      /\ \A p \in DOMAIN disk' : p # Output(s) => Of("log", disk'[p]) = {}
                      /\ \A b \in fetched' : Saved(s) \in DOMAIN checkpoint' /\ b <= checkpoint'[Saved(s)]
    BY <1>5 DEF LogInv, Content, At
  <2>1. At(disk', Output(s)) = Content(Output(s))
    BY <1>1, AtPut, OutputKept DEF Content, At
  <2> QED
    BY <1>1, <1>3, <1>4, <2>1 DEF ProgressInv, LogInv
<1>7. EventsInv'
  <2> SUFFICES ASSUME NEW p \in DOMAIN disk', NEW b \in fetched, NEW c \in Of("event", disk'[p]), b <= c
               PROVE  b \in Of("event", disk'[p])
    BY <1>1 DEF EventsInv
  <2>1. CASE disk'[p] = events
    <3>1. c \in Of("log", input)
      BY <2>1, <1>3
    <3>2. PICK q \in DOMAIN disk : input = disk[q]
      BY <3>1, <1>1 DEF Of
    <3>3. PICK r \in FlagChoices.run : b \in Of("log", Content(Output(r)))
      BY DEF KeptInv
    <3>4. q = Output(r)
      BY <3>1, <3>2 DEF ProgressInv, LogInv
    <3> QED
      BY <3>2, <3>3, <3>4, <2>1, <1>3 DEF Content
  <2>2. CASE disk'[p] = Failures(input)
    BY <2>2, <1>3
  <2>3. CASE p \in DOMAIN disk /\ disk'[p] = disk[p]
    BY <2>3 DEF ProgressInv, EventsInv
  <2> QED
    BY <2>1, <2>2, <2>3, <1>4
<1>8. StateInv'
  BY <1>1, SameSettings DEF ProgressInv, StateInv
<1> QED
  BY <1>6, <1>7, <1>8 DEF ProgressInv

\* aggregate moves a state to an event whose predecessors are all in the input, and have
\* been stored from where the state was, in the state's own size of windows.
LEMMA AggregateProgress ==
  ASSUME OneLog, OneSizePerFile, TimesFit, SettingsInv, KeptInv, ProgressInv,
         NEW a \in FlagChoices.aggregate, Sums(a)
  PROVE  ProgressInv'
<1> DEFINE name == Name(a)
           first == FirstTs(a)
           last == LastTs(a)
           input == Input(a)
           events == Above(Of("event", input), first)
<1>1. /\ first \in Nat /\ last \in Nat /\ first <= last
      /\ last = first \/ last \in Times(a)
      /\ input \subseteq [kind : Kinds, block : fetched]
  BY TimesMeaning, SettingsAssumption
<1>2. /\ rows' = rows \cup {<<Seconds(a), b>> : b \in events}
      /\ used' = used \cup {<<name, Seconds(a)>>}
      /\ state' = state \/ state' = Put(state, name, last)
      /\ UNCHANGED <<env, file, head, disk, checkpoint, fetched>>
  BY DEF Sums
<1>3. /\ fetched \subseteq Nat \ {0} /\ \A n \in DOMAIN state : state[n] \in Nat
      /\ Of("event", input) \subseteq fetched
  BY <1>1, OfTyped DEF SettingsInv
<1>4. Times(a) = events
  <2> SUFFICES Of("log", input) = {}
    BY DEF Times, Above
  <2> SUFFICES ASSUME NEW c \in Of("log", input) PROVE FALSE
    OBVIOUS
  <2>1. c \in fetched
    BY <1>1, OfTyped
  <2>2. PICK r \in FlagChoices.run : c \in Of("log", Content(Output(r)))
    BY <2>1 DEF KeptInv
  <2>3. Setting("aggregate", a, "in") # Output(r) /\ Setting("aggregate", a, "in") \in DOMAIN disk
    BY OneOutput DEF Sums
  <2> QED
    BY <2>3 DEF ProgressInv, LogInv, Input
<1>5. \A u \in used' : u[1] = name => u[2] = Seconds(a)
  <2> SUFFICES ASSUME NEW u \in used', u[1] = name PROVE u[2] = Seconds(a)
    OBVIOUS
  <2>1. CASE u = <<name, Seconds(a)>>
    BY <2>1
  <2>2. CASE u \in used
    <3>1. PICK b \in FlagChoices.aggregate : u = <<Name(b), Seconds(b)>>
      BY <2>2 DEF ProgressInv, StateInv
    <3> QED
      BY <3>1, OneSize
  <2> QED
    BY <2>1, <2>2, <1>2
<1>6. first = 0 \/ (name \in DOMAIN state /\ first <= state[name])
  <2>1. CASE Asked(a) = None
    BY <2>1, <1>3 DEF FirstTs, StartTs
  <2>2. CASE Asked(a) # None
    <3>1. first = Asked(a) - 1 /\ Asked(a) \in Int
      BY <2>2, AskedFits
    <3>2. name \in DOMAIN state /\ Asked(a) <= state[name] + 1
      BY <2>2 DEF Sums, RecomputesThePast
    <3> QED
      BY <3>1, <3>2, <1>3
  <2> QED
    BY <2>1, <2>2
<1> HIDE DEF name, first, last, input, events
<1>7. ASSUME NEW b \in fetched, name \in DOMAIN state, b <= state[name]
      PROVE  <<Seconds(a), b>> \in rows
  <2>1. PICK u \in used : u[1] = name
    BY <1>7 DEF ProgressInv, StateInv
  <2>2. u[2] = Seconds(a)
    BY <2>1, <1>2, <1>5
  <2> QED
    BY <2>1, <2>2, <1>7 DEF ProgressInv, StateInv
<1>8. ASSUME NEW b \in fetched, b <= first PROVE <<Seconds(a), b>> \in rows
  BY <1>1, <1>3, <1>6, <1>7, <1>8
<1>9. ASSUME NEW b \in fetched, b <= last PROVE <<Seconds(a), b>> \in rows'
  <2>1. CASE b <= first
    BY <2>1, <1>8, <1>2
  <2>2. CASE b > first
    <3>1. last \in events
      BY <2>2, <1>1, <1>3, <1>4, <1>9
    <3>2. last \in Of("event", input)
      BY <3>1 DEF events, Above
    <3>3. b \in Of("event", input)
      BY <3>2, <1>9 DEF ProgressInv, EventsInv, input, Input, Sums
    <3>4. b \in events
      BY <3>3, <2>2 DEF events, Above
    <3> QED
      BY <3>4, <1>2
  <2>3. b \in Nat /\ first \in Nat
    BY <1>1, <1>3
  <2>4. b <= first \/ b > first
    BY <2>3
  <2> QED
    BY <2>1, <2>2, <2>4
<1>10. last = 0 \/ \E b \in fetched : last <= b
  <2>1. CASE last \in events
    BY <2>1, <1>3 DEF events, Above
  <2>2. CASE last = first
    <3>1. first = 0 \/ \E b \in fetched : first <= b
      BY <1>1, <1>3, <1>6 DEF ProgressInv, StateInv
    <3> QED
      BY <3>1, <2>2
  <2> QED
    BY <2>1, <2>2, <1>1, <1>4
<1>11. LogInv' /\ EventsInv'
  BY <1>2, SameSettings DEF ProgressInv, LogInv, EventsInv, Content
<1>12. StateInv'
  <2>1. \A u \in used' : \E b \in FlagChoices.aggregate : u = <<Name(b), Seconds(b)>>'
    BY <1>2, SameSettings DEF ProgressInv, StateInv, name
  <2>2. ASSUME NEW n \in DOMAIN state'
        PROVE  /\ \E u \in used' : u[1] = n
               /\ state'[n] = 0 \/ \E b \in fetched : state'[n] <= b
    <3>1. (n = name /\ state'[n] = last) \/ (n \in DOMAIN state /\ state'[n] = state[n])
      BY <1>2 DEF Put
    <3>2. <<name, Seconds(a)>> \in used' /\ <<name, Seconds(a)>>[1] = name
      BY <1>2
    <3> QED
      BY <3>1, <3>2, <1>2, <1>10 DEF ProgressInv, StateInv
  <2>3. ASSUME NEW u \in used', u[1] \in DOMAIN state', NEW b \in fetched, b <= state'[u[1]]
        PROVE  <<u[2], b>> \in rows'
    <3>1. CASE u[1] = name
      <4>1. u[2] = Seconds(a)
        BY <3>1, <1>5
      <4>2. CASE state'[name] = last
        BY <4>1, <4>2, <3>1, <2>3, <1>9
      <4>3. CASE name \in DOMAIN state /\ state'[name] = state[name]
        BY <4>1, <4>3, <3>1, <2>3, <1>7, <1>2
      <4> QED
        BY <4>2, <4>3, <2>3, <3>1, <1>2 DEF Put
    <3>2. CASE u[1] # name
      <4>1. u \in used
        BY <3>2, <1>2
      <4>2. u[1] \in DOMAIN state /\ state'[u[1]] = state[u[1]]
        BY <3>2, <2>3, <1>2 DEF Put
      <4> QED
        BY <4>1, <4>2, <2>3, <1>2 DEF ProgressInv, StateInv
    <3> QED
      BY <3>1, <3>2
  <2> QED
    BY <2>1, <2>2, <2>3, <1>2 DEF StateInv
<1> QED
  BY <1>11, <1>12 DEF ProgressInv

LEMMA NextProgress ==
  ASSUME LogsAreKept, OneLog, OneSizePerFile, TimesFit
  PROVE  SettingsInv /\ KeptInv /\ ProgressInv /\ [Next]_vars => ProgressInv'
<1> SUFFICES ASSUME SettingsInv, KeptInv, ProgressInv, [Next]_vars PROVE ProgressInv'
  OBVIOUS
<1>1. ASSUME NEW r \in FlagChoices.run, Run(r) PROVE ProgressInv'
  BY <1>1, RunFetches, RunProgress
<1>2. ASSUME NEW d \in FlagChoices.decode, DecodeInput(d) PROVE ProgressInv'
  BY <1>2, DecodeDecodes, DecodeProgress
<1>3. ASSUME NEW a \in FlagChoices.aggregate, Aggregate(a) PROVE ProgressInv'
  BY <1>3, AggregateSums, AggregateProgress
<1>4. CASE UNCHANGED <<env, file, disk, checkpoint, rows, state, fetched, used>>
  BY <1>4, SameSettings DEF ProgressInv, LogInv, EventsInv, StateInv, Content
<1> QED
  BY <1>1, <1>2, <1>3, <1>4 DEF Next, vars, ChainGrows

\* An event that a state has passed has its row in every size of windows the state was
\* used with (state_db.go:26, aggregator.go:113-116, aggregate.go:66-74).
THEOREM SettingsProgressHasRows ==
  LogsAreKept /\ OneLog /\ OneSizePerFile /\ TimesFit => (Spec => []ProgressHasRows)
<1> SUFFICES ASSUME LogsAreKept, OneLog, OneSizePerFile, TimesFit PROVE Spec => []ProgressHasRows
  OBVIOUS
<1>1. Init => KeptInv /\ ProgressInv
  BY InitProgress DEF Init, KeptInv
<1>2. SettingsInv /\ KeptInv /\ [Next]_vars => KeptInv'
  BY NextKept
<1>3. SettingsInv /\ KeptInv /\ ProgressInv /\ [Next]_vars => ProgressInv'
  BY NextProgress
<1>4. SettingsInv /\ ProgressInv => ProgressHasRows
  <2> SUFFICES ASSUME SettingsInv, ProgressInv, NEW u \in used, NEW p \in DOMAIN disk,
                      u[1] \in DOMAIN state, NEW b \in Of("event", disk[p]), b <= state[u[1]]
               PROVE  <<u[2], b>> \in rows
    BY DEF ProgressHasRows
  <2>1. b \in fetched
    BY OfTyped DEF SettingsInv, FilesTyped
  <2> QED
    BY <2>1 DEF ProgressInv, StateInv
<1> QED
  BY <1>1, <1>2, <1>3, <1>4, SettingsInvariant, PTL DEF Spec
=============================================================================
