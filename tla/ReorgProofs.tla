------------------------------ MODULE ReorgProofs -----------------------------
(***************************************************************************)
(* What can be relied on when the chain replaces its last blocks, for      *)
(* every chain, depth of reorganisations, sequence of runs and batch size. *)
(***************************************************************************)
EXTENDS Reorg, TLAPS

LogSet(s) == {s[i].log : i \in DOMAIN s}

\* The logs of the batch, as the node answered them.
Fetched == reply \cup LogSet(records)

\* Lines of this run are of blocks before the batch, until it is appended.
RangeInv ==
  /\ pc # "down" => next > 0 /\ run > 0
  /\ \A i \in DOMAIN lines : lines[i].run <= run
  /\ pc \in {"batch", "fetch", "stamp"} =>
       \A i \in DOMAIN lines : lines[i].run = run => lines[i].log.block < next
  /\ pc = "save" => \A i \in DOMAIN lines : lines[i].run = run => lines[i].log.block <= end
  /\ pc = "stamp" =>
       /\ \A log \in Fetched : log.block \in next..end
       /\ \A i \in DOMAIN records : records[i].run = run

\* The time of this run's lines is the one in the cache, which has no block ahead.
TimedByCache(line) == line.log.block \in DOMAIN tsCache /\ line.ts = tsCache[line.log.block]
CacheInv ==
  /\ pc \in {"batch", "fetch"} => \A b \in DOMAIN tsCache : b < next
  /\ pc \in {"stamp", "save"} => \A b \in DOMAIN tsCache : b <= end
  /\ pc # "down" => \A i \in DOMAIN lines : lines[i].run = run => TimedByCache(lines[i])
  /\ pc = "stamp" => \A i \in DOMAIN records : TimedByCache(records[i])

\* An answer has one version of each block.
VersionInv == pc = "stamp" => \A l, m \in Fetched : l.block = m.block => l.version = m.version

\* Of blocks that were final when the batch was fetched, the logs and the times are those
\* of the chain.
OnChain(line) ==
  LET b == line.log.block
  IN  b <= final /\ line.log.version = chain[b] /\ line.ts = TimeOf[b][chain[b]]
SureInv ==
  /\ pc = "stamp" =>
       /\ \A log \in reply : log.block <= sure => log.version = chain[log.block]
       /\ \A i \in DOMAIN records : records[i].sure => OnChain(records[i])
       /\ \A b \in DOMAIN tsCache : b \in next..sure => tsCache[b] = TimeOf[b][chain[b]]
  /\ \A i \in DOMAIN lines : lines[i].sure => OnChain(lines[i])

\* None of the logs of such blocks is lost on the way to the output.
KeptInv ==
  /\ pc = "stamp" => \A b \in next..end : b <= sure => LogsAt(b) \subseteq Fetched
  /\ pc = "save" => \A b \in next..end : b <= sure => LogsAt(b) \subseteq LogSet(lines)
  /\ \A b \in settled : LogsAt(b) \subseteq LogSet(lines)

ReorgInv ==
  TypeOK /\ RangeInv /\ CacheInv /\ VersionInv /\ SureInv /\ KeptInv /\ OneBlockOneTime
-----------------------------------------------------------------------------
\* Sequences.
LEMMA AppendMeaning ==
  ASSUME NEW S, NEW s \in Seq(S), NEW e \in S
  PROVE  /\ Append(s, e) \in Seq(S)
         /\ Len(s) \in Nat /\ DOMAIN s = 1..Len(s)
         /\ Len(Append(s, e)) = Len(s) + 1
         /\ DOMAIN Append(s, e) = DOMAIN s \cup {Len(s) + 1}
         /\ Append(s, e)[Len(s) + 1] = e
         /\ \A n \in DOMAIN s : Append(s, e)[n] = s[n]
<1>1. /\ Len(s) \in Nat /\ DOMAIN s = 1..Len(s)
      /\ Append(s, e) \in Seq(S) /\ DOMAIN Append(s, e) = 1..Len(s) + 1
      /\ Len(Append(s, e)) = Len(s) + 1
      /\ Append(s, e)[Len(s) + 1] = e
      /\ \A n \in 1..Len(s) : Append(s, e)[n] = s[n]
  OBVIOUS
<1> QED
  BY <1>1

LEMMA ConcatMeaning ==
  ASSUME NEW S, NEW s \in Seq(S), NEW t \in Seq(S)
  PROVE  /\ s \o t \in Seq(S) /\ Len(s \o t) = Len(s) + Len(t)
         /\ \A n \in DOMAIN s : n \in DOMAIN (s \o t) /\ (s \o t)[n] = s[n]
         /\ \A n \in DOMAIN t : Len(s) + n \in DOMAIN (s \o t) /\ (s \o t)[Len(s) + n] = t[n]
         /\ \A n \in DOMAIN (s \o t) :
              \/ n \in DOMAIN s /\ (s \o t)[n] = s[n]
              \/ \E m \in DOMAIN t : n = Len(s) + m /\ (s \o t)[n] = t[m]
<1>1. /\ Len(s) \in Nat /\ Len(t) \in Nat /\ DOMAIN s = 1..Len(s) /\ DOMAIN t = 1..Len(t)
      /\ s \o t \in Seq(S) /\ Len(s \o t) = Len(s) + Len(t)
      /\ DOMAIN (s \o t) = 1..Len(s) + Len(t)
      /\ \A n \in 1..Len(s) + Len(t) : (s \o t)[n] = IF n <= Len(s) THEN s[n] ELSE t[n - Len(s)]
  OBVIOUS
<1>2. ASSUME NEW n \in DOMAIN t
      PROVE  Len(s) + n \in DOMAIN (s \o t) /\ (s \o t)[Len(s) + n] = t[n]
  BY <1>1
<1>3. ASSUME NEW n \in DOMAIN (s \o t)
      PROVE  \/ n \in DOMAIN s /\ (s \o t)[n] = s[n]
             \/ \E m \in DOMAIN t : n = Len(s) + m /\ (s \o t)[n] = t[m]
  <2>1. CASE n <= Len(s)
    BY <1>1, <2>1
  <2>2. CASE n > Len(s)
    <3>1. n - Len(s) \in DOMAIN t /\ n = Len(s) + (n - Len(s))
      BY <1>1, <2>2
    <3> QED
      BY <1>1, <2>2, <3>1
  <2> QED
    BY <1>1, <2>1, <2>2
<1> QED
  BY <1>1, <1>2, <1>3

LEMMA ElementsTyped ==
  ASSUME NEW S, NEW s \in Seq(S)
  PROVE  Len(s) \in Nat /\ DOMAIN s = 1..Len(s) /\ \A n \in DOMAIN s : s[n] \in S
  OBVIOUS

LEMMA LogSetOfAppend ==
  ASSUME NEW S, NEW s \in Seq(S), NEW e \in S
  PROVE  LogSet(Append(s, e)) = LogSet(s) \cup {e.log}
<1>1. /\ DOMAIN Append(s, e) = DOMAIN s \cup {Len(s) + 1}
      /\ Append(s, e)[Len(s) + 1] = e
      /\ \A n \in DOMAIN s : Append(s, e)[n] = s[n]
  BY AppendMeaning
<1> QED
  BY <1>1 DEF LogSet

LEMMA LogSetOfConcat ==
  ASSUME NEW S, NEW s \in Seq(S), NEW t \in Seq(S)
  PROVE  LogSet(s \o t) = LogSet(s) \cup LogSet(t)
<1>1. /\ \A n \in DOMAIN s : n \in DOMAIN (s \o t) /\ (s \o t)[n] = s[n]
      /\ \A n \in DOMAIN t : Len(s) + n \in DOMAIN (s \o t) /\ (s \o t)[Len(s) + n] = t[n]
      /\ \A n \in DOMAIN (s \o t) :
           \/ n \in DOMAIN s /\ (s \o t)[n] = s[n]
           \/ \E m \in DOMAIN t : n = Len(s) + m /\ (s \o t)[n] = t[m]
  BY ConcatMeaning
<1>2. ASSUME NEW log \in LogSet(s \o t) PROVE log \in LogSet(s) \cup LogSet(t)
  <2>1. PICK n \in DOMAIN (s \o t) : log = (s \o t)[n].log
    BY DEF LogSet
  <2> QED
    BY <1>1, <2>1 DEF LogSet
<1>3. ASSUME NEW log \in LogSet(s) PROVE log \in LogSet(s \o t)
  BY <1>1 DEF LogSet
<1>4. ASSUME NEW log \in LogSet(t) PROVE log \in LogSet(s \o t)
  <2>1. PICK n \in DOMAIN t : log = t[n].log
    BY DEF LogSet
  <2> QED
    BY <1>1, <2>1 DEF LogSet
<1> QED
  BY <1>2, <1>3, <1>4

\* Constants and types.
LEMMA ConfigFacts ==
  /\ MaxHead \in Nat /\ MaxReorgs \in Nat /\ MaxRuns \in Nat /\ Depth \in Nat
  /\ BatchSize \in Nat \ {0}
  /\ \A r \in Requests : r.from \in Nat \ {0} /\ r.to \in Nat
  /\ \A b \in Blocks : b \in Nat \ {0} /\ b <= MaxHead
  /\ \A b \in Blocks, v \in Versions : TimeOf[b][v] \in Nat
  BY ReorgAssumption, ChainAssumption DEF Blocks

\* A log is one of its block and version.
LEMMA LogFacts ==
  ASSUME NEW log \in Logs
  PROVE  /\ log.block \in Blocks /\ log.version \in Versions
         /\ log \in LogsIn(log.block, log.version)
         /\ log.index \in DOMAIN LogsOf[log.block][log.version]
         /\ log.tx = LogsOf[log.block][log.version][log.index]
<1>1. PICK b \in Blocks, v \in Versions : log \in LogsIn(b, v)
  BY DEF Logs
<1>2. PICK i \in DOMAIN LogsOf[b][v] :
        log = [block |-> b, version |-> v, tx |-> LogsOf[b][v][i], index |-> i]
  BY <1>1 DEF LogsIn
<1> QED
  BY <1>1, <1>2

LEMMA LogsInMeaning ==
  ASSUME NEW b \in Blocks, NEW v \in Versions, NEW log \in LogsIn(b, v)
  PROVE  log \in Logs /\ log.block = b /\ log.version = v
<1>1. log \in Logs
  BY DEF Logs
<1>2. PICK i \in DOMAIN LogsOf[b][v] :
        log = [block |-> b, version |-> v, tx |-> LogsOf[b][v][i], index |-> i]
  BY DEF LogsIn
<1> QED
  BY <1>1, <1>2

LEMMA TypeFacts ==
  ASSUME TypeOK
  PROVE  /\ Len(chain) \in Nat /\ DOMAIN chain = 1..Len(chain)
         /\ \A b \in 1..Len(chain) : chain[b] \in Versions /\ b \in Blocks
         /\ final \in Nat /\ final <= Len(chain) /\ sure \in Nat /\ sure <= final
         /\ next \in Nat /\ end \in Nat /\ to \in Nat /\ run \in Nat
         /\ \A i \in DOMAIN lines : lines[i] \in Line
         /\ \A i \in DOMAIN records : records[i] \in Line
         /\ LogSet(lines) \subseteq Logs /\ LogSet(records) \subseteq Logs /\ Fetched \subseteq Logs
<1>1. Len(chain) \in Nat /\ DOMAIN chain = 1..Len(chain) /\ \A b \in 1..Len(chain) : chain[b] \in Versions
  BY ElementsTyped DEF TypeOK
<1>2. /\ \A i \in DOMAIN lines : lines[i] \in Line
      /\ \A i \in DOMAIN records : records[i] \in Line
  BY ElementsTyped DEF TypeOK
<1>3. LogSet(lines) \subseteq Logs /\ LogSet(records) \subseteq Logs /\ Fetched \subseteq Logs
  BY <1>2 DEF LogSet, Line, Fetched, TypeOK
<1>4. /\ final \in Nat /\ final <= Len(chain) /\ sure \in Nat /\ sure <= final
      /\ next \in Nat /\ end \in Nat /\ to \in Nat /\ run \in Nat
  BY <1>1, ConfigFacts DEF TypeOK
<1>5. \A b \in 1..Len(chain) : b \in Blocks
  BY <1>1, ConfigFacts DEF TypeOK, Blocks
<1> QED
  BY <1>1, <1>2, <1>3, <1>4, <1>5

\* The chain changes above the final blocks only.
LEMMA PrefixMeaning ==
  ASSUME NEW S, NEW s \in Seq(S), NEW n \in 0..Len(s)
  PROVE  /\ SubSeq(s, 1, n) \in Seq(S) /\ Len(SubSeq(s, 1, n)) = n
         /\ \A m \in 1..n : SubSeq(s, 1, n)[m] = s[m]
  OBVIOUS

LEMMA NodeStep ==
  ASSUME TypeOK, ChainGrows \/ ChainReorganises
  PROVE  /\ chain' \in Seq(Versions) /\ Len(chain') <= MaxHead
         /\ reorgs' \in Versions /\ final' \in 0..Len(chain') /\ final <= final'
         /\ \A b \in 1..final : chain'[b] = chain[b]
         /\ UNCHANGED <<lines, checkpoint, pc, range, reply, records, tsCache, run, sure, settled>>
<1> DEFINE n == Len(chain)
<1>1. /\ chain \in Seq(Versions) /\ n \in Nat /\ n <= MaxHead /\ DOMAIN chain = 1..n
      /\ reorgs \in Versions /\ final \in Nat /\ final <= n
  BY TypeFacts DEF TypeOK
<1>2. MaxHead \in Nat /\ Depth \in Nat /\ MaxReorgs \in Nat
  BY ConfigFacts
<1>3. CASE ChainGrows
  <2>1. chain' = Append(chain, reorgs) /\ n < MaxHead /\ reorgs' = reorgs
    BY <1>3 DEF ChainGrows
  <2>2. /\ chain' \in Seq(Versions) /\ Len(chain') = n + 1
        /\ \A b \in 1..n : chain'[b] = chain[b]
    BY <1>1, <2>1, AppendMeaning
  <2>3. final' = MaxOf(final, Len(chain') - Depth)
    BY <1>3 DEF ChainGrows
  <2>4. final' \in 0..n + 1 /\ final <= final'
    BY <1>1, <1>2, <2>2, <2>3 DEF MaxOf
  <2> QED
    BY <1>1, <1>2, <1>3, <2>1, <2>2, <2>4 DEF ChainGrows
<1>4. CASE ChainReorganises
  <2>1. reorgs' = reorgs + 1 /\ reorgs < MaxReorgs /\ reorgs' \in Versions
    BY <1>1, <1>2, <1>4 DEF ChainReorganises, Versions
  <2>2. PICK fork \in final..n - 1, new \in 0..Depth :
          /\ fork + new <= MaxHead
          /\ chain' = SubSeq(chain, 1, fork) \o Versioned(new)
          /\ final' = MaxOf(final, Len(chain') - Depth)
    BY <1>4 DEF ChainReorganises
  <2>3. fork \in 0..n /\ new \in Nat
    BY <1>1, <2>2, <1>2
  <2> DEFINE kept == SubSeq(chain, 1, fork)
             added == Versioned(new)
  <2>4. kept \in Seq(Versions) /\ Len(kept) = fork /\ \A b \in 1..fork : kept[b] = chain[b]
    BY <1>1, <2>3, PrefixMeaning
  <2>5. added \in Seq(Versions) /\ Len(added) = new
    BY <2>1, <2>3 DEF Versioned
  <2> HIDE DEF kept, added
  <2>6. chain' = kept \o added
    BY <2>2 DEF kept, added
  <2>7. /\ chain' \in Seq(Versions) /\ Len(chain') = fork + new
        /\ \A b \in DOMAIN kept : chain'[b] = kept[b]
    BY <2>4, <2>5, <2>6, ConcatMeaning
  <2>8. DOMAIN kept = 1..fork
    BY <2>4
  <2>9. \A b \in 1..final : chain'[b] = chain[b]
    BY <1>1, <2>2, <2>3, <2>4, <2>7, <2>8
  <2>10. final' \in 0..fork + new /\ final <= final'
    BY <1>1, <1>2, <2>2, <2>3, <2>7 DEF MaxOf
  <2> QED
    BY <1>4, <2>1, <2>2, <2>7, <2>9, <2>10 DEF ChainReorganises
<1> QED
  BY <1>3, <1>4

LEMMA PutMeaning ==
  ASSUME NEW f, NEW x, NEW v
  PROVE  /\ DOMAIN Put(f, x, v) = DOMAIN f \cup {x} /\ Put(f, x, v)[x] = v
         /\ \A y \in DOMAIN f : y # x => Put(f, x, v)[y] = f[y]
  BY DEF Put
-----------------------------------------------------------------------------
\* A record takes a log off the answer; its time is in the cache then, and is asked for
\* now if it was not there before.
LEMMA StampMeaning ==
  ASSUME TypeOK, BlockTimestamp, run > 0
  PROVE  \E log \in reply :
           LET b == log.block
               r == Record(log, tsCache'[b])
           IN  /\ reply' = reply \ {log} /\ records' = Append(records, r) /\ r \in Line
               /\ DOMAIN tsCache' = DOMAIN tsCache \cup {b}
               /\ \A c \in DOMAIN tsCache : tsCache'[c] = tsCache[c]
               /\ \/ b \in DOMAIN tsCache
                  \/ b \notin DOMAIN tsCache /\ b \in 1..Len(chain) /\ tsCache'[b] = TimeOf[b][chain[b]]
<1>1. PICK log \in reply :
        /\ \/ log.block \in DOMAIN tsCache /\ UNCHANGED tsCache
           \/ /\ log.block \notin DOMAIN tsCache /\ log.block <= Len(chain)
              /\ tsCache' = Put(tsCache, log.block, TimeOf[log.block][chain[log.block]])
        /\ records' = Append(records, Record(log, tsCache'[log.block]))
        /\ reply' = reply \ {log}
  BY DEF BlockTimestamp
<1> DEFINE b == log.block
<1>2. log \in Logs /\ b \in Blocks /\ b \in Nat \ {0}
  BY <1>1, LogFacts, ConfigFacts DEF TypeOK
<1>3. \/ b \in DOMAIN tsCache /\ UNCHANGED tsCache
      \/ /\ b \notin DOMAIN tsCache /\ b \in 1..Len(chain)
         /\ tsCache' = Put(tsCache, b, TimeOf[b][chain[b]])
  BY <1>1, <1>2, TypeFacts
<1> HIDE DEF b
<1>4. /\ DOMAIN tsCache' = DOMAIN tsCache \cup {b}
      /\ \A c \in DOMAIN tsCache : tsCache'[c] = tsCache[c]
      /\ \/ b \in DOMAIN tsCache
         \/ b \notin DOMAIN tsCache /\ b \in 1..Len(chain) /\ tsCache'[b] = TimeOf[b][chain[b]]
  BY <1>3 DEF Put
<1>5. \E v \in Versions : tsCache'[b] = TimeOf[b][v]
  BY <1>3, <1>4, TypeFacts DEF TypeOK
<1>6. tsCache'[b] \in Nat
  BY <1>2, <1>5, ConfigFacts
<1>7. run \in 1..MaxRuns /\ (b <= sure) \in BOOLEAN
  BY ConfigFacts DEF TypeOK
<1>8. Record(log, tsCache'[b]) \in Line
  BY <1>2, <1>5, <1>6, <1>7 DEF Record, Line, b
<1> QED
  BY <1>1, <1>4, <1>8 DEF b
-----------------------------------------------------------------------------
\* The chain below the final blocks is kept, and with it the logs on it.
LEMMA FinalKept ==
  ASSUME TypeOK, ChainGrows \/ ChainReorganises,
         NEW b \in 1..final
  PROVE  chain'[b] = chain[b] /\ LogsAt(b)' = LogsAt(b) /\ b <= final'
<1>1. chain'[b] = chain[b] /\ final <= final' /\ final' \in Nat
  BY NodeStep
<1>2. final \in Nat
  BY TypeFacts
<1> QED
  BY <1>1, <1>2 DEF LogsAt

LEMMA NodeTyped ==
  ASSUME TypeOK, ChainGrows \/ ChainReorganises
  PROVE  TypeOK'
<1>1. /\ chain' \in Seq(Versions) /\ Len(chain') <= MaxHead
      /\ reorgs' \in Versions /\ final' \in 0..Len(chain') /\ final <= final'
      /\ UNCHANGED <<lines, checkpoint, pc, range, reply, records, tsCache, run, sure, settled>>
  BY NodeStep
<1>2. final \in Nat /\ final' \in Nat
  BY <1>1, TypeFacts
<1>3. sure' \in 0..final' /\ settled' \subseteq 1..final'
  BY <1>1, <1>2 DEF TypeOK
<1> QED
  BY <1>1, <1>3 DEF TypeOK, range

LEMMA NodeKeeps ==
  ASSUME ReorgInv, ChainGrows \/ ChainReorganises
  PROVE  ReorgInv'
<1> USE DEF ReorgInv
<1>1. UNCHANGED <<lines, checkpoint, pc, request, next, to, end, reply, records, tsCache, run, sure, settled>>
  BY NodeStep DEF range
<1>2. TypeOK'
  BY NodeTyped
<1>3. /\ final \in Nat /\ sure \in Nat /\ sure <= final /\ next \in Nat
      /\ settled \subseteq 1..final
  BY TypeFacts DEF TypeOK
<1>4. RangeInv' /\ CacheInv' /\ VersionInv' /\ OneBlockOneTime'
  BY <1>1 DEF RangeInv, CacheInv, VersionInv, OneBlockOneTime, TimedByCache, Fetched, LogSet
<1>5. ASSUME NEW line \in Line, OnChain(line)
      PROVE  OnChain(line)'
  <2>1. line.log \in Logs
    BY DEF Line
  <2>2. line.log.block \in 1..final
    BY <1>3, <1>5, <2>1, LogFacts, ConfigFacts DEF OnChain
  <2> QED
    BY <1>5, <2>2, FinalKept DEF OnChain
<1>6. SureInv'
  <2>1. ASSUME pc = "stamp", NEW log \in reply, log.block <= sure
        PROVE  log.version = chain'[log.block]
    <3>1. log.block \in 1..final
      BY <1>3, <2>1, LogFacts, ConfigFacts DEF TypeOK
    <3>2. log.version = chain[log.block]
      BY <2>1 DEF SureInv
    <3> QED
      BY <3>1, <3>2, FinalKept
  <2>2. ASSUME pc = "stamp", NEW b \in DOMAIN tsCache, b \in next..sure
        PROVE  tsCache[b] = TimeOf[b][chain'[b]]
    <3>1. b \in 1..final
      BY <1>3, <2>2, ConfigFacts DEF TypeOK
    <3>2. tsCache[b] = TimeOf[b][chain[b]]
      BY <2>2 DEF SureInv
    <3> QED
      BY <3>1, <3>2, FinalKept
  <2>3. ASSUME pc = "stamp", NEW i \in DOMAIN records, records[i].sure
        PROVE  OnChain(records[i])'
    BY <1>1, <1>5, <2>3, TypeFacts DEF SureInv, OnChain
  <2>4. ASSUME NEW i \in DOMAIN lines, lines[i].sure
        PROVE  OnChain(lines[i])'
    BY <1>1, <1>5, <2>4, TypeFacts DEF SureInv, OnChain
  <2> QED
    BY <1>1, <2>1, <2>2, <2>3, <2>4 DEF SureInv
<1>7. KeptInv'
  <2>1. ASSUME pc \in {"stamp", "save"}, NEW b \in next..end, b <= sure
        PROVE  LogsAt(b)' = LogsAt(b)
    <3>1. next > 0
      BY <2>1 DEF RangeInv
    <3>2. b \in 1..final
      BY <1>3, <2>1, <3>1, TypeFacts
    <3> QED
      BY <3>2, FinalKept
  <2>2. \A b \in settled : LogsAt(b)' = LogsAt(b)
    BY <1>3, FinalKept
  <2>3. LogSet(lines)' = LogSet(lines) /\ Fetched' = Fetched
    BY <1>1 DEF LogSet, Fetched
  <2> QED
    BY <1>1, <2>1, <2>2, <2>3 DEF KeptInv
<1> QED
  BY <1>2, <1>4, <1>6, <1>7

LEMMA InitInv == Init => ReorgInv
<1> SUFFICES ASSUME Init PROVE ReorgInv
  OBVIOUS
<1> USE DEF Init
<1>1. /\ Len(chain) = 0 /\ chain \in Seq(Versions) /\ DOMAIN lines = {} /\ DOMAIN records = {}
      /\ DOMAIN tsCache = {} /\ lines \in Seq(Line) /\ records \in Seq(Line)
  OBVIOUS
<1>2. TypeOK
  BY <1>1, ConfigFacts DEF TypeOK, Versions
<1> QED
  BY <1>1, <1>2 DEF ReorgInv, RangeInv, CacheInv, VersionInv, SureInv, KeptInv, OneBlockOneTime

LEMMA StartKeeps ==
  ASSUME ReorgInv, StartProcess
  PROVE  ReorgInv'
<1> USE DEF ReorgInv
<1>1. UNCHANGED <<chain, reorgs, final, lines, checkpoint, sure, settled>>
  BY DEF StartProcess, node
<1>2. /\ request' \in Requests /\ run' = run + 1 /\ run < MaxRuns /\ pc' = "batch" /\ end' = 0
      /\ reply' = {} /\ records' = << >> /\ tsCache' = << >>
      /\ to' = IF request'.to = 0 THEN Len(chain) ELSE request'.to
      /\ next' = IF checkpoint >= request'.from THEN checkpoint + 1 ELSE request'.from
  BY DEF StartProcess
<1>3. request'.from \in Nat \ {0} /\ request'.to \in Nat
  BY <1>2, ConfigFacts
<1>4. checkpoint \in Nat \cup {-1} /\ Len(chain) \in Nat /\ run \in Nat
  BY TypeFacts DEF TypeOK, None
<1>5. next' \in Nat /\ next' > 0 /\ to' \in Nat
  BY <1>2, <1>3, <1>4
<1>6. run' \in 0..MaxRuns /\ run' > 0
  BY <1>2, <1>4, ConfigFacts
<1>7. DOMAIN records' = {} /\ DOMAIN tsCache' = {} /\ records' \in Seq(Line)
  BY <1>2
<1>8. TypeOK'
  BY <1>1, <1>2, <1>5, <1>6, <1>7 DEF TypeOK
<1>9. \A i \in DOMAIN lines : lines[i].run <= run /\ lines[i].run # run'
  <2>1. \A i \in DOMAIN lines : lines[i].run <= run /\ lines[i] \in Line
    BY TypeFacts DEF RangeInv
  <2>2. \A i \in DOMAIN lines : lines[i].run \in Nat
    BY <2>1, ConfigFacts DEF Line
  <2> QED
    BY <1>2, <1>4, <2>1, <2>2
<1>10. RangeInv'
  <2>1. \A i \in DOMAIN lines : lines[i].run <= run'
    <3>1. \A i \in DOMAIN lines : lines[i].run \in Nat
      BY TypeFacts, ConfigFacts DEF Line
    <3> QED
      BY <1>2, <1>4, <1>9, <3>1
  <2> QED
    BY <1>1, <1>2, <1>5, <1>6, <1>9, <2>1 DEF RangeInv
<1>11. CacheInv' /\ VersionInv'
  BY <1>1, <1>2, <1>7, <1>9 DEF CacheInv, VersionInv
<1>12. SureInv' /\ KeptInv' /\ OneBlockOneTime'
  BY <1>1, <1>2 DEF SureInv, KeptInv, OneBlockOneTime, OnChain, LogsAt, LogSet
<1> QED
  BY <1>8, <1>10, <1>11, <1>12

LEMMA NextBatchKeeps ==
  ASSUME ReorgInv, NextBatch
  PROVE  ReorgInv'
<1> USE DEF ReorgInv
<1>1. /\ UNCHANGED <<chain, reorgs, final, lines, checkpoint, request, next, to, reply, records,
                     tsCache, run, sure, settled>>
      /\ pc = "batch" /\ pc' = "fetch" /\ next <= to
      /\ end' = IF next + BatchSize - 1 < to THEN next + BatchSize - 1 ELSE to
  BY DEF NextBatch, node
<1>2. end' \in Nat /\ next <= end' /\ end' <= to
  BY <1>1, ConfigFacts, TypeFacts
<1>3. TypeOK'
  BY <1>1, <1>2 DEF TypeOK
<1> QED
  BY <1>1, <1>3 DEF RangeInv, CacheInv, VersionInv, SureInv, KeptInv, OneBlockOneTime,
       OnChain, LogsAt, LogSet, TimedByCache

\* The process ends, in the loop or anywhere else.
LEMMA DownKeeps ==
  ASSUME ReorgInv, pc' = "down",
         UNCHANGED <<node, lines, checkpoint, range, reply, records, tsCache, run, sure, settled>>
  PROVE  ReorgInv'
<1> USE DEF ReorgInv
<1>1. UNCHANGED <<chain, reorgs, final, lines, checkpoint, request, next, to, end, reply, records,
                  tsCache, run, sure, settled>>
  BY DEF node, range
<1>2. TypeOK'
  BY <1>1 DEF TypeOK
<1> QED
  BY <1>1, <1>2 DEF RangeInv, CacheInv, VersionInv, SureInv, KeptInv, OneBlockOneTime,
       OnChain, LogsAt, LogSet

LEMMA FilterKeeps ==
  ASSUME ReorgInv, FilterLogs
  PROVE  ReorgInv'
<1> USE DEF ReorgInv
<1>1. /\ UNCHANGED <<chain, reorgs, final, lines, checkpoint, request, next, to, end, tsCache, run, settled>>
      /\ pc = "fetch" /\ pc' = "stamp" /\ records' = << >> /\ sure' = final
      /\ reply' = UNION {LogsAt(b) : b \in next..MinOf(end, Len(chain))}
  BY DEF FilterLogs, node, range
<1>2. /\ next \in Nat /\ next > 0 /\ end \in Nat /\ next <= end /\ Len(chain) \in Nat
      /\ final \in Nat /\ final <= Len(chain)
      /\ \A b \in 1..Len(chain) : chain[b] \in Versions /\ b \in Blocks
  BY <1>1, TypeFacts DEF TypeOK, RangeInv
<1>3. ASSUME NEW log \in reply'
      PROVE  log \in Logs /\ log.block \in next..end /\ log.version = chain[log.block]
  <2>1. PICK b \in next..MinOf(end, Len(chain)) : log \in LogsAt(b)
    BY <1>1
  <2>2. b \in next..end /\ b \in 1..Len(chain)
    BY <1>2, <2>1 DEF MinOf
  <2> QED
    BY <1>2, <2>1, <2>2, LogsInMeaning DEF LogsAt
<1>4. records' \in Seq(Line) /\ DOMAIN records' = {} /\ LogSet(records') = {}
  BY <1>1 DEF LogSet
<1>5. Fetched' = reply'
  BY <1>4 DEF Fetched, LogSet
<1>6. TypeOK'
  <2>1. reply' \subseteq Logs
    BY <1>3
  <2> QED
    BY <1>1, <1>2, <1>4, <2>1 DEF TypeOK
<1>7. RangeInv'
  BY <1>1, <1>2, <1>3, <1>4, <1>5 DEF RangeInv
<1>8. CacheInv'
  <2>1. \A b \in DOMAIN tsCache : b < next /\ b \in Nat
    BY <1>1, ConfigFacts DEF CacheInv, TypeOK
  <2>2. \A b \in DOMAIN tsCache : b <= end
    BY <1>2, <2>1
  <2> QED
    BY <1>1, <1>4, <2>2 DEF CacheInv, TimedByCache
<1>9. VersionInv'
  BY <1>3, <1>5 DEF VersionInv
<1>10. SureInv'
  <2>1. \A b \in DOMAIN tsCache : b < next /\ b \in Nat
    BY <1>1, ConfigFacts DEF CacheInv, TypeOK
  <2>2. \A b \in DOMAIN tsCache : b \notin next..final
    BY <1>2, <2>1
  <2> QED
    BY <1>1, <1>3, <1>4, <2>2 DEF SureInv, OnChain
<1>11. KeptInv'
  <2>1. ASSUME NEW b \in next..end, b <= final
        PROVE  LogsAt(b) \subseteq reply'
    <3>1. b \in next..MinOf(end, Len(chain))
      BY <1>2, <2>1 DEF MinOf
    <3> QED
      BY <1>1, <3>1
  <2>2. \A b : LogsAt(b)' = LogsAt(b)
    BY <1>1 DEF LogsAt
  <2> QED
    BY <1>1, <1>5, <2>1, <2>2 DEF KeptInv, LogSet
<1>12. OneBlockOneTime'
  BY <1>1 DEF OneBlockOneTime
<1> QED
  BY <1>6, <1>7, <1>8, <1>9, <1>10, <1>11, <1>12

LEMMA StampKeeps ==
  ASSUME ReorgInv, BlockTimestamp
  PROVE  ReorgInv'
<1> USE DEF ReorgInv
<1>1. /\ UNCHANGED <<chain, reorgs, final, lines, checkpoint, pc, request, next, to, end, run, sure, settled>>
      /\ pc = "stamp"
  BY DEF BlockTimestamp, node, range
<1>2. /\ next \in Nat /\ next > 0 /\ end \in Nat /\ Len(chain) \in Nat /\ sure \in Nat
      /\ sure <= final /\ final \in Nat /\ run > 0 /\ final <= Len(chain)
  BY <1>1, TypeFacts DEF RangeInv
<1>3. PICK log \in reply :
        LET b == log.block
            r == Record(log, tsCache'[b])
        IN  /\ reply' = reply \ {log} /\ records' = Append(records, r) /\ r \in Line
            /\ DOMAIN tsCache' = DOMAIN tsCache \cup {b}
            /\ \A c \in DOMAIN tsCache : tsCache'[c] = tsCache[c]
            /\ \/ b \in DOMAIN tsCache
               \/ b \notin DOMAIN tsCache /\ b \in 1..Len(chain) /\ tsCache'[b] = TimeOf[b][chain[b]]
  BY <1>2, StampMeaning
<1>4. PICK b : b = log.block
  OBVIOUS
<1>5. PICK r : r = Record(log, tsCache'[b])
  OBVIOUS
<1>6. /\ reply' = reply \ {log} /\ records' = Append(records, r) /\ r \in Line
      /\ DOMAIN tsCache' = DOMAIN tsCache \cup {b}
      /\ \A c \in DOMAIN tsCache : tsCache'[c] = tsCache[c]
      /\ \/ b \in DOMAIN tsCache
         \/ b \in 1..Len(chain) /\ tsCache'[b] = TimeOf[b][chain[b]]
  BY <1>3, <1>4, <1>5
<1>7. r.log = log /\ r.ts = tsCache'[b] /\ r.run = run /\ r.sure = (b <= sure)
  BY <1>4, <1>5 DEF Record
<1>8. log \in Fetched /\ log \in Logs /\ b \in Blocks /\ b \in next..end
  BY <1>1, <1>4, LogFacts DEF Fetched, RangeInv, TypeOK
<1>9. records \in Seq(Line) /\ tsCache'[b] = tsCache'[b]
  BY DEF TypeOK
<1>10. /\ records' \in Seq(Line) /\ DOMAIN records' = DOMAIN records \cup {Len(records) + 1}
       /\ records'[Len(records) + 1] = r /\ \A n \in DOMAIN records : records'[n] = records[n]
  BY <1>6, <1>9, AppendMeaning
<1>11. Fetched' = Fetched
  <2>1. LogSet(records') = LogSet(records) \cup {log}
    BY <1>6, <1>7, <1>9, LogSetOfAppend
  <2> QED
    BY <1>6, <2>1 DEF Fetched, LogSet
<1>12. \A c \in DOMAIN tsCache' : \E v \in Versions : tsCache'[c] = TimeOf[c][v]
  BY <1>6, TypeFacts DEF TypeOK
<1>13. TypeOK'
  <2>1. reply' \subseteq Logs
    BY <1>6 DEF TypeOK
  <2>2. \A c \in DOMAIN tsCache' : c \in Blocks
    BY <1>6, <1>8 DEF TypeOK
  <2> QED
    BY <1>1, <1>10, <1>12, <2>1, <2>2 DEF TypeOK
<1>14. RangeInv'
  <2>1. \A i \in DOMAIN records' : records'[i].run = run
    BY <1>1, <1>7, <1>10 DEF RangeInv
  <2> QED
    BY <1>1, <1>11, <2>1 DEF RangeInv
<1>15. \A line : TimedByCache(line) => TimedByCache(line)'
  BY <1>6 DEF TimedByCache
<1>16. TimedByCache(r)'
  BY <1>4, <1>6, <1>7 DEF TimedByCache
<1>17. CacheInv'
  <2>1. \A c \in DOMAIN tsCache' : c <= end
    BY <1>1, <1>2, <1>6, <1>8 DEF CacheInv
  <2>2. ASSUME NEW i \in DOMAIN records' PROVE records'[i].log.block \in DOMAIN tsCache'
                                               /\ records'[i].ts = tsCache'[records'[i].log.block]
    BY <1>1, <1>10, <1>15, <1>16 DEF CacheInv, TimedByCache
  <2>3. \A i \in DOMAIN lines : lines[i].run = run => /\ lines[i].log.block \in DOMAIN tsCache'
                                                      /\ lines[i].ts = tsCache'[lines[i].log.block]
    BY <1>1, <1>15 DEF CacheInv, TimedByCache
  <2> QED
    BY <1>1, <2>1, <2>2, <2>3 DEF CacheInv, TimedByCache
<1>18. VersionInv'
  BY <1>1, <1>11 DEF VersionInv
<1>19. \A c \in DOMAIN tsCache' : c \in next..sure => tsCache'[c] = TimeOf[c][chain[c]]
  BY <1>1, <1>6 DEF SureInv
<1>20. SureInv'
  <2>1. ASSUME r.sure PROVE OnChain(r)
    <3>0. b <= sure
      BY <1>7, <2>1
    <3>1. b \in next..sure /\ b \in DOMAIN tsCache'
      BY <1>2, <1>6, <1>8, <3>0
    <3>2. log.version = chain[b]
      BY <1>1, <1>3, <1>4, <3>1 DEF SureInv
    <3> QED
      BY <1>2, <1>4, <1>7, <1>19, <3>1, <3>2 DEF OnChain
  <2>2. \A i \in DOMAIN records' : records'[i].sure => OnChain(records'[i])
    BY <1>1, <1>10, <2>1 DEF SureInv
  <2>3. \A m \in reply' : m.block <= sure => m.version = chain[m.block]
    BY <1>1, <1>6 DEF SureInv
  <2> QED
    BY <1>1, <1>19, <2>2, <2>3 DEF SureInv, OnChain
<1>21. KeptInv' /\ OneBlockOneTime'
  BY <1>1, <1>11 DEF KeptInv, OneBlockOneTime, LogsAt, LogSet
<1> QED
  BY <1>13, <1>14, <1>17, <1>18, <1>20, <1>21

LEMMA PutKeeps ==
  ASSUME ReorgInv, PutLogBatch
  PROVE  ReorgInv'
<1> USE DEF ReorgInv
<1>1. /\ UNCHANGED <<chain, reorgs, final, checkpoint, request, next, to, end, reply, records, tsCache,
                     run, sure, settled>>
      /\ pc = "stamp" /\ pc' = "save" /\ reply = {} /\ lines' = lines \o records
  BY DEF PutLogBatch, node, range
<1>2. /\ next \in Nat /\ end \in Nat /\ next <= end /\ run \in Nat
      /\ lines \in Seq(Line) /\ records \in Seq(Line)
  BY <1>1, TypeFacts DEF TypeOK
<1>3. /\ lines' \in Seq(Line)
      /\ \A n \in DOMAIN lines' :
           \/ n \in DOMAIN lines /\ lines'[n] = lines[n]
           \/ \E m \in DOMAIN records : lines'[n] = records[m]
  BY <1>1, <1>2, ConcatMeaning
<1>4. LogSet(lines)' = LogSet(lines) \cup Fetched
  <2>1. LogSet(lines \o records) = LogSet(lines) \cup LogSet(records)
    BY <1>2, LogSetOfConcat
  <2> QED
    BY <1>1, <2>1 DEF Fetched, LogSet
<1>5. \A i \in DOMAIN lines : lines[i].run = run => lines[i].log.block < next
  BY <1>1 DEF RangeInv
<1>6. \A m \in DOMAIN records : /\ records[m].run = run /\ records[m].log \in Fetched
                                /\ records[m].log.block \in next..end
  BY <1>1 DEF RangeInv, Fetched, LogSet
<1>7. \A i \in DOMAIN lines : lines[i].log.block \in Nat
  BY TypeFacts, LogFacts, ConfigFacts DEF Line
<1>8. TypeOK'
  BY <1>1, <1>2, <1>3 DEF TypeOK
<1>9. RangeInv'
  <2>1. ASSUME NEW n \in DOMAIN lines'
        PROVE  lines'[n].run <= run /\ (lines'[n].run = run => lines'[n].log.block <= end)
    <3>1. CASE n \in DOMAIN lines /\ lines'[n] = lines[n]
      BY <1>2, <1>5, <1>7, <3>1 DEF RangeInv
    <3>2. CASE \E m \in DOMAIN records : lines'[n] = records[m]
      BY <1>2, <1>6, <3>2
    <3> QED
      BY <1>3, <3>1, <3>2
  <2> QED
    BY <1>1, <2>1 DEF RangeInv
<1>10. CacheInv'
  <2>1. \A n \in DOMAIN lines' : lines'[n].run = run => TimedByCache(lines'[n])
    BY <1>1, <1>3 DEF CacheInv
  <2> QED
    BY <1>1, <2>1 DEF CacheInv, TimedByCache
<1>11. VersionInv'
  BY <1>1 DEF VersionInv
<1>12. SureInv'
  <2>1. \A n \in DOMAIN lines' : lines'[n].sure => OnChain(lines'[n])
    BY <1>1, <1>3 DEF SureInv
  <2> QED
    BY <1>1, <2>1 DEF SureInv, OnChain
<1>13. KeptInv'
  <2>1. \A b : LogsAt(b)' = LogsAt(b)
    BY <1>1 DEF LogsAt
  <2> QED
    BY <1>1, <1>4, <2>1 DEF KeptInv
<1>14. OneBlockOneTime'
  <2>1. SUFFICES ASSUME NEW i \in DOMAIN lines', NEW j \in DOMAIN lines',
                        lines'[i].run = lines'[j].run, lines'[i].log.block = lines'[j].log.block
                 PROVE  lines'[i].log.version = lines'[j].log.version /\ lines'[i].ts = lines'[j].ts
    BY DEF OneBlockOneTime
  <2>2. CASE /\ i \in DOMAIN lines /\ lines'[i] = lines[i]
             /\ j \in DOMAIN lines /\ lines'[j] = lines[j]
    BY <2>1, <2>2 DEF OneBlockOneTime
  <2>3. CASE /\ i \in DOMAIN lines /\ lines'[i] = lines[i]
             /\ \E m \in DOMAIN records : lines'[j] = records[m]
    BY <1>2, <1>5, <1>6, <1>7, <2>1, <2>3
  <2>4. CASE /\ \E m \in DOMAIN records : lines'[i] = records[m]
             /\ j \in DOMAIN lines /\ lines'[j] = lines[j]
    BY <1>2, <1>5, <1>6, <1>7, <2>1, <2>4
  <2>5. CASE (\E m \in DOMAIN records : lines'[i] = records[m]) /\ (\E m \in DOMAIN records : lines'[j] = records[m])
    <3>1. PICK m \in DOMAIN records : lines'[i] = records[m]
      BY <2>5
    <3>2. PICK k \in DOMAIN records : lines'[j] = records[k]
      BY <2>5
    <3>3. records[m].log.version = records[k].log.version
      BY <1>1, <1>6, <2>1, <3>1, <3>2 DEF VersionInv
    <3>4. TimedByCache(records[m]) /\ TimedByCache(records[k])
      BY <1>1 DEF CacheInv
    <3> QED
      BY <2>1, <3>1, <3>2, <3>3, <3>4 DEF TimedByCache
  <2> QED
    BY <1>3, <2>2, <2>3, <2>4, <2>5
<1> QED
  BY <1>8, <1>9, <1>10, <1>11, <1>12, <1>13, <1>14

LEMMA SaveKeeps ==
  ASSUME ReorgInv, SaveCheckpoint
  PROVE  ReorgInv'
<1> USE DEF ReorgInv
<1>1. /\ UNCHANGED <<chain, reorgs, final, lines, request, to, end, reply, records, tsCache, run, sure>>
      /\ pc = "save" /\ pc' = "batch" /\ checkpoint' = end /\ next' = end + 1
      /\ settled' = settled \cup {b \in next..end : b <= sure}
  BY DEF SaveCheckpoint, node
<1>2. /\ next \in Nat /\ next > 0 /\ end \in Nat /\ final \in Nat /\ sure \in Nat /\ sure <= final
      /\ next' \in Nat /\ next' > 0
  BY <1>1, TypeFacts DEF RangeInv
<1>3. settled' \subseteq 1..final
  <2>1. \A b \in next..end : b <= sure => b \in 1..final
    BY <1>2
  <2> QED
    BY <1>1, <2>1 DEF TypeOK
<1>4. TypeOK'
  BY <1>1, <1>2, <1>3 DEF TypeOK
<1>5. RangeInv'
  <2>1. \A i \in DOMAIN lines : lines[i].log.block \in Nat
    BY TypeFacts, LogFacts, ConfigFacts DEF Line
  <2>2. \A i \in DOMAIN lines : lines[i].run = run => lines[i].log.block < end + 1
    BY <1>1, <1>2, <2>1 DEF RangeInv
  <2> QED
    BY <1>1, <1>2, <2>2 DEF RangeInv
<1>6. CacheInv'
  <2>1. \A b \in DOMAIN tsCache : b < end + 1
    BY <1>1, <1>2, ConfigFacts DEF CacheInv, TypeOK
  <2> QED
    BY <1>1, <2>1 DEF CacheInv, TimedByCache
<1>7. VersionInv' /\ SureInv' /\ OneBlockOneTime'
  BY <1>1 DEF VersionInv, SureInv, OnChain, OneBlockOneTime
<1>8. KeptInv'
  <2>1. \A b : LogsAt(b)' = LogsAt(b)
    BY <1>1 DEF LogsAt
  <2>2. LogSet(lines)' = LogSet(lines)
    BY <1>1 DEF LogSet
  <2> QED
    BY <1>1, <2>1, <2>2 DEF KeptInv
<1> QED
  BY <1>4, <1>5, <1>6, <1>7, <1>8
-----------------------------------------------------------------------------
LEMMA NextKeeps == ReorgInv /\ [Next]_vars => ReorgInv'
<1> SUFFICES ASSUME ReorgInv, [Next]_vars PROVE ReorgInv'
  OBVIOUS
<1>1. CASE ChainGrows
  BY <1>1, NodeKeeps
<1>2. CASE ChainReorganises
  BY <1>2, NodeKeeps
<1>3. CASE StartProcess
  BY <1>3, StartKeeps
<1>4. CASE NextBatch
  BY <1>4, NextBatchKeeps
<1>5. CASE LeaveLoop
  BY <1>5, DownKeeps DEF LeaveLoop
<1>6. CASE FilterLogs
  BY <1>6, FilterKeeps
<1>7. CASE BlockTimestamp
  BY <1>7, StampKeeps
<1>8. CASE PutLogBatch
  BY <1>8, PutKeeps
<1>9. CASE SaveCheckpoint
  BY <1>9, SaveKeeps
<1>10. CASE Stops
  BY <1>10, DownKeeps DEF Stops
<1>11. CASE UNCHANGED vars
  <2>1. UNCHANGED <<chain, reorgs, final, lines, checkpoint, pc, request, next, to, end, reply, records,
                    tsCache, run, sure, settled>>
    BY <1>11 DEF vars, node, range
  <2>2. TypeOK'
    BY <2>1 DEF ReorgInv, TypeOK
  <2>3. RangeInv' /\ VersionInv'
    BY <2>1 DEF ReorgInv, RangeInv, VersionInv, LogSet, Fetched
  <2>4. CacheInv' /\ OneBlockOneTime'
    BY <2>1 DEF ReorgInv, CacheInv, OneBlockOneTime, TimedByCache
  <2>5. SureInv'
    BY <2>1 DEF ReorgInv, SureInv, OnChain
  <2>6. KeptInv'
    BY <2>1 DEF ReorgInv, KeptInv, LogsAt, LogSet, Fetched
  <2> QED
    BY <2>2, <2>3, <2>4, <2>5, <2>6 DEF ReorgInv
<1> QED
  BY <1>1, <1>2, <1>3, <1>4, <1>5, <1>6, <1>7, <1>8, <1>9, <1>10, <1>11 DEF Next

LEMMA ReorgInvariant == Spec => []ReorgInv
<1>1. Init => ReorgInv
  BY InitInv
<1>2. ReorgInv /\ [Next]_vars => ReorgInv'
  BY NextKeeps
<1> QED
  BY <1>1, <1>2, PTL DEF Spec

(***************************************************************************)
(* Final blocks are never replaced, answers and records hold logs of the   *)
(* chain's versions and cached times those of their blocks, for every      *)
(* chain, depth, batch size and sequence of runs (Runner.Run,              *)
(* Client.BlockTimestamp).                                                 *)
(***************************************************************************)
THEOREM ReorgTyped == Spec => []TypeOK
<1>1. ReorgInv => TypeOK
  BY DEF ReorgInv
<1> QED
  BY <1>1, ReorgInvariant, PTL

(***************************************************************************)
(* The lines that a run appends for a block are of one version and have    *)
(* one time stamp, wherever the node changes its chain: a block lies in    *)
(* one FilterLogs answer of a run, and its time comes from the client's    *)
(* cache after the first header call.                                      *)
(***************************************************************************)
THEOREM ReorgOneBlockOneTime == Spec => []OneBlockOneTime
<1>1. ReorgInv => OneBlockOneTime
  BY DEF ReorgInv
<1> QED
  BY <1>1, ReorgInvariant, PTL

(***************************************************************************)
(* A line fetched when its block was final has the block of the chain and  *)
(* its time, now and later: the cache, keyed by number alone, never has    *)
(* the time of a replaced block for it.                                    *)
(***************************************************************************)
THEOREM ReorgFinalLinesExact == Spec => []FinalLinesExact
<1>1. ReorgInv => FinalLinesExact
  BY DEF ReorgInv, SureInv, OnChain, FinalLinesExact
<1> QED
  BY <1>1, ReorgInvariant, PTL

(***************************************************************************)
(* Below the checkpoint the output has, of each block that was final when  *)
(* its batch was fetched, all the logs of the chain's block and no other   *)
(* with its hash, after any number of replaced blocks and restarts.        *)
(***************************************************************************)
THEOREM ReorgSettledBlocksComplete == Spec => []SettledBlocksComplete
<1>1. ASSUME ReorgInv PROVE SettledBlocksComplete
  <2> SUFFICES ASSUME NEW b \in settled
               PROVE  {<<lines[i].log.tx, lines[i].log.index>> :
                         i \in {n \in DOMAIN lines : lines[n].log.block = b /\ lines[n].log.version = chain[b]}}
                        = {<<LogsOf[b][chain[b]][i], i>> : i \in DOMAIN LogsOf[b][chain[b]]}
    BY DEF SettledBlocksComplete
  <2>1. b \in Blocks /\ chain[b] \in Versions
    <3>1. TypeOK /\ settled \subseteq 1..final
      BY <1>1 DEF ReorgInv, TypeOK
    <3>2. b \in 1..Len(chain)
      BY <3>1, TypeFacts
    <3> QED
      BY <3>1, <3>2, TypeFacts
  <2>2. ASSUME NEW n \in DOMAIN lines, lines[n].log.block = b, lines[n].log.version = chain[b]
        PROVE  /\ lines[n].log.index \in DOMAIN LogsOf[b][chain[b]]
               /\ lines[n].log.tx = LogsOf[b][chain[b]][lines[n].log.index]
    BY <1>1, <2>2, TypeFacts, LogFacts DEF Line, ReorgInv
  <2>3. ASSUME NEW i \in DOMAIN LogsOf[b][chain[b]]
        PROVE  \E n \in DOMAIN lines :
                 /\ lines[n].log.block = b /\ lines[n].log.version = chain[b]
                 /\ lines[n].log.tx = LogsOf[b][chain[b]][i] /\ lines[n].log.index = i
    <3> DEFINE log == [block |-> b, version |-> chain[b], tx |-> LogsOf[b][chain[b]][i], index |-> i]
    <3>1. log \in LogsAt(b)
      BY DEF LogsAt, LogsIn
    <3>2. log \in LogSet(lines)
      BY <1>1, <3>1 DEF ReorgInv, KeptInv
    <3>3. PICK n \in DOMAIN lines : lines[n].log = log
      BY <3>2 DEF LogSet
    <3> QED
      BY <3>3
  <2> QED
    BY <2>2, <2>3
<1> QED
  BY <1>1, ReorgInvariant, PTL
=============================================================================
