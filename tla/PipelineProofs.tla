---------------------------- MODULE PipelineProofs ----------------------------
(***************************************************************************)
(* The three commands from end to end: what the table says of every window *)
(* no fault has touched, for every chain, window length and batch size,    *)
(* through any number of restarts.                                         *)
(***************************************************************************)
EXTENDS Pipeline, SequenceTheorems, FiniteSetTheorems, WellFoundedInduction, TLAPS

N == Len(Logs)

\* Sets of naturals: the least and the largest element, induction.
LEMMA LeastExists ==
  ASSUME NEW S, S \subseteq Nat, S # {}
  PROVE  \E x \in S : \A y \in S : x <= y
<1>1. PICK x \in S : \A y \in S : ~(<<y, x>> \in OpToRel(<, Nat))
  BY NatLessThanWellFounded, WFMin
<1>2. ASSUME NEW y \in S PROVE x <= y
  <2>1. ~(y < x)
    BY <1>1 DEF OpToRel
  <2> QED
    BY <2>1
<1> QED
  BY <1>2

LEMMA AllNaturals ==
  ASSUME NEW S, S \subseteq Nat, 0 \in S, \A n \in S : n + 1 \in S
  PROVE  S = Nat
<1> SUFFICES ASSUME Nat \ S # {} PROVE FALSE
  OBVIOUS
<1>1. PICK x \in Nat \ S : \A y \in Nat \ S : x <= y
  <2>1. Nat \ S \subseteq Nat
    OBVIOUS
  <2> QED
    BY <2>1, LeastExists
<1>2. x # 0 /\ x - 1 \in Nat /\ x - 1 < x
  OBVIOUS
<1>3. x - 1 \in S
  BY <1>1, <1>2
<1> QED
  BY <1>2, <1>3

LEMMA StepByStep ==
  ASSUME NEW n \in Nat, NEW S, 0 \in S, \A m \in 1..n : m - 1 \in S => m \in S
  PROVE  \A m \in 0..n : m \in S
<1> DEFINE T == {m \in Nat : m <= n => m \in S}
<1>1. T \subseteq Nat /\ 0 \in T
  OBVIOUS
<1>2. ASSUME NEW m \in T PROVE m + 1 \in T
  <2>1. m \in Nat /\ m + 1 \in Nat /\ (m + 1) - 1 = m
    OBVIOUS
  <2>2. CASE m + 1 <= n
    <3>1. m \in S /\ m + 1 \in 1..n
      BY <2>1, <2>2
    <3> QED
      BY <2>1, <3>1
  <2>3. CASE ~(m + 1 <= n)
    BY <2>1, <2>3
  <2> QED
    BY <2>2, <2>3
<1>3. T = Nat
  <2> HIDE DEF T
  <2> QED
    BY <1>1, <1>2, AllNaturals
<1> QED
  BY <1>3

LEMMA MaxMeaning ==
  ASSUME NEW n \in Nat, NEW S, S \subseteq 0..n, S # {}
  PROVE  Max(S) \in S /\ \A y \in S : y <= Max(S)
<1> DEFINE Gaps == {n - x : x \in S}
<1>1. PICK g \in Gaps : \A y \in Gaps : g <= y
  <2>1. \A x \in S : n - x \in Nat
    OBVIOUS
  <2>2. Gaps \subseteq Nat /\ Gaps # {}
    BY <2>1
  <2> HIDE DEF Gaps
  <2> QED
    BY <2>2, LeastExists
<1>2. PICK x \in S : g = n - x
  OBVIOUS
<1>3. \A y \in S : x >= y
  <2>1. ASSUME NEW y \in S PROVE x >= y
    <3>1. n - x <= n - y
      BY <1>1, <1>2
    <3>2. x \in Int /\ y \in Int
      OBVIOUS
    <3> QED
      BY <3>1, <3>2
  <2> QED
    BY <2>1
<1>4. Max(S) \in S /\ \A y \in S : Max(S) >= y
  BY <1>3 DEF Max
<1>5. \A y \in S : y \in Int
  OBVIOUS
<1> QED
  BY <1>4, <1>5

LEMMA MinMeaning ==
  ASSUME NEW S, S \subseteq Nat, S # {}
  PROVE  Min(S) \in S /\ \A y \in S : Min(S) <= y
<1>1. \E x \in S : \A y \in S : x <= y
  BY LeastExists
<1> QED
  BY <1>1 DEF Min
-----------------------------------------------------------------------------
LEMMA ElementsTyped ==
  ASSUME NEW S, NEW s \in Seq(S)
  PROVE  Len(s) \in Nat /\ DOMAIN s = 1..Len(s) /\ \A n \in 1..Len(s) : s[n] \in S
  OBVIOUS

LEMMA AppendMeaning ==
  ASSUME NEW S, NEW s \in Seq(S), NEW e \in S
  PROVE  /\ Append(s, e) \in Seq(S) /\ Append(s, e) # << >>
         /\ Len(s) \in Nat /\ Len(Append(s, e)) = Len(s) + 1
         /\ Append(s, e)[Len(s) + 1] = e
         /\ \A n \in 1..Len(s) : Append(s, e)[n] = s[n]
  BY AppendProperties

\* The chain.
LEMMA LogFacts ==
  /\ N \in Nat /\ N > 0 /\ DOMAIN Logs = 1..N
  /\ \A i \in 1..N : Logs[i].block \in Nat /\ Logs[i].block > 0 /\ Logs[i].ts \in Nat /\ Logs[i].ts > 0
  /\ \A i, j \in 1..N : i <= j => Logs[i].block <= Logs[j].block /\ Logs[i].ts <= Logs[j].ts
  /\ \A i \in 1..N : Logs[i].ts >= WindowSeconds
  /\ WindowSeconds \in Nat /\ WindowSeconds > 0 /\ BatchSize \in Nat /\ BatchSize > 0
<1>1. Logs \in Seq(Range(Logs)) /\ Logs # << >>
  BY PipelineAssumption
<1>2. N \in Nat /\ DOMAIN Logs = 1..N
  BY <1>1 DEF N
<1>3. N # 0
  BY <1>1, EmptySeq DEF N
<1>4. /\ WindowSeconds \in Nat /\ WindowSeconds > 0 /\ BatchSize \in Nat /\ BatchSize > 0
      /\ \A i \in 1..N : /\ Logs[i].block \in Nat /\ Logs[i].block > 0
                        /\ Logs[i].ts \in Nat /\ Logs[i].ts >= WindowSeconds
  BY <1>2, PipelineAssumption
<1>5. \A i \in 1..N : Logs[i].ts > 0
  BY <1>4
<1>6. \A i, j \in 1..N : i <= j => Logs[i].block <= Logs[j].block /\ Logs[i].ts <= Logs[j].ts
  BY <1>2, PipelineAssumption
<1> QED
  BY <1>2, <1>3, <1>4, <1>5, <1>6

LEMMA WindowStart ==
  ASSUME NEW ts \in Nat
  PROVE  /\ WindowOf(ts) \in Nat /\ WindowOf(ts) <= ts
         /\ ts < WindowOf(ts) + WindowSeconds
         /\ \E q \in Nat : WindowOf(ts) = WindowSeconds * q
<1>1. WindowSeconds \in Nat /\ WindowSeconds > 0
  BY LogFacts
<1> DEFINE q == ts \div WindowSeconds
           r == ts % WindowSeconds
<1>2. q \in Nat /\ r \in 0..WindowSeconds - 1 /\ ts = WindowSeconds * q + r
  BY <1>1
<1>3. WindowOf(ts) = ts - r
  BY DEF WindowOf
<1> HIDE DEF q, r
<1>4. WindowSeconds * q \in Nat
  BY <1>1, <1>2
<1>5. WindowOf(ts) = WindowSeconds * q
  BY <1>1, <1>2, <1>3, <1>4
<1> QED
  BY <1>1, <1>2, <1>3, <1>4, <1>5

LEMMA NextMultiple ==
  ASSUME NEW w \in Nat, NEW q \in Nat, NEW p \in Nat, q < p
  PROVE  w * q + w <= w * p
<1>1. PICK d \in Nat : p = q + 1 + d
  <2>1. p - (q + 1) \in Nat
    OBVIOUS
  <2> QED
    BY <2>1
<1>2. w * p = w * q + w + w * d /\ w * d \in Nat
  BY <1>1
<1> QED
  BY <1>2

LEMMA WindowOrder ==
  ASSUME NEW s \in Nat, NEW t \in Nat, s <= t
  PROVE  WindowOf(s) <= WindowOf(t)
<1>1. PICK p \in Nat : WindowOf(s) = WindowSeconds * p
  BY WindowStart
<1>2. PICK q \in Nat : WindowOf(t) = WindowSeconds * q
  BY WindowStart
<1>3. q < p => WindowSeconds * q + WindowSeconds <= WindowSeconds * p
  BY NextMultiple, LogFacts
<1>4. /\ t < WindowOf(t) + WindowSeconds /\ WindowOf(s) <= s
      /\ WindowOf(t) \in Nat /\ WindowOf(s) \in Nat /\ WindowSeconds \in Nat
  BY WindowStart, LogFacts
<1>5. p <= q
  BY <1>1, <1>2, <1>3, <1>4
<1>6. p = q \/ p < q
  BY <1>5
<1>7. p < q => WindowSeconds * p + WindowSeconds <= WindowSeconds * q
  BY NextMultiple, LogFacts
<1> QED
  BY <1>1, <1>2, <1>4, <1>6, <1>7

\* The start of a window is in it.
LEMMA WindowOfStart ==
  ASSUME NEW t \in Nat
  PROVE  WindowOf(WindowOf(t)) = WindowOf(t)
<1> DEFINE w == WindowOf(t)
<1>1. PICK q \in Nat : w = WindowSeconds * q
  BY WindowStart
<1>2. w \in Nat /\ WindowSeconds \in Nat /\ WindowSeconds > 0
  BY WindowStart, LogFacts
<1>3. /\ WindowOf(w) \in Nat /\ WindowOf(w) <= w /\ w < WindowOf(w) + WindowSeconds
      /\ \E p \in Nat : WindowOf(w) = WindowSeconds * p
  BY <1>2, WindowStart
<1>4. PICK p \in Nat : WindowOf(w) = WindowSeconds * p
  BY <1>3
<1> HIDE DEF w
<1>5. p < q => WindowSeconds * p + WindowSeconds <= WindowSeconds * q
  BY <1>2, NextMultiple
<1>6. q < p => WindowSeconds * q + WindowSeconds <= WindowSeconds * p
  BY <1>2, NextMultiple
<1>7. p = q
  BY <1>1, <1>2, <1>3, <1>4, <1>5, <1>6
<1> QED
  BY <1>1, <1>4, <1>7 DEF w

LEMMA KeyFacts ==
  ASSUME NEW i \in 1..N
  PROVE  /\ KeyOf(i) \in Keys /\ i \in InWindow(KeyOf(i))
         /\ KeyOf(i) = <<Logs[i].pool, WindowOf(Logs[i].ts)>>
         /\ WindowOf(Logs[i].ts) \in Nat /\ WindowOf(Logs[i].ts) <= Logs[i].ts
  BY LogFacts, WindowStart DEF KeyOf, Keys, InWindow

\* Between two logs of a window in chain order the pool has no logs of other windows.
LEMMA NothingBetween ==
  ASSUME NEW i \in 1..N, NEW m \in 1..N, NEW j \in 1..N, i <= m, m <= j,
         KeyOf(i) = KeyOf(j), Logs[m].pool = Logs[i].pool
  PROVE  KeyOf(m) = KeyOf(i)
<1>1. Logs[i].ts <= Logs[m].ts /\ Logs[m].ts <= Logs[j].ts
  BY LogFacts
<1>2. WindowOf(Logs[i].ts) <= WindowOf(Logs[m].ts) /\ WindowOf(Logs[m].ts) <= WindowOf(Logs[j].ts)
  BY <1>1, LogFacts, WindowOrder
<1>3. WindowOf(Logs[i].ts) = WindowOf(Logs[j].ts)
  BY DEF KeyOf
<1>4. WindowOf(Logs[i].ts) \in Nat /\ WindowOf(Logs[m].ts) \in Nat
  BY KeyFacts
<1>5. WindowOf(Logs[m].ts) = WindowOf(Logs[i].ts)
  BY <1>2, <1>3, <1>4
<1> QED
  BY <1>5 DEF KeyOf

\* The logs of the blocks up to a block are the first ones.
LEMMA UpToMeaning ==
  ASSUME NEW block \in Nat
  PROVE  /\ LogsUpTo(block) \in 0..N
         /\ \A i \in 1..N : Logs[i].block <= block <=> i <= LogsUpTo(block)
<1> DEFINE S == {i \in DOMAIN Logs : Logs[i].block <= block}
<1>1. S \subseteq 1..N /\ \A i \in 1..N : i \in S <=> Logs[i].block <= block
  BY LogFacts
<1>2. \A i, j \in 1..N : i \in S /\ j <= i => j \in S
  <2> SUFFICES ASSUME NEW i \in 1..N, NEW j \in 1..N, i \in S, j <= i PROVE Logs[j].block <= block
    BY <1>1
  <2>1. Logs[j].block <= Logs[i].block /\ Logs[i].block <= block
    BY <1>1, LogFacts
  <2>2. Logs[j].block \in Nat /\ Logs[i].block \in Nat
    BY LogFacts
  <2> QED
    BY <2>1, <2>2
<1>3. LogsUpTo(block) = Cardinality(S)
  BY DEF LogsUpTo
<1> HIDE DEF S
<1>4. CASE S = {}
  <2>1. Cardinality(S) = 0
    BY <1>4, FS_EmptySet
  <2> QED
    BY <1>1, <1>3, <1>4, <2>1, LogFacts
<1>5. CASE S # {}
  <2> DEFINE x == Max(S)
  <2>1. x \in S /\ \A y \in S : y <= x
    <3>1. S \subseteq 0..N
      BY <1>1
    <3> QED
      BY <1>5, <3>1, MaxMeaning, LogFacts
  <2> HIDE DEF x
  <2>2. x \in 1..N /\ \A i \in 1..N : i \in S <=> i <= x
    BY <1>1, <1>2, <2>1
  <2>3. S = 1..x
    <3>1. x \in Nat /\ x <= N /\ 1..x \subseteq 1..N
      BY <2>2, LogFacts
    <3>2. \A i \in 1..N : i \in S <=> i \in 1..x
      BY <2>2, <3>1
    <3> QED
      BY <1>1, <3>1, <3>2
  <2>4. Cardinality(S) = x
    BY <2>2, <2>3, FS_Interval
  <2> QED
    BY <1>1, <1>3, <2>2, <2>4, LogFacts
<1> QED
  BY <1>4, <1>5

LEMMA UpToGrows ==
  ASSUME NEW b \in Nat, NEW c \in Nat, b <= c
  PROVE  LogsUpTo(b) <= LogsUpTo(c)
<1>1. LogsUpTo(b) \in 0..N /\ LogsUpTo(c) \in 0..N
  BY UpToMeaning
<1>2. CASE LogsUpTo(b) = 0
  BY <1>1, <1>2
<1>3. CASE LogsUpTo(b) # 0
  <2>1. PICK i \in 1..N : i = LogsUpTo(b)
    BY <1>1, <1>3
  <2>2. Logs[i].block <= b /\ Logs[i].block \in Nat
    <3>1. i <= LogsUpTo(b)
      BY <2>1
    <3> QED
      BY <3>1, UpToMeaning, LogFacts
  <2>3. Logs[i].block <= c
    BY <2>2
  <2>4. i <= LogsUpTo(c)
    BY <2>3, UpToMeaning
  <2> QED
    BY <2>1, <2>4
<1> QED
  BY <1>2, <1>3
-----------------------------------------------------------------------------
\* logs.jsonl: whatever is repeated by restarts, the next line is of the next log or of an
\* earlier one, and the last line is not below the checkpoint.
Line == [log : 1..N, readable : BOOLEAN]
LastLog(lines) == IF lines = << >> THEN 0 ELSE lines[Len(lines)].log
Climbs(lines) ==
  /\ lines \in Seq(Line)
  /\ lines # << >> => lines[1].log = 1
  /\ \A n \in 1..Len(lines) - 1 : lines[n + 1].log <= lines[n].log + 1

RawInv ==
  /\ head \in Nat /\ checkpoint \in Nat /\ checkpoint <= head /\ torn \in BOOLEAN
  /\ Climbs(raw)
  /\ LogsUpTo(checkpoint) <= LastLog(raw)

LEMMA LineFacts ==
  ASSUME NEW lines, Climbs(lines)
  PROVE  /\ Len(lines) \in Nat /\ DOMAIN lines = 1..Len(lines)
         /\ \A n \in 1..Len(lines) : lines[n].log \in 1..N
<1>1. lines \in Seq(Line)
  BY DEF Climbs
<1>2. Len(lines) \in Nat /\ DOMAIN lines = 1..Len(lines) /\ \A n \in 1..Len(lines) : lines[n] \in Line
  BY <1>1, ElementsTyped
<1> QED
  BY <1>2 DEF Line

\* A value between those of two lines is passed on the way.
LEMMA Passed ==
  ASSUME NEW lines, Climbs(lines), NEW a \in 1..Len(lines), NEW c \in 1..Len(lines), a < c,
         NEW v \in 1..N, lines[a].log < v, v <= lines[c].log
  PROVE  \E d \in a + 1..c : lines[d].log = v
<1>0. Len(lines) \in Nat /\ \A n \in 1..Len(lines) : lines[n].log \in 1..N
  BY LineFacts
<1> DEFINE S == {d \in a + 1..c : lines[d].log >= v}
<1>1. PICK d \in S : \A y \in S : d <= y
  <2>1. S \subseteq Nat /\ c \in S
    BY <1>0, LogFacts
  <2> QED
    BY <2>1, LeastExists
<1>2. d \in a + 1..c /\ lines[d].log >= v /\ d - 1 \notin S
  BY <1>0, <1>1
<1>3. d - 1 \in a..c /\ d - 1 \in 1..Len(lines) - 1
  BY <1>0, <1>2
<1>4. lines[d - 1].log < v
  <2>1. CASE d - 1 = a
    BY <2>1
  <2>2. CASE d - 1 # a
    <3>1. d - 1 \in a + 1..c
      BY <1>0, <1>3, <2>2
    <3>2. ~(lines[d - 1].log >= v) /\ d - 1 \in 1..Len(lines)
      BY <1>0, <1>2, <1>3, <3>1
    <3> QED
      BY <1>0, <3>2, LogFacts
  <2> QED
    BY <2>1, <2>2
<1>5. lines[(d - 1) + 1].log <= lines[d - 1].log + 1
  BY <1>3 DEF Climbs
<1>6. (d - 1) + 1 = d /\ d \in 1..Len(lines) /\ d - 1 \in 1..Len(lines)
  BY <1>0, <1>2, <1>3
<1>7. lines[d].log \in 1..N /\ lines[d - 1].log \in 1..N
  BY <1>0, <1>6
<1>8. lines[d].log = v
  BY <1>2, <1>4, <1>5, <1>6, <1>7, LogFacts
<1> QED
  BY <1>2, <1>8

\* The same from the beginning of the file.
LEMMA PassedBefore ==
  ASSUME NEW lines, Climbs(lines), NEW c \in 1..Len(lines), NEW v \in 1..N, v <= lines[c].log
  PROVE  \E d \in 1..c : lines[d].log = v
<1>1. Len(lines) \in Nat /\ lines # << >>
  BY EmptySeq DEF Climbs
<1>2. lines[1].log = 1
  BY <1>1 DEF Climbs
<1>3. CASE v = 1
  BY <1>1, <1>2, <1>3
<1>4. CASE v # 1 /\ c # 1
  <2>1. 1 \in 1..Len(lines) /\ 1 < c /\ lines[1].log < v
    BY <1>1, <1>2, <1>4, LogFacts
  <2>2. \E d \in 1 + 1..c : lines[d].log = v
    BY <2>1, Passed
  <2> QED
    BY <1>1, <2>2
<1>5. CASE v # 1 /\ c = 1
  BY <1>2, <1>5, LogFacts
<1> QED
  BY <1>3, <1>4, <1>5

\* The file after some lines are appended to it.
Kept(lines, more) == Len(lines) <= Len(more) /\ \A d \in 1..Len(lines) : more[d] = lines[d]

LEMMA BatchFacts ==
  ASSUME RawInv, checkpoint < head
  PROVE  /\ BatchEnd \in Nat /\ checkpoint < BatchEnd /\ BatchEnd <= head
         /\ LogsDue \in Nat /\ LogsUpTo(checkpoint) \in Nat
         /\ LogsUpTo(checkpoint) + LogsDue = LogsUpTo(BatchEnd)
         /\ LogsUpTo(BatchEnd) <= N
<1>1. BatchEnd \in Nat /\ checkpoint < BatchEnd /\ BatchEnd <= head
  BY LogFacts DEF RawInv, BatchEnd
<1>2. LogsUpTo(checkpoint) \in 0..N /\ LogsUpTo(BatchEnd) \in 0..N
  BY <1>1, UpToMeaning DEF RawInv
<1>3. LogsUpTo(checkpoint) <= LogsUpTo(BatchEnd)
  BY <1>1, UpToGrows DEF RawInv
<1> QED
  BY <1>1, <1>2, <1>3, LogFacts DEF LogsDue

LEMMA AppendedMeaning ==
  ASSUME RawInv, checkpoint < head, NEW n \in 0..LogsDue
  PROVE  /\ Climbs(Appended(n)) /\ Kept(raw, Appended(n))
         /\ LastLog(Appended(n)) >= LogsUpTo(checkpoint) + n
         /\ LastLog(Appended(n)) \in 0..N
<1> DEFINE F == LogsUpTo(checkpoint)
           L == Len(raw)
           new == [j \in 1..n |-> [log |-> F + j, readable |-> ~(torn /\ j = 1)]]
           all == raw \o new
<1>0. n \in Nat /\ F \in Nat /\ F + n <= N /\ N \in Nat
  BY BatchFacts, LogFacts
<1>1. raw \in Seq(Line) /\ L \in Nat
  BY DEF RawInv, Climbs
<1>2. new \in Seq(Line) /\ Len(new) = n /\ \A j \in 1..n : new[j].log = F + j
  <2>1. \A j \in 1..n : F + j \in 1..N
    BY <1>0
  <2>2. \A j \in 1..n : new[j] \in Line /\ new[j].log = F + j
    BY <2>1 DEF Line
  <2>3. new = [j \in 1..n |-> new[j]] /\ DOMAIN new = 1..n
    OBVIOUS
  <2> HIDE DEF new
  <2>4. new \in [1..n -> Line]
    BY <2>2, <2>3
  <2> QED
    BY <1>0, <2>2, <2>3, <2>4
<1>3. Appended(n) = all
  BY DEF Appended
<1> HIDE DEF new
<1>4. /\ all \in Seq(Line) /\ Len(all) = L + n
      /\ \A d \in 1..L : all[d] = raw[d]
      /\ \A j \in 1..n : all[L + j] = new[j]
  BY <1>0, <1>1, <1>2
<1> HIDE DEF all
<1>5. Kept(raw, all)
  BY <1>0, <1>1, <1>4 DEF Kept
<1>6. \A j \in 1..n : all[L + j].log = F + j
  BY <1>2, <1>4
<1>7. F <= LastLog(raw) /\ (L = 0 => F = 0) /\ (L # 0 => F <= raw[L].log /\ raw[L].log \in 1..N)
  <2>1. raw = << >> <=> L = 0
    BY <1>1, EmptySeq
  <2>2. L # 0 => raw[L] \in Line
    BY <1>1
  <2>3. F <= LastLog(raw)
    BY DEF RawInv
  <2> QED
    BY <1>0, <2>1, <2>2, <2>3 DEF LastLog, Line
<1>8. all # << >> => all[1].log = 1
  <2>1. CASE L # 0
    <3>1. raw # << >> /\ 1 \in 1..L
      BY <1>1, <2>1, EmptySeq
    <3>2. raw[1].log = 1
      BY <3>1 DEF RawInv, Climbs
    <3> QED
      BY <1>4, <3>1, <3>2
  <2>2. CASE L = 0 /\ n # 0
    <3>1. all[L + 1].log = F + 1
      BY <1>0, <1>6, <2>2
    <3> QED
      BY <1>7, <2>2, <3>1
  <2>3. CASE L = 0 /\ n = 0
    BY <1>4, <2>3, EmptySeq
  <2> QED
    BY <2>1, <2>2, <2>3
<1>9. ASSUME NEW d \in 1..Len(all) - 1 PROVE all[d + 1].log <= all[d].log + 1
  <2>0. d \in Nat /\ d > 0 /\ d < L + n
    BY <1>0, <1>1, <1>4
  <2>1. CASE d < L
    <3>1. d \in 1..L - 1 /\ d \in 1..L /\ d + 1 \in 1..L
      BY <1>1, <2>0, <2>1
    <3>2. raw[d + 1].log <= raw[d].log + 1
      BY <3>1 DEF RawInv, Climbs
    <3> QED
      BY <1>4, <3>1, <3>2
  <2>2. CASE d = L
    <3>1. d \in 1..L /\ 1 \in 1..n
      BY <1>0, <1>1, <2>0, <2>2
    <3>2. all[d] = raw[L] /\ all[d + 1].log = F + 1
      BY <1>4, <1>6, <2>2, <3>1
    <3> QED
      BY <1>0, <1>7, <2>0, <2>2, <3>2
  <2>3. CASE d > L
    <3>1. PICK j \in 1..n - 1 : d = L + j
      <4>1. d - L \in 1..n - 1
        BY <1>0, <1>1, <2>0, <2>3
      <4> QED
        BY <1>1, <2>0, <4>1
    <3>2. j \in 1..n /\ j + 1 \in 1..n /\ d + 1 = L + (j + 1)
      BY <1>0, <1>1, <3>1
    <3>3. all[d].log = F + j /\ all[d + 1].log = F + (j + 1)
      BY <1>6, <3>1, <3>2
    <3> QED
      BY <1>0, <3>2, <3>3
  <2> QED
    BY <1>1, <2>0, <2>1, <2>2, <2>3
<1>10. Climbs(all)
  BY <1>4, <1>8, <1>9 DEF Climbs
<1>11. LastLog(all) >= F + n /\ LastLog(all) \in 0..N
  <2>1. CASE n = 0
    <3>1. Len(all) = L /\ (L # 0 => all[L] = raw[L])
      BY <1>1, <1>4, <2>1
    <3>2. all = << >> <=> L = 0
      BY <1>4, <3>1, EmptySeq
    <3>3. F + n = F
      BY <1>0, <2>1
    <3> QED
      BY <1>0, <1>7, <3>1, <3>2, <3>3 DEF LastLog
  <2>2. CASE n # 0
    <3>1. n \in 1..n /\ Len(all) = L + n /\ all # << >>
      BY <1>0, <1>1, <1>4, <2>2, EmptySeq
    <3>2. all[Len(all)].log = F + n
      BY <1>6, <3>1
    <3> QED
      BY <1>0, <3>1, <3>2 DEF LastLog
  <2> QED
    BY <2>1, <2>2
<1> QED
  BY <1>3, <1>5, <1>10, <1>11

LEMMA KeptSame ==
  ASSUME NEW lines
  PROVE  Len(lines) \in Nat => Kept(lines, lines)
  BY DEF Kept

LEMMA InitRaw == Init => RawInv
<1> SUFFICES ASSUME Init PROVE RawInv
  OBVIOUS
<1>1. raw = << >> /\ head = 0 /\ checkpoint = 0 /\ torn = FALSE
  BY DEF Init
<1>2. raw \in Seq(Line) /\ Len(raw) = 0
  BY <1>1
<1>3. LogsUpTo(0) \in 0..N /\ LogsUpTo(0) <= 0
  <2>1. LogsUpTo(0) \in 0..N /\ \A i \in 1..N : Logs[i].block <= 0 <=> i <= LogsUpTo(0)
    BY UpToMeaning
  <2>2. \A i \in 1..N : ~(Logs[i].block <= 0)
    BY LogFacts
  <2>3. LogsUpTo(0) # 0 => LogsUpTo(0) \in 1..N
    BY <2>1, LogFacts
  <2> QED
    BY <2>1, <2>2, <2>3
<1>4. Climbs(raw)
  <2>1. 1..Len(raw) - 1 = {}
    BY <1>2
  <2> QED
    BY <1>1, <1>2, <2>1 DEF Climbs
<1>5. LastLog(raw) = 0
  BY <1>1 DEF LastLog
<1>6. LogsUpTo(checkpoint) <= LastLog(raw) /\ checkpoint <= head
  BY <1>1, <1>3, <1>5
<1>7. torn \in BOOLEAN /\ head \in Nat /\ checkpoint \in Nat
  BY <1>1
<1> QED
  BY <1>4, <1>6, <1>7 DEF RawInv

LEMMA NextRaw ==
  ASSUME RawInv, [Next]_vars
  PROVE  RawInv' /\ Kept(raw, raw')
<1>0. Len(raw) \in Nat /\ Kept(raw, raw)
  BY KeptSame DEF RawInv, Climbs
<1>1. CASE ChainGrows
  BY <1>0, <1>1 DEF ChainGrows, RawInv
<1>2. CASE RunBatch
  <2>1. checkpoint < head /\ raw' = Appended(LogsDue) /\ checkpoint' = BatchEnd /\ head' = head
    BY <1>2 DEF RunBatch
  <2>2. torn' \in BOOLEAN
    BY <1>2 DEF RunBatch, RawInv
  <2>3. /\ BatchEnd \in Nat /\ BatchEnd <= head /\ LogsDue \in 0..LogsDue
        /\ LogsUpTo(checkpoint) + LogsDue = LogsUpTo(BatchEnd)
    BY <2>1, BatchFacts
  <2>4. Climbs(raw') /\ Kept(raw, raw') /\ LastLog(raw') >= LogsUpTo(BatchEnd)
    BY <2>1, <2>3, AppendedMeaning
  <2>5. LastLog(raw') \in 0..N /\ LogsUpTo(BatchEnd) \in 0..N
    BY <2>1, <2>3, AppendedMeaning, UpToMeaning
  <2>6. LogsUpTo(checkpoint)' = LogsUpTo(BatchEnd)
    BY <2>1 DEF LogsUpTo
  <2>7. LastLog(raw)' = LastLog(raw')
    BY DEF LastLog
  <2>8. LogsUpTo(checkpoint)' <= LastLog(raw)'
    BY <2>4, <2>5, <2>6, <2>7, LogFacts
  <2>9. Climbs(raw)'
    BY <2>4 DEF Climbs, Line, N
  <2> QED
    BY <2>1, <2>2, <2>3, <2>4, <2>8, <2>9 DEF RawInv
<1>3. CASE RunDies
  <2>1. checkpoint < head /\ checkpoint' = checkpoint /\ head' = head
    BY <1>3 DEF RunDies
  <2>2. PICK n \in 0..LogsDue : /\ raw' = Appended(n)
                                /\ torn' \in {torn /\ n = 0} \cup {n < LogsDue}
    BY <1>3 DEF RunDies
  <2>3. torn' \in BOOLEAN
    <3>1. CASE torn' = (torn /\ n = 0)
      BY <3>1
    <3>2. CASE torn' = (n < LogsDue)
      BY <3>2
    <3> QED
      BY <2>2, <3>1, <3>2
  <2>4. LogsDue \in Nat /\ LogsUpTo(checkpoint) \in 0..N
    BY <2>1, BatchFacts, UpToMeaning DEF RawInv
  <2>5. Climbs(raw') /\ Kept(raw, raw')
    BY <2>1, <2>2, AppendedMeaning
  <2>6. LastLog(raw') >= LogsUpTo(checkpoint) + n /\ LastLog(raw') \in 0..N
    BY <2>1, <2>2, AppendedMeaning
  <2>7. LastLog(raw') >= LogsUpTo(checkpoint)
    BY <2>4, <2>6, LogFacts
  <2>8. LogsUpTo(checkpoint)' <= LastLog(raw)'
    <3>1. LogsUpTo(checkpoint)' = LogsUpTo(checkpoint)
      BY <2>1 DEF LogsUpTo
    <3>2. LastLog(raw)' = LastLog(raw')
      BY DEF LastLog
    <3> QED
      BY <2>4, <2>6, <2>7, <3>1, <3>2, LogFacts
  <2>9. Climbs(raw)'
    BY <2>5 DEF Climbs, Line, N
  <2> QED
    BY <2>1, <2>3, <2>5, <2>8, <2>9 DEF RawInv
<1>4. CASE UNCHANGED <<head, raw, torn, checkpoint>>
  BY <1>0, <1>4 DEF RawInv, Climbs, LastLog, LogsUpTo
<1> QED
  BY <1>1, <1>2, <1>3, <1>4
  DEF Next, vars, DecodeAll, DecodeDies, AggregateAll, AggregateDiesScanning, AggregateDiesAtEnd,
      AggregateLosesCommit, Stores
-----------------------------------------------------------------------------
\* The fold over the lines of logs.jsonl: what FoldLeft chooses exists, by induction on the
\* number of lines, and goes line by line.
FoldStep(lines, g, s) ==
  IF s = {} THEN << >> ELSE AddEvent(g[s \ {Max(s)}], lines[Max(s)])

LEMMA BeforeTheLast ==
  ASSUME NEW n \in Nat, NEW s \in SUBSET (1..n), s # {}
  PROVE  Max(s) \in s /\ \A m \in Nat : s \subseteq 1..m + 1 => s \ {Max(s)} \subseteq 1..m
<1>1. Max(s) \in s /\ \A y \in s : y <= Max(s)
  <2>1. s \subseteq 0..n
    OBVIOUS
  <2> QED
    BY <2>1, MaxMeaning
<1> DEFINE x == Max(s)
<1> HIDE DEF x
<1>2. ASSUME NEW m \in Nat, s \subseteq 1..m + 1, NEW y \in s, y # x PROVE y \in 1..m
  <2>1. x \in 1..m + 1 /\ y \in 1..m + 1 /\ y <= x
    BY <1>1, <1>2 DEF x
  <2> QED
    BY <1>2, <2>1
<1> QED
  BY <1>1, <1>2 DEF x

LEMMA FoldExists ==
  ASSUME NEW lines, NEW n \in Nat
  PROVE  \E g : g = [s \in SUBSET (1..n) |-> FoldStep(lines, g, s)]
<1> DEFINE D == SUBSET (1..n)
           Upto(m, g) == /\ g = [s \in D |-> g[s]]
                         /\ \A s \in D : s \subseteq 1..m => g[s] = FoldStep(lines, g, s)
           Ms == {m \in Nat : \E g : Upto(m, g)}
<1>1. 0 \in Ms
  <2>1. Upto(0, [s \in D |-> << >>])
    <3>1. \A s \in D : s \subseteq 1..0 => s = {}
      OBVIOUS
    <3> QED
      BY <3>1 DEF FoldStep
  <2> QED
    BY <2>1
<1>2. ASSUME NEW m \in Ms PROVE m + 1 \in Ms
  <2>0. m \in Nat /\ m + 1 \in Nat
    OBVIOUS
  <2>1. PICK g : Upto(m, g)
    OBVIOUS
  <2> DEFINE h == [s \in D |-> IF s \subseteq 1..m THEN g[s] ELSE FoldStep(lines, g, s)]
  <2>2. ASSUME NEW s \in D, s \subseteq 1..m + 1 PROVE h[s] = FoldStep(lines, h, s)
    <3>1. CASE s = {}
      <4>1. s \subseteq 1..m
        BY <3>1
      <4> QED
        BY <2>1, <3>1, <4>1 DEF FoldStep
    <3>2. CASE s # {}
      <4> DEFINE r == s \ {Max(s)}
      <4>1. r \in D /\ r \subseteq 1..m
        BY <2>0, <2>2, <3>2, BeforeTheLast
      <4>2. h[r] = g[r]
        BY <4>1
      <4> HIDE DEF h
      <4>3. FoldStep(lines, h, s) = FoldStep(lines, g, s)
        BY <3>2, <4>2 DEF FoldStep
      <4>4. h[s] = FoldStep(lines, g, s)
        BY <2>1 DEF h
      <4> QED
        BY <4>3, <4>4
    <3> QED
      BY <3>1, <3>2
  <2>3. Upto(m + 1, h)
    <3>1. h = [s \in D |-> h[s]]
      OBVIOUS
    <3> QED
      BY <2>2, <3>1
  <2> HIDE DEF h, Upto
  <2> QED
    BY <2>0, <2>3
<1>3. Ms = Nat
  <2> HIDE DEF Ms
  <2>1. Ms \subseteq Nat
    BY DEF Ms
  <2> QED
    BY <1>1, <1>2, <2>1, AllNaturals
<1>4. PICK g : Upto(n, g)
  <2>1. n \in Ms
    BY <1>3
  <2> QED
    BY <2>1
<1>5. g = [s \in D |-> FoldStep(lines, g, s)]
  <2>1. \A s \in D : g[s] = FoldStep(lines, g, s)
    BY <1>4
  <2>2. g = [s \in D |-> g[s]]
    BY <1>4
  <2> QED
    BY <2>1, <2>2
<1> QED
  BY <1>5

Iterates(lines, n, g) == \A s \in SUBSET (1..n) : g[s] = FoldStep(lines, g, s)
Runs(lines, n, result) ==
  \E h : /\ h[0] = << >> /\ h[n] = result
         /\ \A m \in 1..n : h[m] = AddEvent(h[m - 1], lines[m])

LEMMA FoldRuns ==
  ASSUME NEW lines, NEW n \in Nat, NEW g, Iterates(lines, n, g)
  PROVE  Runs(lines, n, g[1..n])
<1> DEFINE h == [m \in 0..n |-> g[1..m]]
<1>1. h[0] = << >>
  <2>1. 1..0 = {} /\ {} \in SUBSET (1..n) /\ 0 \in 0..n
    OBVIOUS
  <2> QED
    BY <2>1 DEF FoldStep, Iterates
<1>2. h[n] = g[1..n]
  OBVIOUS
<1>3. ASSUME NEW m \in 1..n PROVE h[m] = AddEvent(h[m - 1], lines[m])
  <2> DEFINE s == 1..m
  <2>1. s \in SUBSET (1..n) /\ m \in s /\ s # {} /\ m \in 0..n /\ m - 1 \in 0..n
    OBVIOUS
  <2>2. Max(s) = m
    <3>1. s \subseteq 0..n
      OBVIOUS
    <3>2. Max(s) \in s /\ \A y \in s : y <= Max(s)
      BY <2>1, <3>1, MaxMeaning
    <3> HIDE DEF s
    <3>3. m <= Max(s)
      BY <2>1, <3>2
    <3> QED
      BY <3>2, <3>3 DEF s
  <2>3. s \ {m} = 1..m - 1
    OBVIOUS
  <2>4. h[m] = g[s] /\ h[m - 1] = g[1..m - 1]
    BY <2>1
  <2> HIDE DEF s, h
  <2>5. g[s] = AddEvent(g[s \ {Max(s)}], lines[Max(s)])
    BY <2>1 DEF FoldStep, Iterates
  <2> QED
    BY <2>2, <2>3, <2>4, <2>5
<1> HIDE DEF h
<1> QED
  BY <1>1, <1>2, <1>3 DEF Runs

ReadIter(lines) ==
  CHOOSE g : g = [s \in SUBSET DOMAIN lines |->
                    IF s = {} THEN << >> ELSE AddEvent(g[s \ {Max(s)}], lines[Max(s)])]
LEMMA ReadableFolds == \A lines : Readable(lines) = ReadIter(lines)[DOMAIN lines]
  BY Zenon DEF Readable, FoldLeft, MapThenFoldSet, ReadIter

\* Decode, line by line.
LEMMA ReadableMeaning ==
  ASSUME NEW lines, NEW n \in Nat, DOMAIN lines = 1..n
  PROVE  \E h : /\ h[0] = << >> /\ h[n] = Readable(lines)
                /\ \A m \in 1..n : h[m] = AddEvent(h[m - 1], lines[m])
<1> DEFINE StepOf(g, s) == IF s = {} THEN << >> ELSE AddEvent(g[s \ {Max(s)}], lines[Max(s)])
<1>1. PICK f : f = [s \in SUBSET (1..n) |-> FoldStep(lines, f, s)]
  BY FoldExists
<1>2. \A g, s : FoldStep(lines, g, s) = StepOf(g, s)
  BY DEF FoldStep
<1>3. f = [s \in SUBSET DOMAIN lines |-> StepOf(f, s)]
  BY <1>1, <1>2
<1>4. ReadIter(lines) = [s \in SUBSET DOMAIN lines |-> StepOf(ReadIter(lines), s)]
  <2>1. ReadIter(lines) = CHOOSE g : g = [s \in SUBSET DOMAIN lines |-> StepOf(g, s)]
    BY DEF ReadIter
  <2> HIDE DEF StepOf
  <2> QED
    BY Zenon, <1>3, <2>1
<1>5. Iterates(lines, n, ReadIter(lines))
  <2> HIDE DEF StepOf
  <2> QED
    BY <1>2, <1>4 DEF Iterates
<1>6. Runs(lines, n, ReadIter(lines)[1..n])
  BY <1>5, FoldRuns
<1> QED
  BY <1>6, ReadableFolds DEF Runs

\* Aggregate, event by event.
ScanBase == [open |-> << >>, closed |-> << >>]
ScanNext(f, n) == IF n = 0 THEN ScanBase ELSE AddLine(f[n - 1], typed[n])

LEMMA ScanExists ==
  ASSUME Len(typed) \in Nat
  PROVE  \E f : f = [n \in 0..Len(typed) |-> ScanNext(f, n)]
<1> DEFINE D == 0..Len(typed)
           Upto(m, f) == /\ f = [n \in D |-> f[n]]
                         /\ \A n \in D : n <= m => f[n] = ScanNext(f, n)
           Ms == {m \in Nat : \E f : Upto(m, f)}
<1>1. 0 \in Ms
  <2>1. Upto(0, [n \in D |-> ScanBase])
    <3>1. \A n \in D : n <= 0 => n = 0
      OBVIOUS
    <3> QED
      BY <3>1 DEF ScanNext
  <2> QED
    BY <2>1
<1>2. ASSUME NEW m \in Ms PROVE m + 1 \in Ms
  <2>0. m \in Nat /\ m + 1 \in Nat
    OBVIOUS
  <2>1. PICK f : Upto(m, f)
    OBVIOUS
  <2> DEFINE h == [n \in D |-> IF n <= m THEN f[n] ELSE ScanNext(f, n)]
  <2>2. ASSUME NEW n \in D, n <= m + 1 PROVE h[n] = ScanNext(h, n)
    <3>1. CASE n = 0
      BY <2>0, <2>1, <3>1 DEF ScanNext
    <3>2. CASE n # 0
      <4>1. n - 1 \in D /\ n - 1 <= m
        BY <2>0, <2>2, <3>2
      <4>2. h[n - 1] = f[n - 1]
        BY <4>1
      <4> HIDE DEF h
      <4>3. ScanNext(h, n) = ScanNext(f, n)
        BY <3>2, <4>2 DEF ScanNext
      <4>4. h[n] = ScanNext(f, n)
        BY <2>1 DEF h
      <4> QED
        BY <4>3, <4>4
    <3> QED
      BY <3>1, <3>2
  <2>3. Upto(m + 1, h)
    <3>1. h = [n \in D |-> h[n]]
      OBVIOUS
    <3> QED
      BY <2>2, <3>1
  <2> HIDE DEF h, Upto
  <2> QED
    BY <2>0, <2>3
<1>3. Ms = Nat
  <2> HIDE DEF Ms
  <2>1. Ms \subseteq Nat
    BY DEF Ms
  <2> QED
    BY <1>1, <1>2, <2>1, AllNaturals
<1>4. PICK f : Upto(Len(typed), f)
  <2>1. Len(typed) \in Ms
    BY <1>3
  <2> QED
    BY <2>1
<1>5. f = [n \in D |-> ScanNext(f, n)]
  <2>1. \A n \in D : f[n] = ScanNext(f, n)
    BY <1>4
  <2>2. f = [n \in D |-> f[n]]
    BY <1>4
  <2> QED
    BY <2>1, <2>2
<1> QED
  BY <1>5

LEMMA ScanMeaning ==
  ASSUME Len(typed) \in Nat
  PROVE  /\ Scan[0] = ScanBase
         /\ \A m \in 1..Len(typed) : Scan[m] = AddLine(Scan[m - 1], typed[m])
<1>1. Scan = CHOOSE f : f = [n \in 0..Len(typed) |-> ScanNext(f, n)]
  BY DEF Scan, ScanNext, ScanBase
<1>2. Scan = [n \in 0..Len(typed) |-> ScanNext(Scan, n)]
  BY Zenon, <1>1, ScanExists
<1>3. \A n \in 0..Len(typed) : Scan[n] = ScanNext(Scan, n)
  BY <1>2
<1>4. 0 \in 0..Len(typed) /\ \A m \in 1..Len(typed) : m \in 0..Len(typed) /\ m # 0
  OBVIOUS
<1> QED
  BY <1>3, <1>4 DEF ScanNext
-----------------------------------------------------------------------------
\* The typed events are logs of the lines of the file, in the order of the file.
PickedUpTo(events, lines, m) ==
  /\ events \in Seq(1..N)
  /\ \E at \in [1..Len(events) -> 1..m] :
       /\ \A a, b \in 1..Len(events) : a < b => at[a] < at[b]
       /\ \A a \in 1..Len(events) : lines[at[a]].log = events[a]
Picked(events, lines) == PickedUpTo(events, lines, Len(lines))

LEMMA PickedLonger ==
  ASSUME NEW events, NEW lines, NEW more, NEW m \in Nat, NEW n \in Nat, m <= n,
         \A d \in 1..m : more[d] = lines[d], PickedUpTo(events, lines, m)
  PROVE  PickedUpTo(events, more, n)
<1>1. PICK at \in [1..Len(events) -> 1..m] :
         /\ \A a, b \in 1..Len(events) : a < b => at[a] < at[b]
         /\ \A a \in 1..Len(events) : lines[at[a]].log = events[a]
  BY DEF PickedUpTo
<1>2. 1..m \subseteq 1..n
  OBVIOUS
<1>3. at \in [1..Len(events) -> 1..n]
  BY <1>2
<1>4. \A a \in 1..Len(events) : more[at[a]].log = events[a]
  BY <1>1
<1>5. events \in Seq(1..N)
  BY DEF PickedUpTo
<1> QED
  BY <1>1, <1>3, <1>4, <1>5 DEF PickedUpTo

LEMMA PickedOneMore ==
  ASSUME NEW events, NEW lines, NEW m \in Nat, m # 0, PickedUpTo(events, lines, m - 1),
         NEW i \in 1..N, lines[m].log = i
  PROVE  PickedUpTo(Append(events, i), lines, m)
<1> DEFINE L == Len(events)
           longer == Append(events, i)
<1>1. events \in Seq(1..N)
  BY DEF PickedUpTo
<1>2. /\ L \in Nat /\ longer \in Seq(1..N) /\ Len(longer) = L + 1
      /\ longer[L + 1] = i /\ \A a \in 1..L : longer[a] = events[a]
  BY <1>1
<1>3. PICK at \in [1..L -> 1..m - 1] :
         /\ \A a, b \in 1..L : a < b => at[a] < at[b]
         /\ \A a \in 1..L : lines[at[a]].log = events[a]
  BY DEF PickedUpTo
<1> DEFINE on == [a \in 1..L + 1 |-> IF a = L + 1 THEN m ELSE at[a]]
<1> HIDE DEF longer, L
<1>4. \A a \in 1..L + 1 : a = L + 1 \/ a \in 1..L
  BY <1>2
<1>5. \A a \in 1..L : at[a] \in 1..m - 1 /\ on[a] = at[a] /\ a # L + 1
  BY <1>2, <1>3
<1>6. on[L + 1] = m
  BY <1>2
<1>7. on \in [1..L + 1 -> 1..m]
  <2>1. \A a \in 1..L + 1 : on[a] \in 1..m
    BY <1>4, <1>5, <1>6
  <2> QED
    BY <2>1
<1> HIDE DEF on
<1>8. ASSUME NEW a \in 1..L + 1, NEW b \in 1..L + 1, a < b PROVE on[a] < on[b]
  <2>1. a \in 1..L
    BY <1>2, <1>4, <1>8
  <2>2. CASE b = L + 1
    <3>1. on[a] \in 1..m - 1
      BY <1>5, <2>1
    <3> QED
      BY <1>6, <2>2, <3>1
  <2>3. CASE b \in 1..L
    BY <1>3, <1>5, <1>8, <2>1, <2>3
  <2> QED
    BY <1>4, <2>2, <2>3
<1>9. \A a \in 1..L + 1 : lines[on[a]].log = longer[a]
  BY <1>2, <1>3, <1>4, <1>5, <1>6
<1>10. on \in [1..Len(longer) -> 1..m]
  BY <1>2, <1>7
<1>11. /\ \A a, b \in 1..Len(longer) : a < b => on[a] < on[b]
       /\ \A a \in 1..Len(longer) : lines[on[a]].log = longer[a]
  BY Zenon, <1>2, <1>8, <1>9
<1>12. PickedUpTo(longer, lines, m)
  BY <1>2, <1>10, <1>11 DEF PickedUpTo
<1> QED
  BY <1>12 DEF longer

LEMMA ReadablePicked ==
  ASSUME NEW lines, Climbs(lines)
  PROVE  Picked(Readable(lines), lines)
<1> DEFINE n == Len(lines)
<1>1. n \in Nat /\ DOMAIN lines = 1..n /\ \A m \in 1..n : lines[m].log \in 1..N
  BY LineFacts
<1>2. PICK h : /\ h[0] = << >> /\ h[n] = Readable(lines)
               /\ \A m \in 1..n : h[m] = AddEvent(h[m - 1], lines[m])
  BY <1>1, ReadableMeaning
<1> DEFINE S == {m \in 0..n : PickedUpTo(h[m], lines, m)}
<1>3. 0 \in S
  <2>1. << >> \in Seq(1..N) /\ Len(<< >>) = 0 /\ 1..0 = {}
    OBVIOUS
  <2>2. PickedUpTo(<< >>, lines, 0)
    <3>1. << >> \in [1..0 -> 1..0]
      BY <2>1
    <3> QED
      BY <2>1, <3>1 DEF PickedUpTo
  <2> QED
    BY <1>1, <1>2, <2>2
<1>4. ASSUME NEW m \in 1..n, m - 1 \in S PROVE m \in S
  <2>1. /\ m \in Nat /\ m # 0 /\ m \in 0..n /\ m - 1 \in Nat /\ m - 1 <= m
        /\ PickedUpTo(h[m - 1], lines, m - 1) /\ lines[m].log \in 1..N
    BY <1>1, <1>4
  <2>2. h[m] = AddEvent(h[m - 1], lines[m])
    BY <1>2
  <2>3. CASE lines[m].readable
    <3>1. h[m] = Append(h[m - 1], lines[m].log)
      BY <2>2, <2>3 DEF AddEvent
    <3>2. PickedUpTo(h[m], lines, m)
      BY <2>1, <3>1, PickedOneMore
    <3> QED
      BY <2>1, <3>2
  <2>4. CASE ~lines[m].readable
    <3>1. h[m] = h[m - 1]
      BY <2>2, <2>4 DEF AddEvent
    <3>2. PickedUpTo(h[m], lines, m)
      BY <2>1, <3>1, PickedLonger
    <3> QED
      BY <2>1, <3>2
  <2> QED
    BY <2>3, <2>4
<1>5. n \in S
  <2> HIDE DEF S
  <2>1. \A m \in 0..n : m \in S
    BY <1>1, <1>3, <1>4, StepByStep
  <2> QED
    BY <1>1, <2>1
<1> QED
  BY <1>2, <1>5 DEF Picked

\* What is left of the events when decode dies.
LEMMA PickedFirst ==
  ASSUME NEW events, NEW lines, Picked(events, lines), NEW n \in 0..Len(events)
  PROVE  Picked(SubSeq(events, 1, n), lines)
<1> DEFINE first == SubSeq(events, 1, n)
<1>1. events \in Seq(1..N) /\ Len(events) \in Nat /\ n \in Nat /\ n <= Len(events)
  BY DEF Picked, PickedUpTo
<1>2. first \in Seq(1..N) /\ Len(first) = n /\ \A a \in 1..n : first[a] = events[a]
  <2>1. \A i \in 1..n : events[i] \in 1..N
    <3>1. \A i \in 1..Len(events) : events[i] \in 1..N
      BY <1>1, ElementsTyped
    <3>2. 1..n \subseteq 1..Len(events)
      BY <1>1
    <3> QED
      BY <3>1, <3>2
  <2>2. /\ first \in Seq(1..N) /\ Len(first) = IF 1 <= n THEN n - 1 + 1 ELSE 0
        /\ \A a \in 1..n - 1 + 1 : first[a] = events[1 + a - 1]
    BY <1>1, <2>1, SubSeqProperties
  <2>3. n - 1 + 1 = n /\ \A a \in 1..n : 1 + a - 1 = a
    BY <1>1
  <2> HIDE DEF first
  <2> QED
    BY <1>1, <2>2, <2>3
<1>3. PICK at \in [1..Len(events) -> 1..Len(lines)] :
         /\ \A a, b \in 1..Len(events) : a < b => at[a] < at[b]
         /\ \A a \in 1..Len(events) : lines[at[a]].log = events[a]
  BY DEF Picked, PickedUpTo
<1>4. 1..n \subseteq 1..Len(events)
  BY <1>1
<1> DEFINE on == [a \in 1..n |-> at[a]]
<1>5. on \in [1..n -> 1..Len(lines)] /\ \A a \in 1..n : on[a] = at[a]
  BY <1>3, <1>4
<1> HIDE DEF on, first
<1>6. /\ \A a, b \in 1..n : a < b => on[a] < on[b]
      /\ \A a \in 1..n : lines[on[a]].log = first[a]
  BY <1>2, <1>3, <1>4, <1>5
<1> QED
  BY <1>2, <1>5, <1>6 DEF Picked, PickedUpTo, first

LEMMA InitPicked == Init => Picked(typed, raw)
<1> SUFFICES ASSUME Init PROVE Picked(typed, raw)
  OBVIOUS
<1>1. typed = << >> /\ raw = << >> /\ Len(typed) = 0
  BY DEF Init
<1>2. typed \in Seq(1..N) /\ 1..Len(typed) = {} /\ typed \in [1..Len(typed) -> 1..Len(raw)]
  BY <1>1
<1> QED
  BY <1>2 DEF Picked, PickedUpTo

LEMMA NextPicked ==
  ASSUME RawInv, Picked(typed, raw), [Next]_vars
  PROVE  Picked(typed', raw')
<1>0. Climbs(raw) /\ Len(raw) \in Nat
  BY DEF RawInv, Climbs
<1>1. CASE DecodeAll
  BY <1>0, <1>1, ReadablePicked DEF DecodeAll
<1>2. CASE DecodeDies
  <2>1. raw' = raw /\ \E n \in 0..Len(Readable(raw)) : typed' = SubSeq(Readable(raw), 1, n)
    BY <1>2 DEF DecodeDies
  <2>2. Picked(Readable(raw), raw)
    BY <1>0, ReadablePicked
  <2> QED
    BY <2>1, <2>2, PickedFirst
<1>3. CASE typed' = typed
  <2>1. Kept(raw, raw') /\ RawInv'
    BY NextRaw
  <2>2. Len(raw') \in Nat
    BY <2>1 DEF RawInv, Climbs
  <2> QED
    BY <1>0, <1>3, <2>1, <2>2, PickedLonger DEF Kept, Picked
<1> QED
  BY <1>1, <1>2, <1>3
  DEF Next, vars, ChainGrows, RunBatch, RunDies, AggregateAll, AggregateDiesScanning,
      AggregateDiesAtEnd, AggregateLosesCommit, Stores
-----------------------------------------------------------------------------
\* A window none of whose logs is repeated: its logs stand once and in one piece, as far as
\* their pool goes.
Unrepeated(k) == \A i \in InWindow(k) : ~Repeated(i)

LEMMA OnceInFile ==
  ASSUME RawInv, NEW k, Unrepeated(k),
         NEW a \in 1..Len(raw), NEW b \in 1..Len(raw), a # b, KeyOf(raw[a].log) = k
  PROVE  raw[a].log # raw[b].log
<1>1. Len(raw) \in Nat /\ DOMAIN raw = 1..Len(raw) /\ \A d \in 1..Len(raw) : raw[d].log \in 1..N
  BY LineFacts DEF RawInv
<1>2. raw[a].log \in InWindow(k)
  BY <1>1, LogFacts DEF InWindow
<1> QED
  BY <1>1, <1>2 DEF Unrepeated, Repeated

LEMMA OnePieceInFile ==
  ASSUME RawInv, NEW k, Unrepeated(k),
         NEW a \in 1..Len(raw), NEW c \in 1..Len(raw), NEW b \in 1..Len(raw), a < c, c < b,
         KeyOf(raw[a].log) = k, KeyOf(raw[b].log) = k,
         Logs[raw[c].log].pool = Logs[raw[a].log].pool
  PROVE  KeyOf(raw[c].log) = k
<1> DEFINE i == raw[a].log
           m == raw[c].log
           j == raw[b].log
<1>0. Climbs(raw) /\ Len(raw) \in Nat /\ i \in 1..N /\ m \in 1..N /\ j \in 1..N
  BY LineFacts DEF RawInv
<1>1. i < j
  <2>1. ASSUME j <= i PROVE FALSE
    <3>1. PICK d \in 1..a : raw[d].log = j
      BY <1>0, <2>1, PassedBefore
    <3>2. d \in 1..Len(raw) /\ d # b
      BY <1>0, <3>1
    <3> QED
      BY <3>1, <3>2, OnceInFile
  <2> QED
    BY <1>0, <2>1, LogFacts
<1>2. i <= m
  <2>1. ASSUME m < i PROVE FALSE
    <3>1. PICK d \in c + 1..b : raw[d].log = i
      <4>1. i <= j
        BY <1>0, <1>1, LogFacts
      <4> QED
        BY <1>0, <2>1, <4>1, Passed
    <3>2. d \in 1..Len(raw) /\ d # a
      BY <1>0, <3>1
    <3> QED
      BY <3>1, <3>2, OnceInFile
  <2> QED
    BY <1>0, <2>1, LogFacts
<1>3. m <= j
  <2>1. ASSUME j < m PROVE FALSE
    <3>1. PICK d \in a + 1..c : raw[d].log = j
      <4>1. j <= m
        BY <1>0, <2>1, LogFacts
      <4> QED
        BY <1>0, <1>1, <4>1, Passed
    <3>2. d \in 1..Len(raw) /\ d # b
      BY <1>0, <3>1
    <3> QED
      BY <3>1, <3>2, OnceInFile
  <2> QED
    BY <1>0, <2>1, LogFacts
<1> QED
  BY <1>0, <1>2, <1>3, NothingBetween

\* The same of the typed events.
LEMMA OnceInTyped ==
  ASSUME RawInv, Picked(typed, raw), NEW k, Unrepeated(k),
         NEW a \in 1..Len(typed), NEW b \in 1..Len(typed), a # b, KeyOf(typed[a]) = k
  PROVE  typed[a] # typed[b]
<1>1. PICK at \in [1..Len(typed) -> 1..Len(raw)] :
         /\ \A c, d \in 1..Len(typed) : c < d => at[c] < at[d]
         /\ \A c \in 1..Len(typed) : raw[at[c]].log = typed[c]
  BY DEF Picked, PickedUpTo
<1>2. typed \in Seq(1..N) /\ Len(typed) \in Nat /\ Len(raw) \in Nat
  BY DEF Picked, PickedUpTo, RawInv, Climbs
<1>3. at[a] \in 1..Len(raw) /\ at[b] \in 1..Len(raw)
  BY <1>1
<1>4. at[a] # at[b]
  <2>1. a < b \/ b < a
    BY <1>2
  <2> QED
    BY <1>1, <1>2, <1>3, <2>1
<1> QED
  BY <1>1, <1>3, <1>4, OnceInFile

LEMMA OnePieceInTyped ==
  ASSUME RawInv, Picked(typed, raw), NEW k, Unrepeated(k),
         NEW a \in 1..Len(typed), NEW c \in 1..Len(typed), NEW b \in 1..Len(typed), a < c, c < b,
         KeyOf(typed[a]) = k, KeyOf(typed[b]) = k,
         Logs[typed[c]].pool = Logs[typed[a]].pool
  PROVE  KeyOf(typed[c]) = k
<1>1. PICK at \in [1..Len(typed) -> 1..Len(raw)] :
         /\ \A d, e \in 1..Len(typed) : d < e => at[d] < at[e]
         /\ \A d \in 1..Len(typed) : raw[at[d]].log = typed[d]
  BY DEF Picked, PickedUpTo
<1>2. at[a] \in 1..Len(raw) /\ at[c] \in 1..Len(raw) /\ at[b] \in 1..Len(raw)
  BY <1>1
<1>3. at[a] < at[c] /\ at[c] < at[b]
  BY <1>1
<1>4. raw[at[a]].log = typed[a] /\ raw[at[c]].log = typed[c] /\ raw[at[b]].log = typed[b]
  BY <1>1
<1>5. KeyOf(raw[at[c]].log) = k
  BY <1>2, <1>3, <1>4, OnePieceInFile
<1> QED
  BY <1>4, <1>5
-----------------------------------------------------------------------------
\* One event of the scan.
LEMMA AddLineMeaning ==
  ASSUME NEW agg, NEW i, ~Skipped(i), NEW more, more = AddLine(agg, i),
         NEW p, p = Logs[i].pool
  PROVE  /\ DOMAIN more.open = DOMAIN agg.open \cup {p}
         /\ more.open[p].window = WindowOf(Logs[i].ts)
         /\ more.open[p].logs = IF SameWindow(agg, i) THEN Append(agg.open[p].logs, i) ELSE <<i>>
         /\ \A r \in DOMAIN agg.open : r # p => more.open[r] = agg.open[r]
         /\ Moves(agg, i) =>
              /\ DOMAIN more.closed = DOMAIN agg.closed \cup {KeyOfOpen(agg, p)}
              /\ more.closed[KeyOfOpen(agg, p)] = agg.open[p].logs
              /\ \A q \in DOMAIN agg.closed :
                   q # KeyOfOpen(agg, p) => more.closed[q] = agg.closed[q]
         /\ ~Moves(agg, i) => more.closed = agg.closed
<1> DEFINE w == WindowOf(Logs[i].ts)
           grown == IF SameWindow(agg, i) THEN Append(agg.open[p].logs, i) ELSE <<i>>
           next == [window |-> w, logs |-> grown]
           open == Put(agg.open, p, next)
           closed == IF Moves(agg, i) THEN Put(agg.closed, KeyOfOpen(agg, p), agg.open[p].logs)
                     ELSE agg.closed
<1>1. more = [open |-> open, closed |-> closed]
  BY DEF AddLine, SameWindow, Moves, KeyOfOpen
<1> HIDE DEF open, closed
<1>2. more.open = open /\ more.closed = closed
  BY <1>1
<1>3. /\ DOMAIN open = DOMAIN agg.open \cup {p} /\ open[p] = next
      /\ \A r \in DOMAIN agg.open : r # p => open[r] = agg.open[r]
  <2> HIDE DEF next
  <2> QED
    BY DEF open, Put
<1>4. next.window = w /\ next.logs = IF SameWindow(agg, i) THEN Append(agg.open[p].logs, i) ELSE <<i>>
  OBVIOUS
<1>5. Moves(agg, i) =>
        /\ DOMAIN closed = DOMAIN agg.closed \cup {KeyOfOpen(agg, p)}
        /\ closed[KeyOfOpen(agg, p)] = agg.open[p].logs
        /\ \A q \in DOMAIN agg.closed : q # KeyOfOpen(agg, p) => closed[q] = agg.closed[q]
  <2> DEFINE key == KeyOfOpen(agg, p)
             logs == agg.open[p].logs
  <2> HIDE DEF key, logs
  <2>1. Moves(agg, i) => closed = Put(agg.closed, key, logs)
    BY DEF closed, key, logs
  <2>2. Moves(agg, i) =>
          /\ DOMAIN closed = DOMAIN agg.closed \cup {key} /\ closed[key] = logs
          /\ \A q \in DOMAIN agg.closed : q # key => closed[q] = agg.closed[q]
    BY <2>1 DEF Put
  <2> QED
    BY <2>2 DEF key, logs
<1>6. ~Moves(agg, i) => closed = agg.closed
  BY DEF closed
<1> HIDE DEF next
<1> QED
  BY <1>2, <1>3, <1>4, <1>5, <1>6

LEMMA AddLineGrows ==
  ASSUME NEW agg, NEW i, NEW more, more = AddLine(agg, i)
  PROVE  /\ ~Skipped(i) => Logs[i].pool \in DOMAIN more.open
         /\ DOMAIN agg.closed \subseteq DOMAIN more.closed
<1>1. CASE Skipped(i)
  BY <1>1 DEF AddLine
<1>2. CASE ~Skipped(i) /\ Moves(agg, i)
  BY <1>2 DEF AddLine, Put
<1>3. CASE ~Skipped(i) /\ ~Moves(agg, i)
  BY <1>3 DEF AddLine, Put
<1> QED
  BY <1>1, <1>2, <1>3

\* What is open and closed after m events: logs of them that are not skipped, each in the
\* window it is of; and each such window is there.
Of(key, m) == {typed[a] : a \in {b \in 1..m : ~Skipped(typed[b]) /\ KeyOf(typed[b]) = key}}
LogsOf(logs, key, m) == logs \in Seq(Of(key, m)) /\ logs # << >>
ScanInv(agg, m) ==
  /\ \A p \in DOMAIN agg.open : LogsOf(agg.open[p].logs, KeyOfOpen(agg, p), m)
  /\ \A q \in DOMAIN agg.closed : LogsOf(agg.closed[q], q, m)
  /\ \A a \in 1..m : ~Skipped(typed[a]) =>
       \/ KeyOf(typed[a]) \in DOMAIN agg.closed
       \/ \E p \in DOMAIN agg.open : KeyOfOpen(agg, p) = KeyOf(typed[a])

LEMMA LogsOfGrow ==
  ASSUME NEW m \in Nat, NEW n \in Nat, m <= n, NEW key, NEW logs, LogsOf(logs, key, m)
  PROVE  LogsOf(logs, key, n)
<1>1. Of(key, m) \subseteq Of(key, n)
  <2>1. 1..m \subseteq 1..n
    OBVIOUS
  <2> QED
    BY <2>1 DEF Of
<1>2. logs \in Seq(Of(key, m)) /\ logs # << >>
  BY DEF LogsOf
<1>3. Len(logs) \in Nat /\ logs = [a \in 1..Len(logs) |-> logs[a]]
  BY <1>2
<1>4. \A a \in 1..Len(logs) : logs[a] \in Of(key, n)
  BY <1>1, <1>2, ElementsTyped
<1>5. logs \in Seq(Of(key, n))
  BY <1>2, <1>3, <1>4, SeqDef
<1> QED
  BY <1>2, <1>5 DEF LogsOf

LEMMA ScanStep ==
  ASSUME NEW m \in Nat, m # 0, NEW agg, ScanInv(agg, m - 1)
  PROVE  ScanInv(AddLine(agg, typed[m]), m)
<1> DEFINE i == typed[m]
           more == AddLine(agg, i)
           p == Logs[i].pool
<1>0. m - 1 \in Nat /\ m - 1 <= m /\ \A a \in 1..m : a = m \/ a \in 1..m - 1
  OBVIOUS
<1>1. /\ \A r \in DOMAIN agg.open : LogsOf(agg.open[r].logs, KeyOfOpen(agg, r), m)
      /\ \A q \in DOMAIN agg.closed : LogsOf(agg.closed[q], q, m)
  BY <1>0, LogsOfGrow DEF ScanInv
<1>2. \A a \in 1..m - 1 : ~Skipped(typed[a]) =>
        \/ KeyOf(typed[a]) \in DOMAIN agg.closed
        \/ \E r \in DOMAIN agg.open : KeyOfOpen(agg, r) = KeyOf(typed[a])
  BY DEF ScanInv
<1>3. CASE Skipped(i)
  <2>1. more = agg
    BY <1>3 DEF AddLine
  <2>2. \A a \in 1..m : ~Skipped(typed[a]) => a \in 1..m - 1
    BY <1>0, <1>3
  <2> HIDE DEF more
  <2> QED
    BY <1>1, <1>2, <2>1, <2>2 DEF ScanInv, more
<1>4. CASE ~Skipped(i)
  <2> HIDE DEF more, p
  <2>1. /\ DOMAIN more.open = DOMAIN agg.open \cup {p}
        /\ more.open[p].window = WindowOf(Logs[i].ts)
        /\ more.open[p].logs = IF SameWindow(agg, i) THEN Append(agg.open[p].logs, i) ELSE <<i>>
        /\ \A r \in DOMAIN agg.open : r # p => more.open[r] = agg.open[r]
        /\ Moves(agg, i) =>
             /\ DOMAIN more.closed = DOMAIN agg.closed \cup {KeyOfOpen(agg, p)}
             /\ more.closed[KeyOfOpen(agg, p)] = agg.open[p].logs
             /\ \A q \in DOMAIN agg.closed :
                  q # KeyOfOpen(agg, p) => more.closed[q] = agg.closed[q]
        /\ ~Moves(agg, i) => more.closed = agg.closed
    BY <1>4, AddLineMeaning DEF more, p
  <2>2. KeyOfOpen(more, p) = KeyOf(i)
    BY <2>1 DEF KeyOfOpen, KeyOf, p
  <2>3. i \in Of(KeyOf(i), m)
    BY <1>4 DEF Of
  <2>4. LogsOf(more.open[p].logs, KeyOf(i), m)
    <3>1. CASE SameWindow(agg, i)
      <4>1. p \in DOMAIN agg.open /\ KeyOfOpen(agg, p) = KeyOf(i)
        BY <3>1 DEF SameWindow, KeyOfOpen, KeyOf, p
      <4>2. agg.open[p].logs \in Seq(Of(KeyOf(i), m))
        BY <1>1, <4>1 DEF LogsOf
      <4>3. /\ Append(agg.open[p].logs, i) \in Seq(Of(KeyOf(i), m))
            /\ Append(agg.open[p].logs, i) # << >>
        BY <2>3, <4>2, AppendMeaning
      <4> QED
        BY <2>1, <3>1, <4>3 DEF LogsOf
    <3>2. CASE ~SameWindow(agg, i)
      <4>1. <<i>> \in Seq(Of(KeyOf(i), m)) /\ <<i>> # << >>
        BY <2>3
      <4> QED
        BY <2>1, <3>2, <4>1 DEF LogsOf
    <3> QED
      BY <3>1, <3>2
  <2>5. \A r \in DOMAIN more.open : LogsOf(more.open[r].logs, KeyOfOpen(more, r), m)
    <3>1. ASSUME NEW r \in DOMAIN agg.open, r # p
          PROVE  more.open[r].logs = agg.open[r].logs /\ KeyOfOpen(more, r) = KeyOfOpen(agg, r)
      BY <2>1, <3>1 DEF KeyOfOpen
    <3> QED
      BY <1>1, <2>1, <2>2, <2>4, <3>1
  <2>6. \A q \in DOMAIN more.closed : LogsOf(more.closed[q], q, m)
    <3>1. CASE Moves(agg, i)
      <4>1. p \in DOMAIN agg.open
        BY <3>1 DEF Moves, p
      <4>2. LogsOf(more.closed[KeyOfOpen(agg, p)], KeyOfOpen(agg, p), m)
        BY <1>1, <2>1, <3>1, <4>1
      <4> QED
        BY <1>1, <2>1, <3>1, <4>2
    <3>2. CASE ~Moves(agg, i)
      BY <1>1, <2>1, <3>2
    <3> QED
      BY <3>1, <3>2
  <2>7. ASSUME NEW a \in 1..m, ~Skipped(typed[a])
        PROVE  \/ KeyOf(typed[a]) \in DOMAIN more.closed
               \/ \E r \in DOMAIN more.open : KeyOfOpen(more, r) = KeyOf(typed[a])
    <3>1. CASE a = m
      BY <2>1, <2>2, <3>1
    <3>2. CASE a \in 1..m - 1 /\ KeyOf(typed[a]) \in DOMAIN agg.closed
      BY <2>1, <3>2
    <3>3. CASE a \in 1..m - 1 /\ \E r \in DOMAIN agg.open : KeyOfOpen(agg, r) = KeyOf(typed[a])
      <4>1. PICK r \in DOMAIN agg.open : KeyOfOpen(agg, r) = KeyOf(typed[a])
        BY <3>3
      <4>2. CASE r # p
        <5>1. r \in DOMAIN more.open /\ KeyOfOpen(more, r) = KeyOfOpen(agg, r)
          BY <2>1, <4>2 DEF KeyOfOpen
        <5> QED
          BY <4>1, <5>1
      <4>3. CASE r = p /\ SameWindow(agg, i)
        <5>1. KeyOfOpen(agg, p) = KeyOfOpen(more, p) /\ p \in DOMAIN more.open
          BY <2>1, <4>3 DEF SameWindow, KeyOfOpen, p
        <5> QED
          BY <4>1, <4>3, <5>1
      <4>4. CASE r = p /\ ~SameWindow(agg, i)
        <5>1. Moves(agg, i)
          BY <4>1, <4>4 DEF Moves, p
        <5> QED
          BY <2>1, <4>1, <4>4, <5>1
      <4> QED
        BY <4>2, <4>3, <4>4
    <3> QED
      BY <1>0, <1>2, <2>7, <3>1, <3>2, <3>3
  <2> QED
    BY <2>5, <2>6, <2>7 DEF ScanInv, more
<1> QED
  BY <1>3, <1>4

\* A window without repeated or skipped logs, during the scan: none of its logs has come yet,
\* or all that have come are in its pool's open window, or all there are have been closed.
SoFar(key, m) == {typed[a] : a \in {b \in 1..m : KeyOf(typed[b]) = key}}
Holds(logs, key, m) == logs \in Seq(1..N) /\ IsInjective(logs) /\ Range(logs) = SoFar(key, m)
NotOpen(agg, key) == \A r \in DOMAIN agg.open : KeyOfOpen(agg, r) # key

NotYet(agg, m, key) ==
  /\ \A a \in 1..m : KeyOf(typed[a]) # key
  /\ key \notin DOMAIN agg.closed /\ NotOpen(agg, key)
NowOpen(agg, m, key) ==
  /\ \E a \in 1..m : KeyOf(typed[a]) = key
  /\ key[1] \in DOMAIN agg.open /\ KeyOfOpen(agg, key[1]) = key
  /\ Holds(agg.open[key[1]].logs, key, m)
  /\ key \notin DOMAIN agg.closed
AllClosed(agg, m, key) ==
  /\ key \in DOMAIN agg.closed /\ Holds(agg.closed[key], key, m)
  /\ NotOpen(agg, key)
  /\ \A b \in m + 1..Len(typed) : KeyOf(typed[b]) # key
OnePieceInv(agg, m, key) == NotYet(agg, m, key) \/ NowOpen(agg, m, key) \/ AllClosed(agg, m, key)

LEMMA HoldsOne ==
  ASSUME NEW i \in 1..N, NEW key, NEW m, SoFar(key, m) = {i}
  PROVE  Holds(<<i>>, key, m)
<1>1. <<i>> \in Seq(1..N) /\ DOMAIN <<i>> = {1} /\ <<i>>[1] = i
  OBVIOUS
<1> QED
  BY <1>1 DEF Holds, IsInjective, Range

LEMMA HoldsOneMore ==
  ASSUME NEW key, NEW m, NEW n, NEW logs, Holds(logs, key, m), NEW i \in 1..N,
         i \notin SoFar(key, m), SoFar(key, n) = SoFar(key, m) \cup {i}
  PROVE  Holds(Append(logs, i), key, n)
<1> DEFINE L == Len(logs)
           longer == Append(logs, i)
<1>1. logs \in Seq(1..N) /\ IsInjective(logs) /\ Range(logs) = SoFar(key, m)
  BY DEF Holds
<1>2. DOMAIN logs = 1..L /\ L \in Nat
  BY <1>1
<1>3. /\ longer \in Seq(1..N) /\ Len(longer) = L + 1 /\ longer[L + 1] = i
      /\ \A a \in 1..L : longer[a] = logs[a]
  BY <1>1, AppendMeaning
<1>4. DOMAIN longer = 1..L + 1
  BY <1>3
<1> HIDE DEF L, longer
<1>5. \A a \in 1..L + 1 : a \in 1..L \/ a = L + 1
  BY <1>2
<1>6. L + 1 \in 1..L + 1 /\ \A a \in 1..L : a \in 1..L + 1 /\ a # L + 1
  BY <1>2
<1>7. \A a \in 1..L : logs[a] \in SoFar(key, m)
  BY <1>1, <1>2 DEF Range
<1>8. IsInjective(longer)
  <2> SUFFICES ASSUME NEW a \in 1..L + 1, NEW b \in 1..L + 1, longer[a] = longer[b] PROVE a = b
    BY <1>4 DEF IsInjective
  <2>1. CASE a \in 1..L /\ b \in 1..L
    BY <1>1, <1>2, <1>3, <2>1 DEF IsInjective
  <2>2. CASE a = L + 1 /\ b \in 1..L
    BY <1>3, <1>7, <2>2
  <2>3. CASE a \in 1..L /\ b = L + 1
    BY <1>3, <1>7, <2>3
  <2> QED
    BY <1>5, <2>1, <2>2, <2>3
<1>9. Range(longer) = SoFar(key, n)
  <2>1. Range(longer) \subseteq SoFar(key, n)
    BY <1>3, <1>4, <1>5, <1>7 DEF Range
  <2>2. i \in Range(longer)
    BY <1>3, <1>4, <1>6 DEF Range
  <2>3. Range(logs) \subseteq Range(longer)
    BY <1>2, <1>3, <1>4, <1>6 DEF Range
  <2> QED
    BY <1>1, <2>1, <2>2, <2>3
<1> QED
  BY <1>3, <1>8, <1>9 DEF Holds, longer

LEMMA OnePieceStep ==
  ASSUME RawInv, Picked(typed, raw), NEW k, Unrepeated(k), \A i \in InWindow(k) : ~Skipped(i),
         NEW m \in 1..Len(typed), NEW agg, OnePieceInv(agg, m - 1, k)
  PROVE  OnePieceInv(AddLine(agg, typed[m]), m, k)
<1> DEFINE i == typed[m]
           more == AddLine(agg, i)
           p == Logs[i].pool
<1>0. /\ typed \in Seq(1..N) /\ Len(typed) \in Nat /\ i \in 1..N /\ m \in Nat
      /\ m \in 1..m /\ \A a \in 1..m : a = m \/ a \in 1..m - 1
      /\ \A a \in 1..m - 1 : a \in 1..m /\ a \in 1..Len(typed) /\ a < m /\ a # m
      /\ \A b \in m + 1..Len(typed) : b \in m..Len(typed) /\ b \in 1..Len(typed) /\ m < b
      /\ m \in m..Len(typed) /\ (m - 1) + 1 = m
  <2>1. typed \in Seq(1..N)
    BY DEF Picked, PickedUpTo
  <2>2. Len(typed) \in Nat /\ \A a \in 1..Len(typed) : typed[a] \in 1..N
    BY <2>1, ElementsTyped
  <2>3. Len(typed) \in Nat /\ i \in 1..N /\ m \in Nat /\ m <= Len(typed)
    BY <2>2
  <2> HIDE DEF i
  <2> QED
    BY <2>1, <2>3
<1>1. KeyOf(i) = k => k[1] = p /\ i \in InWindow(k)
  BY <1>0, LogFacts DEF InWindow, KeyOf
<1>2. CASE KeyOf(i) = k
  <2>1. ~Skipped(i)
    BY <1>1, <1>2
  <2> HIDE DEF more, p
  <2>2. /\ DOMAIN more.open = DOMAIN agg.open \cup {p}
        /\ more.open[p].window = WindowOf(Logs[i].ts)
        /\ more.open[p].logs = IF SameWindow(agg, i) THEN Append(agg.open[p].logs, i) ELSE <<i>>
        /\ Moves(agg, i) => DOMAIN more.closed = DOMAIN agg.closed \cup {KeyOfOpen(agg, p)}
        /\ ~Moves(agg, i) => more.closed = agg.closed
    BY <2>1, AddLineMeaning DEF more, p
  <2>3. k[1] = p /\ KeyOfOpen(more, p) = k
    BY <1>1, <1>2, <2>2 DEF KeyOfOpen, KeyOf, p
  <2>4. SoFar(k, m) = SoFar(k, m - 1) \cup {i}
    BY <1>0, <1>2 DEF SoFar
  <2>5. SameWindow(agg, i) <=> p \in DOMAIN agg.open /\ KeyOfOpen(agg, p) = k
    BY <1>2 DEF SameWindow, KeyOfOpen, KeyOf, p
  <2>6. CASE NotYet(agg, m - 1, k)
    <3>1. ~SameWindow(agg, i) /\ k \notin DOMAIN agg.closed
      BY <2>5, <2>6 DEF NotYet, NotOpen
    <3>2. SoFar(k, m) = {i}
      <4>1. SoFar(k, m - 1) = {}
        BY <2>6 DEF NotYet, SoFar
      <4> QED
        BY <2>4, <4>1
    <3>3. Holds(more.open[p].logs, k, m)
      BY <1>0, <2>2, <3>1, <3>2, HoldsOne
    <3>4. k \notin DOMAIN more.closed
      <4>1. Moves(agg, i) => KeyOfOpen(agg, p) # k
        BY <2>5, <3>1 DEF Moves, p
      <4> QED
        BY <2>2, <3>1, <4>1
    <3>5. NowOpen(more, m, k)
      BY <1>0, <1>2, <2>2, <2>3, <3>3, <3>4 DEF NowOpen
    <3> QED
      BY <3>5 DEF OnePieceInv, more
  <2>7. CASE NowOpen(agg, m - 1, k)
    <3>1. /\ SameWindow(agg, i) /\ ~Moves(agg, i) /\ k \notin DOMAIN agg.closed
          /\ Holds(agg.open[p].logs, k, m - 1)
      BY <2>3, <2>5, <2>7 DEF NowOpen, Moves
    <3>2. i \notin SoFar(k, m - 1)
      <4>1. \A a \in 1..m - 1 : typed[a] # i
        BY <1>0, <1>2, OnceInTyped
      <4> QED
        BY <4>1 DEF SoFar
    <3>3. Holds(more.open[p].logs, k, m)
      BY <1>0, <2>2, <2>4, <3>1, <3>2, HoldsOneMore
    <3>4. NowOpen(more, m, k)
      BY <1>0, <1>2, <2>2, <2>3, <3>1, <3>3 DEF NowOpen
    <3> QED
      BY <3>4 DEF OnePieceInv, more
  <2>8. ~AllClosed(agg, m - 1, k)
    BY <1>0, <1>2 DEF AllClosed
  <2> QED
    BY <2>6, <2>7, <2>8 DEF OnePieceInv
<1>3. CASE KeyOf(i) # k
  <2>1. SoFar(k, m) = SoFar(k, m - 1)
    BY <1>0, <1>3 DEF SoFar
  <2>2. \A logs : Holds(logs, k, m - 1) => Holds(logs, k, m)
    BY <2>1 DEF Holds
  <2>3. /\ (\E a \in 1..m - 1 : KeyOf(typed[a]) = k) => \E a \in 1..m : KeyOf(typed[a]) = k
        /\ (\A a \in 1..m - 1 : KeyOf(typed[a]) # k) => \A a \in 1..m : KeyOf(typed[a]) # k
    BY <1>0, <1>3
  <2>4. AllClosed(agg, m - 1, k) => \A b \in m + 1..Len(typed) : KeyOf(typed[b]) # k
    BY <1>0 DEF AllClosed
  <2>5. CASE Skipped(i)
    <3>1. more = agg
      BY <2>5 DEF AddLine
    <3> HIDE DEF more
    <3>2. NotYet(agg, m - 1, k) => NotYet(more, m, k)
      BY <2>3, <3>1 DEF NotYet
    <3>3. NowOpen(agg, m - 1, k) => NowOpen(more, m, k)
      BY <2>2, <2>3, <3>1 DEF NowOpen
    <3>4. AllClosed(agg, m - 1, k) => AllClosed(more, m, k)
      BY <2>2, <2>4, <3>1 DEF AllClosed
    <3> QED
      BY <3>2, <3>3, <3>4 DEF OnePieceInv, more
  <2>6. CASE ~Skipped(i)
    <3> HIDE DEF more, p
    <3>1. /\ DOMAIN more.open = DOMAIN agg.open \cup {p}
          /\ more.open[p].window = WindowOf(Logs[i].ts)
          /\ more.open[p].logs = IF SameWindow(agg, i) THEN Append(agg.open[p].logs, i) ELSE <<i>>
          /\ \A r \in DOMAIN agg.open : r # p => more.open[r] = agg.open[r]
          /\ Moves(agg, i) =>
               /\ DOMAIN more.closed = DOMAIN agg.closed \cup {KeyOfOpen(agg, p)}
               /\ more.closed[KeyOfOpen(agg, p)] = agg.open[p].logs
               /\ \A q \in DOMAIN agg.closed :
                    q # KeyOfOpen(agg, p) => more.closed[q] = agg.closed[q]
          /\ ~Moves(agg, i) => more.closed = agg.closed
      BY <2>6, AddLineMeaning DEF more, p
    <3>2. KeyOfOpen(more, p) # k
      BY <1>3, <3>1 DEF KeyOfOpen, KeyOf, p
    <3>3. \A r \in DOMAIN agg.open : r # p => KeyOfOpen(more, r) = KeyOfOpen(agg, r)
      BY <3>1 DEF KeyOfOpen
    <3>4. NotOpen(agg, k) => NotOpen(more, k)
      BY <3>1, <3>2, <3>3 DEF NotOpen
    <3>5. Moves(agg, i) => p \in DOMAIN agg.open
      BY DEF Moves, p
    <3>6. CASE NotYet(agg, m - 1, k)
      <4>1. k \notin DOMAIN more.closed
        BY <3>1, <3>5, <3>6 DEF NotYet, NotOpen
      <4>2. NotYet(more, m, k)
        BY <2>3, <3>4, <3>6, <4>1 DEF NotYet
      <4> QED
        BY <4>2 DEF OnePieceInv, more
    <3>7. CASE AllClosed(agg, m - 1, k)
      <4>1. Moves(agg, i) => KeyOfOpen(agg, p) # k
        BY <3>5, <3>7 DEF AllClosed, NotOpen
      <4>2. k \in DOMAIN more.closed /\ more.closed[k] = agg.closed[k]
        BY <3>1, <3>7, <4>1 DEF AllClosed
      <4>3. AllClosed(more, m, k)
        BY <2>2, <2>4, <3>4, <3>7, <4>2 DEF AllClosed
      <4> QED
        BY <4>3 DEF OnePieceInv, more
    <3>8. CASE NowOpen(agg, m - 1, k) /\ k[1] # p
      <4>1. k[1] \in DOMAIN more.open /\ more.open[k[1]] = agg.open[k[1]] /\ KeyOfOpen(more, k[1]) = k
        BY <3>1, <3>3, <3>8 DEF NowOpen
      <4>2. KeyOfOpen(agg, p)[1] = p
        BY DEF KeyOfOpen
      <4>3. k \notin DOMAIN more.closed
        BY <3>1, <3>8, <4>2 DEF NowOpen
      <4>4. NowOpen(more, m, k)
        BY <2>2, <2>3, <3>8, <4>1, <4>3 DEF NowOpen
      <4> QED
        BY <4>4 DEF OnePieceInv, more
    <3>9. CASE NowOpen(agg, m - 1, k) /\ k[1] = p
      <4>1. /\ p \in DOMAIN agg.open /\ KeyOfOpen(agg, p) = k
            /\ Holds(agg.open[p].logs, k, m - 1)
        BY <3>9 DEF NowOpen
      <4>2. Moves(agg, i)
        <5>1. SameWindow(agg, i) => KeyOf(i) = KeyOfOpen(agg, p)
          BY DEF SameWindow, KeyOfOpen, KeyOf, p
        <5> QED
          BY <1>3, <4>1, <5>1 DEF Moves, p
      <4>3. k \in DOMAIN more.closed /\ Holds(more.closed[k], k, m)
        BY <2>2, <3>1, <4>1, <4>2
      <4>4. NotOpen(more, k)
        <5>1. \A r \in DOMAIN agg.open : r # p => KeyOfOpen(agg, r) # k
          <6>1. \A r : KeyOfOpen(agg, r)[1] = r
            BY DEF KeyOfOpen
          <6> QED
            BY <3>9, <6>1
        <5> QED
          BY <3>1, <3>2, <3>3, <5>1 DEF NotOpen
      <4>5. ASSUME NEW b \in m + 1..Len(typed), KeyOf(typed[b]) = k PROVE FALSE
        <5>1. PICK a \in 1..m - 1 : KeyOf(typed[a]) = k
          BY <3>9 DEF NowOpen
        <5>2. Logs[typed[a]].pool = p
          <6>1. KeyOf(typed[a])[1] = Logs[typed[a]].pool
            BY DEF KeyOf
          <6> QED
            BY <3>9, <5>1, <6>1
        <5>3. a \in 1..Len(typed) /\ b \in 1..Len(typed) /\ a < m /\ m < b
          BY <1>0
        <5>4. KeyOf(typed[m]) = k
          BY <4>5, <5>1, <5>2, <5>3, OnePieceInTyped DEF p
        <5> QED
          BY <1>3, <5>4
      <4>6. AllClosed(more, m, k)
        BY <4>3, <4>4, <4>5 DEF AllClosed
      <4> QED
        BY <4>6 DEF OnePieceInv, more
    <3> QED
      BY <3>6, <3>7, <3>8, <3>9 DEF OnePieceInv
  <2> QED
    BY <2>5, <2>6
<1> QED
  BY <1>2, <1>3
-----------------------------------------------------------------------------
\* The rows aggregate makes.
LEMMA TypedFacts ==
  ASSUME Picked(typed, raw)
  PROVE  /\ typed \in Seq(1..N) /\ Len(typed) \in Nat /\ DOMAIN typed = 1..Len(typed)
         /\ \A a \in 1..Len(typed) : typed[a] \in 1..N
         /\ Range(typed) = {typed[a] : a \in 1..Len(typed)}
<1>1. typed \in Seq(1..N)
  BY DEF Picked, PickedUpTo
<1>2. /\ Len(typed) \in Nat /\ DOMAIN typed = 1..Len(typed)
      /\ \A a \in 1..Len(typed) : typed[a] \in 1..N
  BY <1>1, ElementsTyped
<1> QED
  BY <1>1, <1>2 DEF Range

LEMMA ScannedShape ==
  ASSUME Picked(typed, raw)
  PROVE  \A m \in 0..Len(typed) : ScanInv(Scan[m], m)
<1> DEFINE n == Len(typed)
           S == {m \in 0..n : ScanInv(Scan[m], m)}
<1>1. /\ n \in Nat /\ Scan[0] = ScanBase
      /\ \A m \in 1..n : Scan[m] = AddLine(Scan[m - 1], typed[m])
  BY TypedFacts, ScanMeaning
<1> HIDE DEF n
<1>2. 0 \in S
  <2>1. DOMAIN ScanBase.open = {} /\ DOMAIN ScanBase.closed = {} /\ 1..0 = {}
    BY DEF ScanBase
  <2>2. ScanInv(Scan[0], 0)
    BY <1>1, <2>1 DEF ScanInv
  <2> QED
    BY <1>1, <2>2
<1>3. ASSUME NEW m \in 1..n, m - 1 \in S PROVE m \in S
  <2>1. m \in Nat /\ m # 0 /\ m \in 0..n /\ ScanInv(Scan[m - 1], m - 1)
    BY <1>1, <1>3
  <2>2. ScanInv(Scan[m], m)
    BY <1>1, <2>1, ScanStep
  <2> QED
    BY <2>1, <2>2
<1>4. \A m \in 0..n : m \in S
  <2> HIDE DEF S
  <2> QED
    BY <1>1, <1>2, <1>3, StepByStep
<1> QED
  BY <1>4 DEF n

LEMMA ScannedOnePiece ==
  ASSUME RawInv, Picked(typed, raw), NEW k, Unrepeated(k), \A i \in InWindow(k) : ~Skipped(i)
  PROVE  \A m \in 0..Len(typed) : OnePieceInv(Scan[m], m, k)
<1> DEFINE n == Len(typed)
           S == {m \in 0..n : OnePieceInv(Scan[m], m, k)}
<1>1. /\ n \in Nat /\ Scan[0] = ScanBase
      /\ \A m \in 1..n : Scan[m] = AddLine(Scan[m - 1], typed[m])
  BY TypedFacts, ScanMeaning
<1> HIDE DEF n
<1>2. 0 \in S
  <2>1. DOMAIN ScanBase.open = {} /\ DOMAIN ScanBase.closed = {} /\ 1..0 = {}
    BY DEF ScanBase
  <2>2. OnePieceInv(Scan[0], 0, k)
    BY <1>1, <2>1 DEF OnePieceInv, NotYet, NotOpen
  <2> QED
    BY <1>1, <2>2
<1>3. ASSUME NEW m \in 1..n, m - 1 \in S PROVE m \in S
  <2>1. m \in 1..Len(typed) /\ m \in 0..n /\ OnePieceInv(Scan[m - 1], m - 1, k)
    BY <1>1, <1>3 DEF n
  <2>2. OnePieceInv(Scan[m], m, k)
    BY <1>1, <2>1, OnePieceStep DEF n
  <2> QED
    BY <2>1, <2>2
<1>4. \A m \in 0..n : m \in S
  <2> HIDE DEF S
  <2> QED
    BY <1>1, <1>2, <1>3, StepByStep
<1> QED
  BY <1>4 DEF n

\* What is closed stays closed, and is in the table at the end.
LEMMA ClosedGrows ==
  ASSUME Picked(typed, raw), NEW m \in 0..Len(typed)
  PROVE  \A n \in 0..Len(typed) : m <= n => DOMAIN ClosedRows(m) \subseteq DOMAIN ClosedRows(n)
<1> DEFINE L == Len(typed)
           S == {n \in 0..L : m <= n => DOMAIN ClosedRows(m) \subseteq DOMAIN ClosedRows(n)}
<1>1. /\ L \in Nat /\ m \in Nat /\ \A n \in 1..L : Scan[n] = AddLine(Scan[n - 1], typed[n])
  BY TypedFacts, ScanMeaning
<1> HIDE DEF L
<1>2. 0 \in S
  BY <1>1
<1>3. ASSUME NEW n \in 1..L, n - 1 \in S PROVE n \in S
  <2>1. n \in Nat /\ n \in 0..L /\ (m <= n => m = n \/ m <= n - 1)
    BY <1>1
  <2>2. DOMAIN ClosedRows(n - 1) \subseteq DOMAIN ClosedRows(n)
    <3>1. Scan[n] = AddLine(Scan[n - 1], typed[n])
      BY <1>1
    <3>2. DOMAIN Scan[n - 1].closed \subseteq DOMAIN Scan[n].closed
      BY <3>1, AddLineGrows
    <3> QED
      BY <3>2 DEF ClosedRows
  <2> QED
    BY <1>3, <2>1, <2>2
<1>4. \A n \in 0..L : n \in S
  <2> HIDE DEF S
  <2> QED
    BY <1>1, <1>2, <1>3, StepByStep
<1> QED
  BY <1>4 DEF L

LEMMA AllRowsMeaning ==
  /\ DOMAIN AllRows = OpenKeys \cup DOMAIN ClosedRows(Len(typed))
  /\ OpenKeys = {KeyOfOpen(Scan[Len(typed)], p) : p \in DOMAIN Scan[Len(typed)].open}
  /\ \A p \in DOMAIN Scan[Len(typed)].open :
       AllRows[KeyOfOpen(Scan[Len(typed)], p)] = Scan[Len(typed)].open[p].logs
  /\ \A q \in DOMAIN ClosedRows(Len(typed)) :
       q \notin OpenKeys => AllRows[q] = ClosedRows(Len(typed))[q]
<1>1. \A agg, p : KeyOfOpen(agg, p)[1] = p
  BY DEF KeyOfOpen
<1> QED
  BY <1>1 DEF AllRows, OpenKeys

\* A row made of events that are not skipped.
LEMMA RowFromEvents ==
  ASSUME Picked(typed, raw), NEW n \in 0..Len(typed), NEW q, NEW row, LogsOf(row, q, n)
  PROVE  /\ \E a \in 1..n : typed[a] \in InWindow(q) /\ ~Skipped(typed[a])
         /\ Range(row) \subseteq Range(typed) \cap InWindow(q)
<1> DEFINE S == Of(q, n)
<1>0. \A a \in 1..n : a \in 1..Len(typed)
  BY TypedFacts
<1>1. S \subseteq Range(typed) \cap InWindow(q)
  BY <1>0, TypedFacts, LogFacts DEF Of, InWindow
<1>2. row \in Seq(S) /\ row # << >>
  BY DEF LogsOf
<1> HIDE DEF S
<1>3. Len(row) \in Nat /\ DOMAIN row = 1..Len(row) /\ \A a \in 1..Len(row) : row[a] \in S
  BY <1>2, ElementsTyped
<1>4. Len(row) # 0
  BY <1>2, EmptySeq
<1>5. 1 \in DOMAIN row /\ row[1] \in S
  BY <1>3, <1>4
<1>6. Range(row) \subseteq S
  BY <1>3 DEF Range
<1>7. \E a \in 1..n : typed[a] \in InWindow(q) /\ ~Skipped(typed[a])
  BY <1>1, <1>5 DEF S, Of
<1> QED
  BY <1>1, <1>6, <1>7

LEMMA MaxTsMeaning ==
  ASSUME Picked(typed, raw), state \in Nat, NEW n \in 0..Len(typed)
  PROVE  /\ MaxTs(n) \in Nat /\ state <= MaxTs(n)
         /\ \A a \in 1..n : Logs[typed[a]].ts <= MaxTs(n)
<1> DEFINE all == {state} \cup {Logs[typed[m]].ts : m \in 1..n}
           bound == state + Logs[N].ts
<1>1. \A a \in 1..n : typed[a] \in 1..N
  BY TypedFacts
<1>2. \A i \in 1..N : Logs[i].ts \in Nat /\ Logs[N].ts \in Nat /\ Logs[i].ts <= Logs[N].ts
  <2>1. N \in 1..N /\ \A i \in 1..N : i <= N
    BY LogFacts
  <2> QED
    BY <2>1, LogFacts
<1>3. Logs[N].ts \in Nat
  BY <1>2, LogFacts
<1>4. bound \in Nat /\ all \subseteq 0..bound /\ all # {}
  BY <1>1, <1>2, <1>3
<1>5. MaxTs(n) = Max(all)
  BY DEF MaxTs
<1> HIDE DEF all, bound
<1>6. Max(all) \in all /\ \A t \in all : t <= Max(all)
  BY <1>4, MaxMeaning
<1>7. MaxTs(n) \in Nat /\ \A t \in all : t <= MaxTs(n)
  <2>1. all \subseteq Nat
    BY <1>4
  <2>2. Max(all) \in Nat
    BY <1>6, <2>1
  <2> QED
    BY <1>5, <1>6, <2>2
<1> QED
  BY <1>7 DEF all

\* The rows of a part of the input: of events in it that are not skipped; and where no log
\* is repeated, skipped or missing, the row is exact.
Untouched(k) ==
  Unrepeated(k) /\ InWindow(k) \subseteq Range(typed) /\ \A i \in InWindow(k) : ~Skipped(i)
Sound(made, n) ==
  \A q \in DOMAIN made :
    /\ Range(made[q]) \subseteq Range(typed) \cap InWindow(q)
    /\ \E a \in 1..n : typed[a] \in InWindow(q) /\ ~Skipped(typed[a])
    /\ Untouched(q) => ExactRow(made[q], q)

LEMMA AllThere ==
  ASSUME Picked(typed, raw), NEW k, InWindow(k) \subseteq Range(typed)
  PROVE  SoFar(k, Len(typed)) = InWindow(k)
  BY TypedFacts, LogFacts DEF SoFar, InWindow

LEMMA ClosedRowsSound ==
  ASSUME RawInv, Picked(typed, raw), NEW n \in 0..Len(typed)
  PROVE  Sound(ClosedRows(n), n)
<1> SUFFICES ASSUME NEW q \in DOMAIN ClosedRows(n)
             PROVE  /\ Range(ClosedRows(n)[q]) \subseteq Range(typed) \cap InWindow(q)
                    /\ \E a \in 1..n : typed[a] \in InWindow(q) /\ ~Skipped(typed[a])
                    /\ Untouched(q) => ExactRow(ClosedRows(n)[q], q)
  BY DEF Sound
<1>1. q \in DOMAIN Scan[n].closed /\ ClosedRows(n)[q] = Scan[n].closed[q]
  BY DEF ClosedRows
<1>2. LogsOf(Scan[n].closed[q], q, n)
  BY <1>1, ScannedShape DEF ScanInv
<1>3. ASSUME Untouched(q) PROVE ExactRow(Scan[n].closed[q], q)
  <2>1. AllClosed(Scan[n], n, q)
    <3>1. OnePieceInv(Scan[n], n, q)
      BY <1>3, ScannedOnePiece DEF Untouched
    <3> QED
      BY <1>1, <3>1 DEF OnePieceInv, NotYet, NowOpen
  <2>2. SoFar(q, n) = InWindow(q)
    <3>0. n \in Nat /\ Len(typed) \in Nat /\ n <= Len(typed)
      BY TypedFacts
    <3>1. \A b \in 1..Len(typed) : b \in 1..n \/ b \in n + 1..Len(typed)
      BY <3>0
    <3>2. \A b \in 1..n : b \in 1..Len(typed)
      BY <3>0
    <3>3. SoFar(q, n) = SoFar(q, Len(typed))
      BY <2>1, <3>1, <3>2 DEF AllClosed, SoFar
    <3> QED
      BY <1>3, <3>3, AllThere DEF Untouched
  <2> QED
    BY <2>1, <2>2 DEF AllClosed, Holds, ExactRow
<1> QED
  BY <1>1, <1>2, <1>3, RowFromEvents

LEMMA AllRowsSound ==
  ASSUME RawInv, Picked(typed, raw)
  PROVE  Sound(AllRows, Len(typed))
<1> DEFINE n == Len(typed)
           end == Scan[n]
<1>0. n \in 0..Len(typed)
  BY TypedFacts
<1> SUFFICES ASSUME NEW q \in DOMAIN AllRows
             PROVE  /\ Range(AllRows[q]) \subseteq Range(typed) \cap InWindow(q)
                    /\ \E a \in 1..n : typed[a] \in InWindow(q) /\ ~Skipped(typed[a])
                    /\ Untouched(q) => ExactRow(AllRows[q], q)
  BY DEF Sound
<1>1. CASE q \in OpenKeys
  <2>1. PICK p \in DOMAIN end.open : q = KeyOfOpen(end, p)
    BY <1>1, AllRowsMeaning
  <2>2. AllRows[q] = end.open[p].logs /\ p = q[1]
    BY <2>1, AllRowsMeaning DEF KeyOfOpen
  <2>3. LogsOf(AllRows[q], q, n)
    BY <1>0, <2>1, <2>2, ScannedShape DEF ScanInv
  <2>4. ASSUME Untouched(q) PROVE ExactRow(AllRows[q], q)
    <3>1. OnePieceInv(end, n, q)
      BY <1>0, <2>4, ScannedOnePiece DEF Untouched
    <3>2. NowOpen(end, n, q)
      BY <2>1, <3>1 DEF OnePieceInv, NotYet, AllClosed, NotOpen
    <3>3. SoFar(q, n) = InWindow(q)
      BY <2>4, AllThere DEF Untouched
    <3> QED
      BY <2>2, <3>2, <3>3 DEF NowOpen, Holds, ExactRow
  <2> QED
    BY <1>0, <2>3, <2>4, RowFromEvents
<1>2. CASE q \notin OpenKeys
  <2>1. q \in DOMAIN ClosedRows(n) /\ AllRows[q] = ClosedRows(n)[q]
    BY <1>2, AllRowsMeaning
  <2> QED
    BY <1>0, <2>1, ClosedRowsSound DEF Sound
<1> QED
  BY <1>1, <1>2

LEMMA AllRowsOfEvents ==
  ASSUME Picked(typed, raw)
  PROVE  \A a \in 1..Len(typed) : ~Skipped(typed[a]) => KeyOf(typed[a]) \in DOMAIN AllRows
<1>1. Len(typed) \in 0..Len(typed)
  BY TypedFacts
<1>2. ScanInv(Scan[Len(typed)], Len(typed))
  BY <1>1, ScannedShape
<1> QED
  BY <1>2, AllRowsMeaning DEF ScanInv, ClosedRows
-----------------------------------------------------------------------------
\* Of a window that aggregate has begun to skip it skips every log, unless it was cut.
CutState ==
  \A k \in Keys : (\E i \in InWindow(k) : Skipped(i)) => k \in cut \/ \A i \in InWindow(k) : Skipped(i)

FlowInv ==
  /\ TypeOK /\ RawInv /\ Picked(typed, raw)
  /\ CutState /\ FaultsStayLocal /\ PassedWindowsHaveRows

LEMMA WindowFacts ==
  ASSUME NEW k, NEW i \in InWindow(k)
  PROVE  i \in 1..N /\ k \in Keys /\ KeyOf(i) = k /\ k[2] \in Nat /\ k[2] <= Logs[i].ts
<1>1. i \in 1..N /\ KeyOf(i) = k
  BY LogFacts DEF InWindow
<1>2. k = <<Logs[i].pool, WindowOf(Logs[i].ts)>> /\ k \in Keys
  BY <1>1, KeyFacts
<1>3. WindowOf(Logs[i].ts) \in Nat /\ WindowOf(Logs[i].ts) <= Logs[i].ts
  BY <1>1, KeyFacts
<1> QED
  BY <1>1, <1>2, <1>3

LEMMA FetchedFacts ==
  ASSUME RawInv, Picked(typed, raw)
  PROVE  Fetched \subseteq DOMAIN Logs /\ Range(typed) \subseteq Fetched
<1>1. DOMAIN raw = 1..Len(raw) /\ \A d \in 1..Len(raw) : raw[d].log \in 1..N
  BY LineFacts DEF RawInv
<1>2. PICK at \in [1..Len(typed) -> 1..Len(raw)] :
         \A a \in 1..Len(typed) : raw[at[a]].log = typed[a]
  BY DEF Picked, PickedUpTo
<1>3. \A a \in 1..Len(typed) : typed[a] \in Fetched
  BY <1>1, <1>2 DEF Fetched
<1> QED
  BY <1>1, <1>3, TypedFacts, LogFacts DEF Fetched

\* What a new line does to the file.
LEMMA LinesStay ==
  ASSUME RawInv, RawInv', Kept(raw, raw')
  PROVE  Fetched \subseteq Fetched' /\ \A i : Repeated(i) => Repeated(i)'
<1>1. /\ DOMAIN raw = 1..Len(raw) /\ DOMAIN raw' = 1..Len(raw')
      /\ Len(raw) \in Nat /\ Len(raw') \in Nat
  <2>1. raw \in Seq(Line) /\ raw' \in Seq(Line)
    BY DEF RawInv, Climbs, Line, N
  <2> QED
    BY <2>1, ElementsTyped
<1>2. \A d \in DOMAIN raw : d \in DOMAIN raw' /\ raw'[d] = raw[d]
  BY <1>1 DEF Kept
<1> QED
  BY <1>2 DEF Fetched, Repeated

LEMMA DisturbedStays ==
  ASSUME RawInv, RawInv', Kept(raw, raw'), cut \subseteq cut'
  PROVE  \A k : Disturbed(k) => Disturbed(k)'
<1>1. \A i : Repeated(i) => Repeated(i)'
  BY LinesStay
<1> QED
  BY <1>1 DEF Disturbed

\* A time that may be saved once these rows are stored: of a window that is all there it
\* skips all or nothing, and an untouched one of which it skips something has its row.
Begun(k, s) == \E i \in InWindow(k) : Logs[i].ts <= s
SavedFits(s, made, n) ==
  /\ s \in Nat
  /\ s # state =>
       /\ s <= MaxTs(n)
       /\ \A k : InWindow(k) \subseteq Range(typed) /\ Begun(k, s) => \A i \in InWindow(k) : Logs[i].ts <= s
       /\ \A k : Untouched(k) /\ Begun(k, s) => k \in DOMAIN made

\* The time saved after a batch is one before the start of an open window, the first.
LEMMA SafeTsMeaning ==
  ASSUME Picked(typed, raw), NEW m \in 1..Len(typed), FlushesAt(m)
  PROVE  /\ \E a \in 1..m : SafeTs(m) = WindowOf(Logs[typed[a]].ts) - 1
         /\ SafeTs(m) \in Nat
         /\ \A p \in DOMAIN Scan[m].open : SafeTs(m) < Scan[m].open[p].window
<1> DEFINE agg == Scan[m]
           starts == {agg.open[p].window : p \in DOMAIN agg.open}
<1>0. m \in 0..Len(typed) /\ \A a \in 1..m : typed[a] \in 1..N
  BY TypedFacts
<1>1. Logs[typed[m]].pool \in DOMAIN agg.open
  <2>1. ~Skipped(typed[m]) /\ agg = AddLine(Scan[m - 1], typed[m])
    BY ScanMeaning, TypedFacts DEF FlushesAt, Closes
  <2> QED
    BY <2>1, AddLineGrows
<1>2. ASSUME NEW p \in DOMAIN agg.open
      PROVE  \E a \in 1..m : agg.open[p].window = WindowOf(Logs[typed[a]].ts)
  <2>1. LogsOf(agg.open[p].logs, KeyOfOpen(agg, p), m)
    BY <1>0, ScannedShape DEF ScanInv
  <2>2. PICK a \in 1..m : typed[a] \in InWindow(KeyOfOpen(agg, p))
    BY <1>0, <2>1, RowFromEvents
  <2>3. KeyOf(typed[a]) = KeyOfOpen(agg, p)
    BY <2>2 DEF InWindow
  <2> HIDE DEF agg
  <2>4. agg.open[p].window = WindowOf(Logs[typed[a]].ts)
    BY <2>3 DEF KeyOf, KeyOfOpen
  <2> QED
    BY <2>4
<1>3. \A a \in 1..m : WindowOf(Logs[typed[a]].ts) \in Nat /\ WindowOf(Logs[typed[a]].ts) > 0
  <2> SUFFICES ASSUME NEW a \in 1..m
               PROVE  WindowOf(Logs[typed[a]].ts) \in Nat /\ WindowOf(Logs[typed[a]].ts) > 0
    OBVIOUS
  <2>1. Logs[typed[a]].ts \in Nat /\ Logs[typed[a]].ts >= WindowSeconds /\ WindowSeconds \in Nat
    BY <1>0, LogFacts
  <2>2. WindowOf(Logs[typed[a]].ts) \in Nat /\ Logs[typed[a]].ts < WindowOf(Logs[typed[a]].ts) + WindowSeconds
    BY <2>1, WindowStart
  <2> QED
    BY <2>1, <2>2
<1>4. starts \subseteq Nat /\ starts # {}
  BY <1>1, <1>2, <1>3
<1>5. SafeTs(m) = Min(starts) - 1
  BY DEF SafeTs
<1> HIDE DEF starts, agg
<1>6. Min(starts) \in starts /\ \A t \in starts : Min(starts) <= t
  BY <1>4, MinMeaning
<1>7. PICK a \in 1..m : Min(starts) = WindowOf(Logs[typed[a]].ts)
  BY <1>2, <1>6 DEF starts
<1>8. SafeTs(m) \in Nat /\ \A t \in starts : SafeTs(m) < t
  <2> DEFINE least == Min(starts)
  <2>1. least \in Nat /\ least > 0 /\ SafeTs(m) = least - 1
    BY <1>3, <1>5, <1>7
  <2>2. \A t \in starts : t \in Nat /\ least <= t
    BY <1>4, <1>6
  <2> HIDE DEF least
  <2> QED
    BY <2>1, <2>2
<1> QED
  BY <1>5, <1>7, <1>8 DEF starts, agg

\* A log that comes late, after one of a later block, is repeated.
LEMMA LateIsRepeated ==
  ASSUME RawInv, Picked(typed, raw), NEW a \in 1..Len(typed), NEW b \in 1..Len(typed), a < b,
         typed[b] < typed[a]
  PROVE  Repeated(typed[b])
<1>1. PICK at \in [1..Len(typed) -> 1..Len(raw)] :
         /\ \A c, d \in 1..Len(typed) : c < d => at[c] < at[d]
         /\ \A c \in 1..Len(typed) : raw[at[c]].log = typed[c]
  BY DEF Picked, PickedUpTo
<1>2. /\ at[a] \in 1..Len(raw) /\ at[b] \in 1..Len(raw) /\ at[a] < at[b]
      /\ raw[at[a]].log = typed[a] /\ raw[at[b]].log = typed[b]
  BY <1>1
<1>3. Climbs(raw) /\ Len(raw) \in Nat /\ DOMAIN raw = 1..Len(raw) /\ typed[a] \in 1..N /\ typed[b] \in 1..N
  BY TypedFacts, LineFacts DEF RawInv
<1>4. typed[b] <= raw[at[a]].log
  BY <1>2, <1>3, LogFacts
<1>5. PICK d \in 1..at[a] : raw[d].log = typed[b]
  <2>1. PICK c \in 1..Len(raw) : c = at[a]
    BY <1>2
  <2>2. PICK v \in 1..N : v = typed[b]
    BY <1>3
  <2>3. \E d \in 1..c : raw[d].log = v
    BY <1>3, <1>4, <2>1, <2>2, PassedBefore
  <2> QED
    BY <2>1, <2>2, <2>3
<1>6. d \in DOMAIN raw /\ d # at[b] /\ at[b] \in DOMAIN raw
  BY <1>2, <1>3
<1> QED
  BY <1>2, <1>5, <1>6 DEF Repeated

LEMMA FlushFits ==
  ASSUME RawInv, Picked(typed, raw), state \in Nat, NEW m \in 1..Len(typed), FlushesAt(m),
         NEW n \in 0..Len(typed), m <= n, NEW made, DOMAIN ClosedRows(m) \subseteq DOMAIN made
  PROVE  SavedFits(SafeTs(m), made, n)
<1> DEFINE s == SafeTs(m)
<1>1. PICK a \in 1..m : s = WindowOf(Logs[typed[a]].ts) - 1
  BY SafeTsMeaning
<1>2. s \in Nat /\ \A p \in DOMAIN Scan[m].open : s < Scan[m].open[p].window
  BY SafeTsMeaning
<1> HIDE DEF s
<1>3. /\ a \in 1..Len(typed) /\ a \in 1..n /\ typed[a] \in 1..N /\ Logs[typed[a]].ts \in Nat
      /\ m \in 0..Len(typed)
  BY TypedFacts, LogFacts
<1>4. /\ WindowOf(Logs[typed[a]].ts) \in Nat /\ WindowOf(Logs[typed[a]].ts) <= Logs[typed[a]].ts
      /\ s < WindowOf(Logs[typed[a]].ts)
  BY <1>1, <1>3, KeyFacts
<1>5. s <= MaxTs(n)
  <2>1. Logs[typed[a]].ts <= MaxTs(n) /\ MaxTs(n) \in Nat
    BY <1>3, MaxTsMeaning
  <2> QED
    BY <1>2, <1>3, <1>4, <2>1
\* Of a window it skips all or nothing: s + 1 is the start of one.
<1>6. ASSUME NEW k, NEW i \in InWindow(k), Logs[i].ts <= s, NEW j \in InWindow(k) PROVE Logs[j].ts <= s
  <2>1. i \in 1..N /\ j \in 1..N /\ KeyOf(i) = KeyOf(j)
    BY WindowFacts
  <2>2. WindowOf(Logs[i].ts) = WindowOf(Logs[j].ts) /\ Logs[i].ts \in Nat /\ Logs[j].ts \in Nat
    BY <2>1, LogFacts DEF KeyOf
  <2>3. /\ WindowOf(Logs[i].ts) \in Nat /\ WindowOf(Logs[i].ts) <= Logs[i].ts
    BY <2>1, KeyFacts
  <2>4. s < Logs[j].ts => WindowOf(Logs[typed[a]].ts) <= WindowOf(Logs[j].ts)
    <3>1. SUFFICES ASSUME s < Logs[j].ts PROVE WindowOf(Logs[typed[a]].ts) <= WindowOf(Logs[j].ts)
      OBVIOUS
    <3>2. WindowOf(Logs[typed[a]].ts) <= Logs[j].ts
      BY <1>1, <1>2, <1>4, <2>2, <3>1
    <3>3. WindowOf(WindowOf(Logs[typed[a]].ts)) <= WindowOf(Logs[j].ts)
      BY <1>4, <2>2, <3>2, WindowOrder
    <3>4. WindowOf(WindowOf(Logs[typed[a]].ts)) = WindowOf(Logs[typed[a]].ts)
      BY <1>3, WindowOfStart
    <3> QED
      BY <3>3, <3>4
  <2> QED
    BY <1>2, <1>4, <1>6, <2>2, <2>3, <2>4
<1>7. ASSUME NEW k, Untouched(k), NEW i \in InWindow(k), Logs[i].ts <= s PROVE k \in DOMAIN ClosedRows(m)
  <2>1. i \in 1..N /\ k[2] \in Nat /\ k[2] <= Logs[i].ts /\ Logs[i].ts \in Nat /\ KeyOf(i) = k
    BY WindowFacts, LogFacts
  <2>2. k[2] <= s
    BY <1>2, <1>7, <2>1
  <2>3. OnePieceInv(Scan[m], m, k)
    BY <1>3, <1>7, ScannedOnePiece DEF Untouched
  <2>4. ~NowOpen(Scan[m], m, k)
    <3>1. SUFFICES ASSUME NowOpen(Scan[m], m, k) PROVE FALSE
      OBVIOUS
    <3>2. k[1] \in DOMAIN Scan[m].open /\ Scan[m].open[k[1]].window = k[2]
      BY <3>1 DEF NowOpen, KeyOfOpen
    <3> QED
      BY <1>2, <2>1, <2>2, <3>2
  <2>5. ~NotYet(Scan[m], m, k)
    <3>1. SUFFICES ASSUME NotYet(Scan[m], m, k) PROVE FALSE
      OBVIOUS
    <3>2. PICK b \in 1..Len(typed) : typed[b] = i
      BY <1>7, TypedFacts DEF Untouched
    <3>3. a < b
      <4>1. b \notin 1..m
        BY <2>1, <3>1, <3>2 DEF NotYet
      <4> QED
        BY <3>2, <4>1
    <3>4. i < typed[a]
      <4>1. Logs[i].ts < Logs[typed[a]].ts
        BY <1>2, <1>3, <1>4, <1>7, <2>1
      <4>2. typed[a] <= i => Logs[typed[a]].ts <= Logs[i].ts
        BY <1>3, <2>1, LogFacts
      <4> QED
        BY <1>3, <2>1, <4>1, <4>2, LogFacts
    <3>5. Repeated(i)
      BY <1>3, <3>2, <3>3, <3>4, LateIsRepeated
    <3> QED
      BY <1>7, <3>5 DEF Untouched, Unrepeated
  <2> QED
    BY <2>3, <2>4, <2>5 DEF OnePieceInv, AllClosed, ClosedRows
<1> QED
  BY <1>2, <1>5, <1>6, <1>7 DEF SavedFits, Begun, s

LEMMA SavedByFits ==
  ASSUME RawInv, Picked(typed, raw), state \in Nat, NEW c \in 0..Len(typed),
         NEW n \in 0..Len(typed), c <= n, NEW made,
         \A m \in 0..c : DOMAIN ClosedRows(m) \subseteq DOMAIN made
  PROVE  SavedFits(SavedBy(c), made, n)
<1> DEFINE flushes == {m \in 1..c : FlushesAt(m)}
<1>1. SavedBy(c) = IF flushes = {} THEN state ELSE SafeTs(Max(flushes))
  BY DEF SavedBy
<1>2. CASE flushes = {}
  BY <1>1, <1>2 DEF SavedFits
<1>3. CASE flushes # {}
  <2>1. flushes \subseteq 0..c /\ c \in Nat
    OBVIOUS
  <2>2. Max(flushes) \in flushes
    BY <1>3, <2>1, MaxMeaning
  <2>3. PICK m \in 1..c : m = Max(flushes) /\ FlushesAt(m)
    BY <2>2
  <2>4. m \in 1..Len(typed) /\ m <= n /\ m \in 0..c
    BY TypedFacts
  <2>5. SavedFits(SafeTs(m), made, n)
    BY <2>3, <2>4, FlushFits
  <2> HIDE DEF flushes
  <2> QED
    BY <1>1, <1>3, <2>3, <2>5
<1> QED
  BY <1>2, <1>3

LEMMA FinalFits ==
  ASSUME RawInv, Picked(typed, raw), state \in Nat
  PROVE  SavedFits(MaxTs(Len(typed)), AllRows, Len(typed))
<1> DEFINE n == Len(typed)
<1>1. n \in 0..Len(typed) /\ n \in Nat
  BY TypedFacts
<1>2. MaxTs(n) \in Nat /\ \A a \in 1..n : Logs[typed[a]].ts <= MaxTs(n)
  BY <1>1, MaxTsMeaning
<1>3. \A k : InWindow(k) \subseteq Range(typed) => \A i \in InWindow(k) : Logs[i].ts <= MaxTs(n)
  BY <1>2, TypedFacts
<1>4. ASSUME NEW k, Untouched(k), NEW i \in InWindow(k) PROVE k \in DOMAIN AllRows
  <2>1. PICK a \in 1..n : typed[a] = i
    BY <1>4, TypedFacts DEF Untouched
  <2>2. ~Skipped(i) /\ KeyOf(i) = k
    BY <1>4, WindowFacts DEF Untouched
  <2> QED
    BY <2>1, <2>2, AllRowsOfEvents
<1>5. MaxTs(n) <= MaxTs(n)
  BY <1>2
<1> QED
  BY <1>2, <1>3, <1>4, <1>5 DEF SavedFits, Begun

\* A run of aggregate, or the part of it that was done, and what it may save.
LEMMA AggregateKeeps ==
  ASSUME FlowInv, NEW n \in 0..Len(typed), NEW made, Sound(made, n),
         NEW lost, lost \subseteq DOMAIN made, Stores(made, n, lost),
         NEW s, state' = s, SavedFits(s, made, n), faults' \in 0..MaxFaults
  PROVE  FlowInv'
<1> USE DEF FlowInv
<1> DEFINE kept == DOMAIN made \ lost
<1>0. /\ state \in Nat /\ Len(raw) \in Nat /\ Kept(raw, raw)
      /\ head' = head /\ raw' = raw /\ torn' = torn /\ checkpoint' = checkpoint /\ typed' = typed
      /\ cut' = cut \cup CutWindows(n) \cup lost
  <2>1. state \in Nat
    BY DEF TypeOK
  <2> QED
    BY <2>1, LineFacts, KeptSame DEF RawInv, Stores
<1>a. MaxTs(n) \in Nat /\ state <= MaxTs(n) /\ \A a \in 1..n : Logs[typed[a]].ts <= MaxTs(n)
  BY <1>0, MaxTsMeaning
<1>1. RawInv' /\ Picked(typed, raw)'
  BY <1>0 DEF RawInv, Climbs, LastLog, LogsUpTo, Picked, PickedUpTo
<1>2. \A k : Disturbed(k) => Disturbed(k)'
  BY <1>0, <1>1, DisturbedStays
<1>3. \A k : ~Disturbed(k)' =>
        k \notin cut /\ k \notin CutWindows(n) /\ k \notin lost /\ Unrepeated(k)
  BY <1>0 DEF Disturbed, Unrepeated, Repeated
<1>4. \A q \in DOMAIN made :
        /\ q \in Keys /\ Range(made[q]) \subseteq Fetched \cap InWindow(q)
        /\ \E i \in InWindow(q) : ~Skipped(i) /\ Logs[i].ts <= MaxTs(n)
  <2> SUFFICES ASSUME NEW q \in DOMAIN made
               PROVE  /\ q \in Keys /\ Range(made[q]) \subseteq Fetched \cap InWindow(q)
                      /\ \E i \in InWindow(q) : ~Skipped(i) /\ Logs[i].ts <= MaxTs(n)
    OBVIOUS
  <2>1. PICK a \in 1..n : typed[a] \in InWindow(q) /\ ~Skipped(typed[a])
    BY DEF Sound
  <2>2. Range(made[q]) \subseteq Range(typed) \cap InWindow(q)
    BY DEF Sound
  <2> QED
    BY <1>a, <2>1, <2>2, WindowFacts, FetchedFacts
<1>5. /\ DOMAIN rows' = DOMAIN rows \cup kept
      /\ \A k \in DOMAIN rows \cup kept : rows'[k] = IF k \in kept THEN made[k] ELSE rows[k]
  BY DEF Stores
<1> HIDE DEF kept
\* A window that is not disturbed, and that the input reaches, is all there.
<1>6. ASSUME NEW k, NEW i \in InWindow(k), Logs[i].ts <= MaxTs(n), ~Disturbed(k)'
      PROVE  InWindow(k) \subseteq Range(typed)
  <2>1. k \in Keys /\ k[2] \in Nat /\ k[2] <= Logs[i].ts /\ Logs[i].ts \in Nat
    BY WindowFacts, LogFacts
  <2>2. k[2] <= MaxTs(n)
    BY <1>a, <1>6, <2>1
  <2> QED
    BY <1>3, <1>6, <2>1, <2>2 DEF CutWindows
\* If aggregate does not skip one of its logs, it is untouched.
<1>b. ASSUME NEW k, NEW i \in InWindow(k), ~Skipped(i), Logs[i].ts <= MaxTs(n), ~Disturbed(k)'
      PROVE  Untouched(k)
  <2>1. InWindow(k) \subseteq Range(typed) /\ Unrepeated(k) /\ k \notin cut
    BY <1>3, <1>6, <1>b
  <2>2. k \in Keys
    BY WindowFacts
  <2>3. \A j \in InWindow(k) : ~Skipped(j)
    BY <1>b, <2>1, <2>2 DEF CutState
  <2> QED
    BY <2>1, <2>3 DEF Untouched
<1>7. TypeOK'
  <2>1. Fetched' = Fetched /\ Range(typed)' = Range(typed)
    BY <1>0 DEF Fetched
  <2>2. DOMAIN rows' \subseteq Keys /\ \A k \in DOMAIN rows' : Range(rows'[k]) \subseteq Fetched \cap InWindow(k)
    BY <1>4, <1>5 DEF TypeOK, kept
  <2>3. state' \in Nat
    BY DEF SavedFits
  <2>4. cut' \subseteq Keys
    BY <1>0, <1>4 DEF TypeOK, CutWindows
  <2> QED
    BY <1>0, <2>1, <2>2, <2>3, <2>4 DEF TypeOK
<1>8. CutState'
  <2> SUFFICES ASSUME NEW k \in Keys, NEW i \in InWindow(k), Logs[i].ts <= s, k \notin cut',
                      NEW j \in InWindow(k)
               PROVE  Logs[j].ts <= s
    BY DEF CutState, Skipped
  <2>1. k \notin cut /\ k \notin CutWindows(n)
    BY <1>0
  <2>2. CASE s = state
    BY <2>1, <2>2 DEF CutState, Skipped
  <2>3. CASE s # state
    <3>1. k[2] \in Nat /\ k[2] <= Logs[i].ts /\ Logs[i].ts \in Nat
      BY WindowFacts, LogFacts
    <3>2. k[2] <= MaxTs(n)
      BY <1>a, <2>3, <3>1 DEF SavedFits
    <3>3. InWindow(k) \subseteq Range(typed)
      BY <2>1, <3>2 DEF CutWindows
    <3> QED
      BY <2>3, <3>3 DEF SavedFits, Begun
  <2> QED
    BY <2>2, <2>3
<1>9. FaultsStayLocal'
  <2> SUFFICES ASSUME NEW k \in DOMAIN rows \cup kept, ~Disturbed(k)'
               PROVE  ExactRow(rows'[k], k)
    BY <1>5 DEF FaultsStayLocal
  <2>1. CASE k \in kept
    <3>1. k \in DOMAIN made
      BY <2>1 DEF kept
    <3>2. Untouched(k)
      BY <1>4, <1>b, <3>1
    <3> QED
      BY <1>5, <2>1, <3>1, <3>2 DEF Sound
  <2>2. CASE k \notin kept
    <3>1. k \in DOMAIN rows /\ ~Disturbed(k)
      BY <1>2, <2>2
    <3> QED
      BY <1>5, <2>2, <3>1 DEF FaultsStayLocal
  <2> QED
    BY <2>1, <2>2
<1>10. PassedWindowsHaveRows'
  <2> SUFFICES ASSUME NEW i \in DOMAIN Logs, Logs[i].ts <= s, ~Disturbed(KeyOf(i))'
               PROVE  KeyOf(i) \in DOMAIN rows \cup kept
    BY <1>5 DEF PassedWindowsHaveRows
  <2>1. i \in InWindow(KeyOf(i)) /\ i \in 1..N /\ Logs[i].ts \in Nat
    BY LogFacts, KeyFacts
  <2>2. ~Disturbed(KeyOf(i))
    BY <1>2
  <2>3. CASE Logs[i].ts <= state
    BY <2>2, <2>3 DEF PassedWindowsHaveRows
  <2>4. CASE ~(Logs[i].ts <= state)
    <3>1. s # state /\ ~Skipped(i)
      BY <2>4 DEF Skipped
    <3>2. Logs[i].ts <= MaxTs(n)
      BY <1>a, <2>1, <3>1 DEF SavedFits
    <3>3. Untouched(KeyOf(i))
      BY <1>b, <2>1, <3>1, <3>2
    <3>4. KeyOf(i) \in DOMAIN made
      BY <2>1, <3>1, <3>3 DEF SavedFits, Begun
    <3> QED
      BY <1>3, <3>4 DEF kept
  <2> QED
    BY <2>3, <2>4
<1> QED
  BY <1>1, <1>7, <1>8, <1>9, <1>10

\* The steps that leave the table alone.
LEMMA TableKept ==
  ASSUME FlowInv, [Next]_vars, UNCHANGED <<rows, state, cut>>
  PROVE  CutState' /\ FaultsStayLocal' /\ PassedWindowsHaveRows'
<1> USE DEF FlowInv
<1>1. RawInv' /\ Kept(raw, raw')
  BY NextRaw
<1>2. \A k : Disturbed(k) => Disturbed(k)'
  BY <1>1, DisturbedStays
<1> QED
  BY <1>2 DEF CutState, Skipped, FaultsStayLocal, PassedWindowsHaveRows

LEMMA InitFlow == Init => FlowInv
<1> SUFFICES ASSUME Init PROVE FlowInv
  OBVIOUS
<1>1. RawInv /\ Picked(typed, raw)
  BY InitRaw, InitPicked
<1>2. /\ head = 0 /\ raw = << >> /\ torn = FALSE /\ checkpoint = 0 /\ typed = << >>
      /\ rows = << >> /\ state = 0 /\ faults = 0 /\ cut = {}
  BY DEF Init
<1>3. DOMAIN rows = {} /\ MaxFaults \in Nat /\ LastBlock \in Nat
  <2>1. Logs[N].block \in Nat
    BY LogFacts
  <2> QED
    BY <1>2, <2>1, PipelineAssumption DEF LastBlock, N
<1>4. \A i \in 1..N : ~(Logs[i].ts <= state)
  BY <1>2, LogFacts
<1>5. \A k : \A i \in InWindow(k) : ~Skipped(i)
  BY <1>4, WindowFacts DEF Skipped
<1>6. TypeOK
  <2>1. Fetched \subseteq DOMAIN Logs /\ Range(typed) \subseteq Fetched
    BY <1>1, FetchedFacts
  <2>2. head \in 0..LastBlock /\ checkpoint \in 0..head /\ faults \in 0..MaxFaults
    BY <1>2, <1>3
  <2> QED
    BY <1>2, <1>3, <2>1, <2>2 DEF TypeOK
<1>7. CutState
  BY <1>5 DEF CutState
<1>8. FaultsStayLocal /\ PassedWindowsHaveRows
  BY <1>3, <1>4, LogFacts DEF FaultsStayLocal, PassedWindowsHaveRows
<1> QED
  BY <1>1, <1>6, <1>7, <1>8 DEF FlowInv

\* The types of what the commands before aggregate change.
LEMMA FileTypes ==
  ASSUME FlowInv, [Next]_vars, UNCHANGED <<rows, state, cut>>,
         head' \in 0..LastBlock, faults' \in 0..MaxFaults
  PROVE  TypeOK'
<1> USE DEF FlowInv
<1>1. RawInv' /\ Kept(raw, raw') /\ Picked(typed', raw')
  BY NextRaw, NextPicked
<1>2. Picked(typed, raw)'
  BY <1>1 DEF Picked, PickedUpTo, N
<1>3. Fetched \subseteq Fetched'
  BY <1>1, LinesStay
<1>4. (Fetched \subseteq DOMAIN Logs /\ Range(typed) \subseteq Fetched)'
  <2>1. raw' \in Seq(Line) /\ typed' \in Seq(1..N)
    BY <1>1 DEF RawInv, Climbs, Line, N, Picked, PickedUpTo
  <2>2. /\ DOMAIN raw' = 1..Len(raw') /\ DOMAIN typed' = 1..Len(typed')
        /\ \A d \in 1..Len(raw') : raw'[d] \in Line
    BY <2>1, ElementsTyped
  <2>3. PICK at \in [1..Len(typed') -> 1..Len(raw')] :
           \A a \in 1..Len(typed') : raw'[at[a]].log = typed'[a]
    BY <1>1 DEF Picked, PickedUpTo
  <2>4. \A d \in 1..Len(raw') : raw'[d].log \in 1..N
    BY <2>2 DEF Line
  <2>5. \A a \in 1..Len(typed') : typed'[a] \in Fetched'
    BY <2>2, <2>3 DEF Fetched
  <2> QED
    BY <2>2, <2>4, <2>5, LogFacts DEF Fetched, Range
<1>5. head' \in 0..LastBlock /\ checkpoint' \in 0..head' /\ torn' \in BOOLEAN
  BY <1>1 DEF RawInv
<1>6. \A k \in DOMAIN rows : Range(rows[k]) \subseteq Fetched' \cap InWindow(k)
  BY <1>3 DEF TypeOK
<1> QED
  BY <1>4, <1>5, <1>6 DEF TypeOK

LEMMA NextFlow == FlowInv /\ [Next]_vars => FlowInv'
<1> SUFFICES ASSUME FlowInv, [Next]_vars PROVE FlowInv'
  OBVIOUS
<1>0. /\ head \in 0..LastBlock /\ faults \in 0..MaxFaults /\ MaxFaults \in Nat /\ LastBlock \in Nat
      /\ RawInv /\ Picked(typed, raw)
  <2>1. Logs[N].block \in Nat
    BY LogFacts
  <2> QED
    BY <2>1, PipelineAssumption DEF FlowInv, TypeOK, LastBlock, N
<1>1. RawInv' /\ Picked(typed, raw)'
  <2>1. RawInv' /\ Picked(typed', raw')
    BY <1>0, NextRaw, NextPicked
  <2> QED
    BY <2>1 DEF Picked, PickedUpTo, N
<1>2. Fault => faults' \in 0..MaxFaults
  BY <1>0 DEF Fault
<1>3. ASSUME UNCHANGED <<rows, state, cut>>, head' \in 0..LastBlock, faults' \in 0..MaxFaults
      PROVE  FlowInv'
  BY <1>1, <1>3, FileTypes, TableKept DEF FlowInv
<1>4. CASE ChainGrows
  <2>1. head' \in 0..LastBlock
    BY <1>0, <1>4 DEF ChainGrows
  <2> QED
    BY <1>0, <1>3, <1>4, <2>1 DEF ChainGrows
<1>5. CASE RunBatch
  BY <1>0, <1>3, <1>5 DEF RunBatch
<1>6. CASE RunDies
  BY <1>0, <1>2, <1>3, <1>6 DEF RunDies
<1>7. CASE DecodeAll
  BY <1>0, <1>3, <1>7 DEF DecodeAll
<1>8. CASE DecodeDies
  BY <1>0, <1>2, <1>3, <1>8 DEF DecodeDies
<1>9. /\ state \in Nat /\ Len(typed) \in 0..Len(typed)
      /\ \A n, m \in 0..Len(typed) : m <= n => DOMAIN ClosedRows(m) \subseteq DOMAIN ClosedRows(n)
      /\ \A m \in 0..Len(typed) : DOMAIN ClosedRows(m) \subseteq DOMAIN AllRows
  <2>1. Len(typed) \in 0..Len(typed) /\ \A m \in 0..Len(typed) : m <= Len(typed)
    BY <1>0, TypedFacts
  <2>2. \A n, m \in 0..Len(typed) : m <= n => DOMAIN ClosedRows(m) \subseteq DOMAIN ClosedRows(n)
    BY <1>0, ClosedGrows
  <2> QED
    BY <2>1, <2>2, AllRowsMeaning DEF FlowInv, TypeOK
<1>10. Sound(AllRows, Len(typed)) /\ SavedFits(MaxTs(Len(typed)), AllRows, Len(typed))
  BY <1>0, <1>9, AllRowsSound, FinalFits
<1>11. CASE AggregateAll
  <2>1. {} \subseteq DOMAIN AllRows
    OBVIOUS
  <2> QED
    BY <1>0, <1>9, <1>10, <1>11, <2>1, AggregateKeeps DEF AggregateAll
<1>12. CASE AggregateLosesCommit
  <2>1. PICK lost \in SUBSET DOMAIN AllRows : Stores(AllRows, Len(typed), lost)
    BY <1>12 DEF AggregateLosesCommit
  <2> QED
    BY <1>2, <1>9, <1>10, <1>12, <2>1, AggregateKeeps DEF AggregateLosesCommit
<1>13. CASE AggregateDiesAtEnd
  <2>1. PICK lost \in SUBSET DOMAIN AllRows : Stores(AllRows, Len(typed), lost)
    BY <1>13 DEF AggregateDiesAtEnd
  <2>2. SavedFits(SavedBy(Len(typed)), AllRows, Len(typed))
    <3>1. Len(typed) <= Len(typed)
      BY <1>9
    <3> QED
      BY <1>0, <1>9, <3>1, SavedByFits
  <2> QED
    BY <1>2, <1>9, <1>10, <1>13, <2>1, <2>2, AggregateKeeps DEF AggregateDiesAtEnd
<1>14. CASE AggregateDiesScanning
  <2>1. PICK n \in 1..Len(typed) :
          /\ \E lost \in SUBSET DOMAIN ClosedRows(n) : Stores(ClosedRows(n), n, lost)
          /\ state' \in {SavedBy(n - 1), SavedBy(n)}
    BY <1>14 DEF AggregateDiesScanning
  <2>2. PICK lost \in SUBSET DOMAIN ClosedRows(n) : Stores(ClosedRows(n), n, lost)
    BY <2>1
  <2>3. n \in 0..Len(typed) /\ n - 1 \in 0..Len(typed) /\ n - 1 <= n /\ n <= n
    BY <1>9
  <2>4. Sound(ClosedRows(n), n)
    BY <1>0, <2>3, ClosedRowsSound
  <2>5. \A m \in 0..n : m \in 0..Len(typed) /\ DOMAIN ClosedRows(m) \subseteq DOMAIN ClosedRows(n)
    BY <1>9, <2>3
  <2>6. \A m \in 0..n - 1 : m \in 0..n
    OBVIOUS
  <2>7. SavedFits(SavedBy(n), ClosedRows(n), n)
    BY <1>0, <1>9, <2>3, <2>5, SavedByFits
  <2>8. SavedFits(SavedBy(n - 1), ClosedRows(n), n)
    BY <1>0, <1>9, <2>3, <2>5, <2>6, SavedByFits
  <2>9. SavedFits(state', ClosedRows(n), n)
    BY <2>1, <2>7, <2>8
  <2>10. PICK s : s = state'
    OBVIOUS
  <2>11. SavedFits(s, ClosedRows(n), n)
    BY <2>9, <2>10
  <2> QED
    BY <1>2, <1>14, <2>2, <2>3, <2>4, <2>10, <2>11, AggregateKeeps DEF AggregateDiesScanning
<1>15. CASE UNCHANGED vars
  BY <1>0, <1>3, <1>15 DEF vars
<1> QED
  BY <1>4, <1>5, <1>6, <1>7, <1>8, <1>11, <1>12, <1>13, <1>14, <1>15 DEF Next

THEOREM PipelineInvariant == Spec => []FlowInv
  BY InitFlow, NextFlow, PTL DEF Spec

\* The checkpoint is on the chain, events and rows are made of fetched logs, and a row's
\* logs are of its pool and window, whatever died and whatever was repeated.
THEOREM PipelineTyped == Spec => []TypeOK
<1>1. FlowInv => TypeOK
  BY DEF FlowInv
<1> QED
  BY <1>1, PipelineInvariant, PTL

\* A row is exactly the events of its window unless a fault hit this very window: a log of it
\* fetched twice (runner.go:90-125), a part of it aggregated, or its own commit lost.
THEOREM PipelineFaultsStayLocal == Spec => []FaultsStayLocal
<1>1. FlowInv => FaultsStayLocal
  BY DEF FlowInv
<1> QED
  BY <1>1, PipelineInvariant, PTL

\* A window the state has passed has its row, unless a fault hit this very window.
THEOREM PipelinePassedWindowsHaveRows == Spec => []PassedWindowsHaveRows
<1>1. FlowInv => PassedWindowsHaveRows
  BY DEF FlowInv
<1> QED
  BY <1>1, PipelineInvariant, PTL
=============================================================================
