--------------------------- MODULE AggregatorProofs ---------------------------
(***************************************************************************)
(* What the aggregate command promises, for every input in order, every    *)
(* sequence of runs and recomputations, and every batch size: its rows are *)
(* exact and the saved time stamp is safe wherever a run is interrupted.   *)
(***************************************************************************)
EXTENDS Aggregator, WellFoundedInduction, NaturalsInduction, TLAPS

\* The process has its start time, and so its share of the input.
Active == pc \notin {"down", "load"}
Taken == {i \in 1..pos : Feed[i].ts > startTs}

\* Events are still being taken: accumulators are only drained at the end.
Upserting == pc \in {"pools", "metrics", "save"}
Scanning == pc = "scan" \/ (Upserting /\ DOMAIN accs # {})

\* The control part, which holds whatever the input is.
ControlInv ==
  /\ TypeOK
  /\ len \in Cuts
  /\ \A p \in DOMAIN accs : \E n \in Events : KeyOf(n) = <<p, accs[p].window>>
  /\ pc # "down" => recomputeFrom \in RecomputeChoices /\ result = "none"
  /\ pc = "load" => pos = 0 /\ accs = << >> /\ batch = << >>
  /\ pc = "drain" => pos = len
  /\ Upserting /\ DOMAIN accs = {} => pos = len
  /\ pc = "save" => batch = << >>

\* Accumulators know the first block of their events; the pool of an entry of the batch
\* is stored or due, with a block no later than the entry's events.
DueBy(p, block) == \E n \in DOMAIN pools : pools[n].pool = p /\ pools[n].block <= block
StoredBy(p, block) == p \in DOMAIN firstSeen /\ firstSeen[p] <= block
FirstBlocks ==
  \A p \in DOMAIN accs :
    /\ accs[p].firstBlock > 0
    /\ \A i \in accs[p].events : accs[p].firstBlock <= Feed[i].block
PoolsDue ==
  \A p \in DOMAIN poolSeen :
    StoredBy(p, poolSeen[p]) \/ (pc # "metrics" /\ DueBy(p, poolSeen[p]))
BatchHasPools ==
  \A n \in DOMAIN batch :
    LET p == batch[n].key[1]
    IN  p \in DOMAIN poolSeen /\ \A i \in batch[n].row.events : poolSeen[p] <= Feed[i].block
PoolsInv == FirstBlocks /\ PoolsDue /\ BatchHasPools /\ RowsHavePool

\* What the run skips is in the table already, and is made of whole windows.
HasRowsUpTo(ts) ==
  \A i \in Events : Feed[i].ts <= ts /\ KeyOf(i) \in Keys => KeyOf(i) \in DOMAIN rows
StartInv ==
  /\ pc = "load" => recomputeFrom = 0 \/ recomputeFrom <= state + 1
  /\ Active => Separates(startTs) /\ HasRowsUpTo(startTs)

\* An accumulator holds all of its window that was scanned, and while scanning no
\* event taken is of a later window of its pool.
HoldsWindow(p, acc) ==
  /\ acc.events = {i \in 1..pos : KeyOf(i) = <<p, acc.window>> /\ Feed[i].ok}
  /\ \E n \in Taken :
       /\ KeyOf(n) = <<p, acc.window>>
       /\ \A i \in 1..pos : KeyOf(i) = KeyOf(n) => i <= n
       /\ acc.lastBlock = Feed[n].block /\ acc.lastTs = Feed[n].ts
AccsInv ==
  /\ Active => \A p \in DOMAIN accs : HoldsWindow(p, accs[p])
  /\ Scanning =>
       \A i \in Taken :
         /\ Feed[i].pool \in DOMAIN accs
         /\ WindowOf(Feed[i].ts) <= accs[Feed[i].pool].window

\* No event taken is lost: its window has a row, or one due, or is open.
Open == {<<p, accs[p].window>> : p \in DOMAIN accs}
TakenInv ==
  Active =>
    \A i \in Taken : KeyOf(i) \in Keys => KeyOf(i) \in DOMAIN rows \cup BatchKeys \cup Open

BatchInv == \A n \in DOMAIN batch : IsExact(batch[n].row, batch[n].key)

MaxTsInv ==
  Active =>
    /\ maxTs >= startTs
    /\ \A i \in Taken : Feed[i].ok => Feed[i].ts <= maxTs
    /\ maxTs = startTs \/ \E i \in Taken : Feed[i].ts = maxTs

TableInv ==
  /\ StartInv /\ AccsInv /\ TakenInv /\ BatchInv /\ MaxTsInv
  /\ RowsExact /\ StateIsSafe /\ SuccessIsComplete
-----------------------------------------------------------------------------
\* A set of natural numbers that is not empty has a least element.
LEMMA LeastExists ==
  ASSUME NEW S, S \subseteq Nat, S # {}
  PROVE  \E x \in S : \A y \in S : x <= y
<1>1. PICK x \in S : \A y \in S : ~(<<y, x>> \in OpToRel(<, Nat))
  BY NatLessThanWellFounded, WFMin
<1>2. ASSUME NEW y \in S PROVE x <= y
  <2>1. ~(y < x)
    BY <1>1 DEF OpToRel
  <2> QED
    BY <2>1
<1> QED
  BY <1>2

LEMMA MinMeaning ==
  ASSUME NEW S, S \subseteq Nat, S # {}
  PROVE  Min(S) \in S /\ \A y \in S : Min(S) <= y
  BY LeastExists DEF Min

\* Windows are multiples of their length, and an event is in the one it comes after.
LEMMA WindowStart ==
  ASSUME NEW ts \in Nat
  PROVE  /\ WindowOf(ts) \in Nat /\ WindowOf(ts) <= ts
         /\ ts < WindowOf(ts) + WindowSeconds
         /\ \E q \in Nat : WindowOf(ts) = WindowSeconds * q
<1>1. WindowSeconds \in Nat /\ WindowSeconds > 0
  BY FeedAssumption
<1> DEFINE q == ts \div WindowSeconds
           r == ts % WindowSeconds
<1>2. q \in Nat /\ r \in 0..WindowSeconds - 1 /\ ts = WindowSeconds * q + r
  BY <1>1
<1>3. WindowOf(ts) = ts - r
  BY DEF WindowOf
<1> HIDE DEF q, r
<1>4. WindowSeconds * q \in Nat
  BY <1>1, <1>2
<1>5. WindowOf(ts) = WindowSeconds * q
  BY <1>1, <1>2, <1>3, <1>4
<1> QED
  BY <1>1, <1>2, <1>3, <1>4, <1>5

LEMMA NextMultiple ==
  ASSUME NEW w \in Nat, NEW q \in Nat, NEW p \in Nat, q < p
  PROVE  w * q + w <= w * p
<1>1. PICK d \in Nat : p = q + 1 + d
  <2>1. p - (q + 1) \in Nat
    OBVIOUS
  <2> QED
    BY <2>1
<1>2. w * p = w * q + w + w * d /\ w * d \in Nat
  BY <1>1
<1> QED
  BY <1>2

LEMMA WindowOrder ==
  ASSUME NEW s \in Nat, NEW t \in Nat, WindowOf(s) <= t
  PROVE  WindowOf(s) <= WindowOf(t)
<1>1. PICK p \in Nat : WindowOf(s) = WindowSeconds * p
  BY WindowStart
<1>2. PICK q \in Nat : WindowOf(t) = WindowSeconds * q
  BY WindowStart
<1>3. /\ q < p => WindowSeconds * q + WindowSeconds <= WindowSeconds * p
      /\ p < q => WindowSeconds * p + WindowSeconds <= WindowSeconds * q
  BY NextMultiple, FeedAssumption
<1>4. /\ t < WindowOf(t) + WindowSeconds
      /\ WindowOf(t) \in Nat /\ WindowOf(s) \in Nat /\ WindowSeconds \in Nat
  BY WindowStart, FeedAssumption
<1>5. p <= q
  BY <1>1, <1>2, <1>3, <1>4
<1>6. p = q \/ p < q
  BY <1>5
<1> QED
  BY <1>1, <1>2, <1>3, <1>4, <1>6

\* The input: its events, their keys, and what being in order means for windows.
LEMMA FeedFacts ==
  /\ Events = 1..Len(Feed) /\ Len(Feed) \in Nat
  /\ \A i \in Events :
       /\ Feed[i].ts \in Nat /\ Feed[i].block \in Nat /\ Feed[i].ok \in BOOLEAN
       /\ Feed[i].pool \in Pools
       /\ WindowOf(Feed[i].ts) \in Nat /\ WindowOf(Feed[i].ts) <= Feed[i].ts
<1>1. Events = 1..Len(Feed) /\ Len(Feed) \in Nat
  BY FeedAssumption DEF Events
<1>2. \A i \in Events : Feed[i].ts \in Nat /\ Feed[i].block \in Nat /\ Feed[i].ok \in BOOLEAN
  BY FeedAssumption DEF Events
<1> QED
  BY <1>1, <1>2, WindowStart DEF Pools

LEMMA ConfigFacts ==
  /\ Cuts \subseteq 0..Len(Feed)
  /\ RecomputeChoices \subseteq Nat /\ BatchSize \in Nat \ {0} /\ MaxRuns \in Nat
  BY AggregatorAssumption

\* Functions and sequences.
LEMMA PutMeaning ==
  ASSUME NEW f, NEW x, NEW v
  PROVE  /\ DOMAIN Put(f, x, v) = DOMAIN f \cup {x}
         /\ Put(f, x, v)[x] = v
         /\ \A y \in DOMAIN f : y # x => Put(f, x, v)[y] = f[y]
  BY DEF Put

LEMMA PutTyped ==
  ASSUME NEW f, NEW D, NEW R, MapsTo(f, D, R), NEW x \in D, NEW v \in R
  PROVE  MapsTo(Put(f, x, v), D, R)
  BY DEF Put, MapsTo

LEMMA ElementsTyped ==
  ASSUME NEW S, NEW s \in Seq(S)
  PROVE  Len(s) \in Nat /\ DOMAIN s = 1..Len(s) /\ \A n \in DOMAIN s : s[n] \in S
  OBVIOUS

LEMMA AppendMeaning ==
  ASSUME NEW S, NEW s \in Seq(S), NEW e \in S
  PROVE  /\ Append(s, e) \in Seq(S)
         /\ Len(s) \in Nat /\ DOMAIN s = 1..Len(s)
         /\ DOMAIN Append(s, e) = DOMAIN s \cup {Len(s) + 1}
         /\ Append(s, e)[Len(s) + 1] = e
         /\ \A n \in DOMAIN s : Append(s, e)[n] = s[n]
<1>1. /\ Len(s) \in Nat /\ DOMAIN s = 1..Len(s)
      /\ Append(s, e) \in Seq(S) /\ DOMAIN Append(s, e) = 1..Len(s) + 1
      /\ Append(s, e)[Len(s) + 1] = e
      /\ \A n \in 1..Len(s) : Append(s, e)[n] = s[n]
  OBVIOUS
<1> QED
  BY <1>1

LEMMA LastEntryMeaning ==
  ASSUME NEW S, batch \in Seq(S), NEW k \in BatchKeys
  PROVE  LastEntry(k) \in DOMAIN batch /\ batch[LastEntry(k)].key = k
<1> DEFINE N == {n \in DOMAIN batch : batch[n].key = k}
           M == {Len(batch) - n : n \in N}
<1>1. Len(batch) \in Nat /\ DOMAIN batch = 1..Len(batch)
  OBVIOUS
<1>2. M \subseteq Nat /\ M # {}
  BY <1>1 DEF BatchKeys
<1>3. PICK x \in M : \A y \in M : x <= y
  BY <1>2, LeastExists
<1>4. PICK n \in N : x = Len(batch) - n
  OBVIOUS
<1>5. ASSUME NEW m \in N PROVE m <= n
  <2>1. m \in Nat /\ n \in Nat /\ Len(batch) - m \in M
    BY <1>1
  <2>2. Len(batch) - n <= Len(batch) - m
    BY <1>3, <1>4, <2>1
  <2> HIDE DEF N, M
  <2> QED
    BY <1>1, <2>1, <2>2
<1>6. \E m \in DOMAIN batch :
        batch[m].key = k /\ \A o \in DOMAIN batch : o > m => batch[o].key # k
  BY <1>1, <1>4, <1>5
<1> QED
  BY <1>6 DEF LastEntry

-----------------------------------------------------------------------------
\* Accumulators.
LEMMA AddEventMeaning ==
  ASSUME NEW acc \in Accumulator, NEW i \in Events
  PROVE  LET r == Feed[i]
             new == AddEvent(acc, i)
         IN  /\ new \in Accumulator /\ new.window = acc.window
             /\ new.events = IF r.ok THEN acc.events \cup {i} ELSE acc.events
             /\ new.lastBlock = IF r.ts >= acc.lastTs THEN r.block ELSE acc.lastBlock
             /\ new.lastTs = IF acc.lastTs >= r.ts THEN acc.lastTs ELSE r.ts
             /\ new.firstBlock = IF acc.firstBlock = 0 \/ r.block < acc.firstBlock
                                 THEN r.block ELSE acc.firstBlock
<1>1. Feed[i].ts \in Nat /\ Feed[i].block \in Nat /\ Feed[i].ok \in BOOLEAN
  BY FeedFacts
<1> QED
  BY <1>1 DEF AddEvent, Accumulator, MaxOf

LEMMA NewAccumulatorMeaning ==
  ASSUME NEW i \in Events
  PROVE  LET r == Feed[i]
             new == NewAccumulator(r)
         IN  /\ new \in Accumulator
             /\ new.window = WindowOf(r.ts) /\ new.events = {}
             /\ new.lastBlock = r.block /\ new.lastTs = r.ts /\ new.firstBlock = r.block
  BY FeedFacts DEF NewAccumulator, Accumulator

\* What ScanRecord does to the accumulators: the one of the event's pool gets it, or a
\* new one does; the one it had is then flushed.
LEMMA ScanMeaning ==
  ASSUME ControlInv, ScanRecord
  PROVE  LET i == pos + 1
             p == Feed[i].pool
         IN  /\ i \in Events /\ p \in Pools /\ i <= len /\ pc = "scan" /\ Feed[i].ts > startTs
             /\ \E acc \in Accumulator :
                  /\ accs' = Put(accs, p, AddEvent(acc, i))
                  /\ acc.window = WindowOf(Feed[i].ts)
                  /\ \/ p \in DOMAIN accs /\ acc = accs[p] /\ UNCHANGED pending
                     \/ /\ acc = NewAccumulator(Feed[i])
                        /\ \/ p \notin DOMAIN accs /\ UNCHANGED pending
                           \/ p \in DOMAIN accs /\ accs[p].window # acc.window /\ Flush(p)
<1> DEFINE i == pos + 1
           p == Feed[i].pool
<1>1. i \in Events /\ i <= len
  BY FeedFacts DEF ControlInv, TypeOK, ScanRecord
<1>2. p \in Pools
  BY <1>1, FeedFacts
<1>3. p \in DOMAIN accs => accs[p] \in Accumulator
  BY DEF ControlInv, TypeOK, MapsTo
<1>4. NewAccumulator(Feed[i]) \in Accumulator /\ NewAccumulator(Feed[i]).window = WindowOf(Feed[i].ts)
  BY <1>1, NewAccumulatorMeaning
<1>5. CASE AddToWindow(i)
  BY <1>1, <1>2, <1>3, <1>5 DEF AddToWindow, ScanRecord
<1>6. CASE OpenWindow(i)
  BY <1>1, <1>2, <1>4, <1>6 DEF OpenWindow, ScanRecord
<1>7. CASE RollWindow(i)
  BY <1>1, <1>2, <1>4, <1>7 DEF RollWindow, ScanRecord
<1> QED
  BY <1>5, <1>6, <1>7 DEF ScanRecord

\* What Flush adds to the batch and to the pools that are due.
Entry(p) == [key |-> <<p, accs[p].window>>, row |-> Row(accs[p])]
LEMMA FlushMeaning ==
  ASSUME ControlInv, NEW p \in DOMAIN accs, Flush(p)
  PROVE  /\ p \in Pools
         /\ \/ p \in NoMeta /\ UNCHANGED pending
            \/ /\ Entry(p) \in BatchEntry
               /\ batch' = Append(batch, Entry(p))
               /\ \/ /\ p \in DOMAIN poolSeen /\ poolSeen[p] <= accs[p].firstBlock
                     /\ UNCHANGED <<pools, poolSeen>>
                  \/ /\ p \in DOMAIN poolSeen => accs[p].firstBlock < poolSeen[p]
                     /\ pools' = Append(pools, [pool |-> p, block |-> accs[p].firstBlock])
                     /\ poolSeen' = Put(poolSeen, p, accs[p].firstBlock)
<1>1. p \in Pools /\ accs[p] \in Accumulator
  BY DEF ControlInv, TypeOK, MapsTo
<1>2. Row(accs[p]) \in MetricsRow
  BY <1>1 DEF Row, Accumulator, MetricsRow
<1>3. p \notin NoMeta => <<p, accs[p].window>> \in Keys
  BY DEF ControlInv, Keys
<1>4. p \notin NoMeta => Entry(p) \in BatchEntry
  BY <1>2, <1>3 DEF Entry, BatchEntry
<1>5. p \in DOMAIN poolSeen => poolSeen[p] \in Nat
  BY DEF ControlInv, TypeOK, MapsTo
<1>6. accs[p].firstBlock \in Nat
  BY <1>1 DEF Accumulator
<1>7. CASE p \in NoMeta
  BY <1>1, <1>7 DEF Flush
<1>8. CASE p \notin NoMeta /\ Registers(p, accs[p])
  BY <1>1, <1>4, <1>5, <1>6, <1>8 DEF Flush, Registers, Entry
<1>9. CASE p \notin NoMeta /\ ~Registers(p, accs[p])
  BY <1>1, <1>4, <1>5, <1>6, <1>9 DEF Flush, Registers, Entry
<1> QED
  BY <1>7, <1>8, <1>9

LEMMA PendingTyped ==
  ASSUME ControlInv
  PROVE  /\ batch \in Seq(BatchEntry) /\ pools \in Seq(PoolRecord)
         /\ Len(batch) \in Nat /\ DOMAIN batch = 1..Len(batch)
         /\ Len(pools) \in Nat /\ DOMAIN pools = 1..Len(pools)
         /\ \A n \in DOMAIN batch : batch[n].key \in Keys /\ batch[n].row \in MetricsRow
         /\ \A n \in DOMAIN pools : pools[n].pool \in Pools /\ pools[n].block \in Nat
<1>1. batch \in Seq(BatchEntry) /\ pools \in Seq(PoolRecord)
  BY DEF ControlInv, TypeOK
<1>2. /\ Len(batch) \in Nat /\ DOMAIN batch = 1..Len(batch)
      /\ Len(pools) \in Nat /\ DOMAIN pools = 1..Len(pools)
      /\ \A n \in DOMAIN batch : batch[n] \in BatchEntry
      /\ \A n \in DOMAIN pools : pools[n] \in PoolRecord
  BY <1>1, ElementsTyped
<1> QED
  BY <1>1, <1>2 DEF BatchEntry, PoolRecord

LEMMA FlushTyped ==
  ASSUME ControlInv, NEW p \in DOMAIN accs, UNCHANGED pending \/ Flush(p)
  PROVE  batch' \in Seq(BatchEntry) /\ pools' \in Seq(PoolRecord) /\ MapsTo(poolSeen', Pools, Nat)
<1> DEFINE due == [pool |-> p, block |-> accs[p].firstBlock]
<1>1. batch \in Seq(BatchEntry) /\ pools \in Seq(PoolRecord) /\ MapsTo(poolSeen, Pools, Nat)
  BY PendingTyped DEF ControlInv, TypeOK
<1>2. CASE UNCHANGED pending
  BY <1>1, <1>2 DEF pending
<1>3. CASE Flush(p)
  <2>1. /\ p \in Pools
        /\ \/ UNCHANGED pending
           \/ /\ Entry(p) \in BatchEntry /\ batch' = Append(batch, Entry(p))
              /\ \/ UNCHANGED <<pools, poolSeen>>
                 \/ pools' = Append(pools, due) /\ poolSeen' = Put(poolSeen, p, accs[p].firstBlock)
    BY <1>3, FlushMeaning
  <2>2. accs[p].firstBlock \in Nat
    BY DEF ControlInv, TypeOK, MapsTo, Accumulator
  <2>3. due \in PoolRecord
    BY <2>1, <2>2 DEF PoolRecord
  <2>4. batch' = Append(batch, Entry(p)) /\ Entry(p) \in BatchEntry => batch' \in Seq(BatchEntry)
    BY <1>1, AppendMeaning
  <2>5. pools' = Append(pools, due) => pools' \in Seq(PoolRecord)
    BY <1>1, <2>3, AppendMeaning
  <2>6. poolSeen' = Put(poolSeen, p, accs[p].firstBlock) => MapsTo(poolSeen', Pools, Nat)
    BY <1>1, <2>1, <2>2, PutTyped
  <2> QED
    BY <1>1, <2>1, <2>4, <2>5, <2>6 DEF pending
<1> QED
  BY <1>2, <1>3

\* UpsertPools keeps the least of the blocks a pool is stored with or due with.
LEMMA UpsertPoolsMeaning ==
  ASSUME ControlInv, UpsertPools
  PROVE  /\ DOMAIN firstSeen' = DOMAIN firstSeen \cup {pools[n].pool : n \in DOMAIN pools}
         /\ MapsTo(firstSeen', Pools, Nat)
         /\ \A p \in DOMAIN firstSeen : firstSeen'[p] <= firstSeen[p]
         /\ \A n \in DOMAIN pools : firstSeen'[pools[n].pool] <= pools[n].block
<1> DEFINE D == DOMAIN firstSeen \cup {pools[n].pool : n \in DOMAIN pools}
<1>1. firstSeen' = [p \in D |-> Min(BlocksOf(p))]
  BY DEF UpsertPools
<1>2. \A n \in DOMAIN pools : pools[n].pool \in Pools /\ pools[n].block \in Nat
  BY PendingTyped
<1>3. \A p \in DOMAIN firstSeen : p \in Pools /\ firstSeen[p] \in Nat
  BY DEF ControlInv, TypeOK, MapsTo
<1>4. ASSUME NEW p \in D
      PROVE  /\ Min(BlocksOf(p)) \in Nat
             /\ \A b \in BlocksOf(p) : Min(BlocksOf(p)) <= b
  <2>1. BlocksOf(p) \subseteq Nat
    BY <1>2, <1>3 DEF BlocksOf
  <2>2. BlocksOf(p) # {}
    BY DEF BlocksOf
  <2> QED
    BY <2>1, <2>2, MinMeaning
<1>5. \A p \in DOMAIN firstSeen : firstSeen[p] \in BlocksOf(p)
  BY DEF BlocksOf
<1>6. \A n \in DOMAIN pools : pools[n].block \in BlocksOf(pools[n].pool)
  BY DEF BlocksOf
<1>7. D \subseteq Pools
  BY <1>2, <1>3
<1> QED
  BY <1>1, <1>4, <1>5, <1>6, <1>7 DEF MapsTo

\* UpsertWindowMetrics replaces the rows of the batch's keys by rows of the batch.
LEMMA UpsertMetricsMeaning ==
  ASSUME ControlInv, UpsertWindowMetrics
  PROVE  /\ DOMAIN rows' = DOMAIN rows \cup BatchKeys
         /\ BatchKeys \subseteq Keys
         /\ \A k \in DOMAIN rows' :
              \/ k \in DOMAIN rows /\ rows'[k] = rows[k]
              \/ \E n \in DOMAIN batch : batch[n].key = k /\ rows'[k] = batch[n].row
         /\ MapsTo(rows', Keys, MetricsRow)
<1>1. /\ batch \in Seq(BatchEntry)
      /\ \A n \in DOMAIN batch : batch[n].key \in Keys /\ batch[n].row \in MetricsRow
  BY PendingTyped
<1>2. rows' = [k \in DOMAIN rows \cup BatchKeys |->
                IF k \in BatchKeys THEN batch[LastEntry(k)].row ELSE rows[k]]
  BY DEF UpsertWindowMetrics
<1>3. BatchKeys \subseteq Keys
  BY <1>1 DEF BatchKeys
<1>4. \A k \in BatchKeys : LastEntry(k) \in DOMAIN batch /\ batch[LastEntry(k)].key = k
  BY <1>1, LastEntryMeaning
<1>5. DOMAIN rows \subseteq Keys /\ \A k \in DOMAIN rows : rows[k] \in MetricsRow
  BY DEF ControlInv, TypeOK, MapsTo
<1>6. ASSUME NEW k \in DOMAIN rows'
      PROVE  /\ \/ k \in DOMAIN rows /\ rows'[k] = rows[k]
                \/ \E n \in DOMAIN batch : batch[n].key = k /\ rows'[k] = batch[n].row
             /\ rows'[k] \in MetricsRow
  <2>1. CASE k \in BatchKeys
    BY <2>1, <1>1, <1>2, <1>4
  <2>2. CASE k \notin BatchKeys
    BY <2>2, <1>2, <1>5
  <2> QED
    BY <2>1, <2>2
<1> QED
  BY <1>2, <1>3, <1>5, <1>6 DEF MapsTo
-----------------------------------------------------------------------------
LEMMA InitControlInv == Init => ControlInv
<1> SUFFICES ASSUME Init PROVE ControlInv
  OBVIOUS
<1>1. 0 \in 0..MaxRuns /\ len \in 0..Len(Feed) /\ 0 \in 0..len
  BY ConfigFacts, FeedFacts DEF Init
<1>2. \A D, R : MapsTo(<< >>, D, R)
  BY DEF MapsTo
<1>3. \A S : << >> \in Seq(S)
  OBVIOUS
<1> QED
  BY <1>1, <1>2, <1>3 DEF Init, ControlInv, TypeOK, Upserting

LEMMA NextControlInv == ControlInv /\ [Next]_vars => ControlInv'
<1> SUFFICES ASSUME ControlInv, [Next]_vars PROVE ControlInv'
  OBVIOUS
<1> USE ConfigFacts, FeedFacts DEF Upserting, stored, times, pending
<1>1. CASE InputGrows
  <2>1. len' \in Cuts /\ len' > len /\ len' \in 0..Len(Feed) /\ pos \in 0..len'
    BY <1>1 DEF InputGrows, ControlInv, TypeOK
  <2> QED
    BY <1>1, <2>1 DEF InputGrows, ControlInv, TypeOK
<1>2. ASSUME NEW r \in RecomputeChoices, StartProcess(r) PROVE ControlInv'
  <2>1. runs' \in 0..MaxRuns /\ r \in Nat /\ 0 \in 0..len
    BY <1>2 DEF StartProcess, ControlInv, TypeOK
  <2>2. \A D, R : MapsTo(<< >>, D, R)
    BY DEF MapsTo
  <2>3. \A S : << >> \in Seq(S)
    OBVIOUS
  <2> QED
    BY <1>2, <2>1, <2>2, <2>3 DEF StartProcess, ControlInv, TypeOK
<1>3. CASE LoadStartTimestamp
  <2>1. startTs' \in Nat /\ maxTs' \in Nat
    BY <1>3 DEF LoadStartTimestamp, ControlInv, TypeOK, None
  <2> QED
    BY <1>3, <2>1 DEF LoadStartTimestamp, ControlInv, TypeOK
<1>4. CASE SkipRecord
  BY <1>4 DEF SkipRecord, ControlInv, TypeOK
<1>5. CASE ScanRecord
  <2> DEFINE i == pos + 1
             p == Feed[i].pool
  <2>1. PICK acc \in Accumulator :
          /\ i \in Events /\ p \in Pools /\ i <= len
          /\ accs' = Put(accs, p, AddEvent(acc, i)) /\ acc.window = WindowOf(Feed[i].ts)
          /\ UNCHANGED pending \/ (p \in DOMAIN accs /\ Flush(p))
    BY <1>5, ScanMeaning
  <2>2. AddEvent(acc, i) \in Accumulator /\ AddEvent(acc, i).window = WindowOf(Feed[i].ts)
    BY <2>1, AddEventMeaning
  <2>3. MapsTo(accs', Pools, Accumulator)
    BY <2>1, <2>2, PutTyped DEF ControlInv, TypeOK
  <2>8. /\ DOMAIN accs' = DOMAIN accs \cup {p} /\ accs'[p].window = WindowOf(Feed[i].ts)
        /\ \A q \in DOMAIN accs : q # p => accs'[q] = accs[q]
    <3> DEFINE new == AddEvent(acc, i)
    <3>1. accs' = Put(accs, p, new) /\ new.window = WindowOf(Feed[i].ts)
      BY <2>1, <2>2
    <3> HIDE DEF new, p
    <3> QED
      BY <3>1 DEF Put
  <2> HIDE DEF i
  <2>4. \A q \in DOMAIN accs' : \E n \in Events : KeyOf(n) = <<q, accs'[q].window>>
    BY <2>1, <2>8 DEF ControlInv, KeyOf
  <2>5. batch' \in Seq(BatchEntry) /\ pools' \in Seq(PoolRecord) /\ MapsTo(poolSeen', Pools, Nat)
    BY <2>1, FlushTyped DEF ControlInv, TypeOK
  <2>6. pos' \in 0..len /\ maxTs' \in Nat /\ pc' \in {"scan", "pools"}
    <3>1. pos' = i /\ i \in 1..len
      BY <1>5, <2>1 DEF ScanRecord, i
    <3>2. maxTs' \in {maxTs, Feed[i].ts} /\ pc' \in {"scan", "pools"}
      BY <1>5 DEF ScanRecord, MaxOf, i
    <3> QED
      BY <3>1, <3>2, <2>1 DEF ControlInv, TypeOK
  <2>7. UNCHANGED <<len, rows, firstSeen, state, recomputeFrom, startTs, runs, result>> /\ pc = "scan"
    BY <1>5 DEF ScanRecord
  <2> QED
    BY <2>3, <2>4, <2>5, <2>6, <2>7, <2>8 DEF ControlInv, TypeOK
<1>6. CASE EndOfInput
  BY <1>6 DEF EndOfInput, ControlInv, TypeOK
<1>7. CASE DrainAccumulator
  <2>1. PICK p \in DOMAIN accs : /\ Flush(p)
                                /\ accs' = [q \in DOMAIN accs \ {p} |-> accs[q]]
    BY <1>7 DEF DrainAccumulator
  <2>4. batch' \in Seq(BatchEntry) /\ pools' \in Seq(PoolRecord) /\ MapsTo(poolSeen', Pools, Nat)
    BY <2>1, FlushTyped
  <2>5. /\ MapsTo(accs', Pools, Accumulator)
        /\ \A q \in DOMAIN accs' : \E n \in Events : KeyOf(n) = <<q, accs'[q].window>>
    BY <2>1 DEF ControlInv, TypeOK, MapsTo
  <2>6. UNCHANGED <<len, stored, pc, times, pos, runs, result>> /\ pc = "drain"
    BY <1>7 DEF DrainAccumulator
  <2> QED
    BY <2>4, <2>5, <2>6 DEF ControlInv, TypeOK
<1>8. CASE Drained
  BY <1>8 DEF Drained, ControlInv, TypeOK
<1>9. CASE UpsertPools
  <2>1. MapsTo(firstSeen', Pools, Nat)
    BY <1>9, UpsertPoolsMeaning
  <2> QED
    BY <1>9, <2>1 DEF UpsertPools, ControlInv, TypeOK
<1>10. CASE UpsertWindowMetrics
  <2>1. MapsTo(rows', Keys, MetricsRow)
    BY <1>10, UpsertMetricsMeaning
  <2>2. \A S : << >> \in Seq(S)
    OBVIOUS
  <2> QED
    BY <1>10, <2>1, <2>2 DEF UpsertWindowMetrics, ControlInv, TypeOK
<1>11. CASE SaveState
  <2>1. PICK p \in DOMAIN accs : state' = SafeTs(accs[p].window)
    BY <1>11 DEF SaveState
  <2>2. accs[p].window \in Nat /\ recomputeFrom \in Nat
    BY DEF ControlInv, TypeOK, MapsTo, Accumulator
  <2>3. state' \in Nat
    BY <2>1, <2>2 DEF SafeTs
  <2> QED
    BY <1>11, <2>3 DEF SaveState, ControlInv, TypeOK
<1>12. CASE SaveFinalState
  BY <1>12 DEF SaveFinalState, ControlInv, TypeOK
<1>13. CASE Interrupted
  BY <1>13 DEF Interrupted, ControlInv, TypeOK
<1>14. CASE UNCHANGED vars
  BY <1>14 DEF vars, ControlInv, TypeOK
<1> QED
  BY <1>1, <1>2, <1>3, <1>4, <1>5, <1>6, <1>7, <1>8, <1>9, <1>10, <1>11, <1>12, <1>13, <1>14
     DEF Next, RunStep

\* Types, for every input and every sequence of runs.
THEOREM AggregatorTyped == Spec => []TypeOK
<1>1. ControlInv => TypeOK
  BY DEF ControlInv
<1> QED
  BY <1>1, InitControlInv, NextControlInv, PTL DEF Spec
-----------------------------------------------------------------------------
\* Flushing an accumulator puts its pool and its entry where the others are.
LEMMA FlushKeepsPools ==
  ASSUME ControlInv, PoolsInv, NEW p \in DOMAIN accs, UNCHANGED pending \/ Flush(p),
         UNCHANGED firstSeen, pc # "metrics", pc' # "metrics"
  PROVE  PoolsDue' /\ BatchHasPools'
<1>1. CASE UNCHANGED pending
  BY <1>1 DEF PoolsInv, PoolsDue, BatchHasPools, pending, DueBy, StoredBy, FirstBlocks
<1>2. CASE Flush(p) /\ ~UNCHANGED pending
  <2> DEFINE due == [pool |-> p, block |-> accs[p].firstBlock]
  <2>1. /\ p \in Pools /\ batch' = Append(batch, Entry(p))
        /\ \/ /\ p \in DOMAIN poolSeen /\ poolSeen[p] <= accs[p].firstBlock
              /\ UNCHANGED <<pools, poolSeen>>
           \/ /\ p \in DOMAIN poolSeen => accs[p].firstBlock < poolSeen[p]
              /\ pools' = Append(pools, due) /\ poolSeen' = Put(poolSeen, p, accs[p].firstBlock)
    BY <1>2, FlushMeaning
  <2>2. accs[p].firstBlock \in Nat /\ accs[p].events \subseteq Events
    BY DEF ControlInv, TypeOK, MapsTo, Accumulator
  <2>3. due \in PoolRecord /\ Entry(p) \in BatchEntry
    BY <1>2, <2>1, <2>2, FlushMeaning DEF PoolRecord
  <2>4. /\ DOMAIN batch' = DOMAIN batch \cup {Len(batch) + 1}
        /\ batch'[Len(batch) + 1] = Entry(p)
        /\ \A n \in DOMAIN batch : batch'[n] = batch[n]
    BY <2>1, <2>3, PendingTyped, AppendMeaning
  <2>5. pools' = Append(pools, due) =>
          /\ DOMAIN pools' = DOMAIN pools \cup {Len(pools) + 1}
          /\ pools'[Len(pools) + 1] = due
          /\ \A n \in DOMAIN pools : pools'[n] = pools[n]
    BY <2>3, PendingTyped, AppendMeaning
  <2>6. \A q \in DOMAIN poolSeen : poolSeen[q] \in Nat
    BY DEF ControlInv, TypeOK, MapsTo
  <2>7. /\ p \in DOMAIN poolSeen' /\ poolSeen'[p] <= accs[p].firstBlock /\ poolSeen'[p] \in Nat
        /\ DOMAIN poolSeen' = DOMAIN poolSeen \cup {p}
        /\ \A q \in DOMAIN poolSeen : poolSeen'[q] <= poolSeen[q] /\ poolSeen'[q] \in Nat
        /\ \A q \in DOMAIN poolSeen : q # p => poolSeen'[q] = poolSeen[q]
    <3>1. CASE p \in DOMAIN poolSeen /\ poolSeen[p] <= accs[p].firstBlock /\ UNCHANGED poolSeen
      BY <3>1, <2>2, <2>6
    <3>2. CASE /\ p \in DOMAIN poolSeen => accs[p].firstBlock < poolSeen[p]
               /\ poolSeen' = Put(poolSeen, p, accs[p].firstBlock)
      <4>1. /\ DOMAIN poolSeen' = DOMAIN poolSeen \cup {p} /\ poolSeen'[p] = accs[p].firstBlock
            /\ \A q \in DOMAIN poolSeen : q # p => poolSeen'[q] = poolSeen[q]
        BY <3>2 DEF Put
      <4>2. p \in DOMAIN poolSeen => accs[p].firstBlock <= poolSeen[p]
        BY <3>2, <2>2, <2>6
      <4> QED
        BY <4>1, <4>2, <2>2, <2>6
    <3> QED
      BY <2>1, <3>1, <3>2
  <2>8. ASSUME NEW q \in DOMAIN poolSeen'
        PROVE  StoredBy(q, poolSeen[q])' \/ DueBy(q, poolSeen[q])'
    <3>1. CASE q \in DOMAIN poolSeen /\ poolSeen'[q] = poolSeen[q]
      <4>1. StoredBy(q, poolSeen[q]) \/ DueBy(q, poolSeen[q])
        BY <3>1 DEF PoolsInv, FirstBlocks, PoolsDue, BatchHasPools
      <4>2. UNCHANGED pools \/ pools' = Append(pools, due)
        BY <2>1
      <4> QED
        BY <3>1, <4>1, <4>2, <2>5 DEF StoredBy, DueBy
    <3>2. CASE pools' = Append(pools, due) /\ q = p /\ poolSeen' = Put(poolSeen, p, accs[p].firstBlock)
      <4>1. poolSeen'[p] = accs[p].firstBlock
        BY <3>2 DEF Put
      <4>2. pools'[Len(pools) + 1].pool = p /\ pools'[Len(pools) + 1].block = accs[p].firstBlock
        BY <3>2, <2>5
      <4> QED
        BY <3>2, <4>1, <4>2, <2>2, <2>5 DEF DueBy
    <3> QED
      BY <2>1, <2>7, <3>1, <3>2
  <2>9. ASSUME NEW n \in DOMAIN batch'
        PROVE  /\ batch'[n].key[1] \in DOMAIN poolSeen'
               /\ \A i \in batch'[n].row.events : poolSeen'[batch'[n].key[1]] <= Feed[i].block
    <3>1. CASE n \in DOMAIN batch
      <4>1. batch[n].key[1] \in DOMAIN poolSeen /\ batch[n].row.events \subseteq Events
        BY <3>1, PendingTyped DEF PoolsInv, MetricsRow, FirstBlocks, PoolsDue, BatchHasPools
      <4> QED
        BY <3>1, <4>1, <2>4, <2>6, <2>7, FeedFacts DEF PoolsInv, FirstBlocks, PoolsDue, BatchHasPools
    <3>2. CASE n = Len(batch) + 1
      <4>1. batch'[n].key[1] = p /\ batch'[n].row.events = accs[p].events
        BY <3>2, <2>4 DEF Entry, Row
      <4> QED
        BY <4>1, <2>2, <2>7, FeedFacts DEF PoolsInv, FirstBlocks, PoolsDue, BatchHasPools
    <3> QED
      BY <2>4, <3>1, <3>2
  <2> QED
    BY <2>8, <2>9 DEF PoolsDue, BatchHasPools
<1> QED
  BY <1>1, <1>2

LEMMA InitPoolsInv == Init => PoolsInv
  BY DEF Init, PoolsInv, RowsHavePool, FirstBlocks, PoolsDue, BatchHasPools

\* No event is without a block number.
BlocksNumbered == \A i \in Events : Feed[i].block > 0
LEMMA NextPoolsInv ==
  ASSUME BlocksNumbered
  PROVE  ControlInv /\ PoolsInv /\ [Next]_vars => PoolsInv'
<1> SUFFICES ASSUME ControlInv, PoolsInv, [Next]_vars PROVE PoolsInv'
  OBVIOUS
<1> USE DEF stored, times, pending, StoredBy, DueBy, FirstBlocks, PoolsDue, BatchHasPools
<1>1. CASE InputGrows
  BY <1>1 DEF InputGrows, PoolsInv, RowsHavePool
<1>2. ASSUME NEW r \in RecomputeChoices, StartProcess(r) PROVE PoolsInv'
  BY <1>2 DEF StartProcess, PoolsInv, RowsHavePool
<1>3. CASE LoadStartTimestamp
  BY <1>3 DEF LoadStartTimestamp, PoolsInv, RowsHavePool
<1>4. CASE SkipRecord
  BY <1>4 DEF SkipRecord, PoolsInv, RowsHavePool
<1>5. CASE ScanRecord
  <2> DEFINE i == pos + 1
             p == Feed[i].pool
  <2>1. PICK acc \in Accumulator :
          /\ i \in Events /\ p \in Pools
          /\ accs' = Put(accs, p, AddEvent(acc, i))
          /\ \/ p \in DOMAIN accs /\ acc = accs[p]
             \/ acc = NewAccumulator(Feed[i])
          /\ UNCHANGED pending \/ (p \in DOMAIN accs /\ Flush(p))
    BY <1>5, ScanMeaning
  <2>2. UNCHANGED <<rows, firstSeen>> /\ pc = "scan" /\ pc' \in {"scan", "pools"}
    BY <1>5 DEF ScanRecord
  <2>3. PoolsDue' /\ BatchHasPools'
    BY <2>1, <2>2, FlushKeepsPools DEF PoolsInv, PoolsDue, BatchHasPools, FirstBlocks
  <2>4. /\ acc.firstBlock > 0 /\ acc.firstBlock \in Nat /\ acc.events \subseteq Events
        /\ \A e \in acc.events : acc.firstBlock <= Feed[e].block
    <3>1. acc.firstBlock \in Nat /\ acc.events \subseteq Events
      BY <2>1 DEF Accumulator
    <3>2. CASE p \in DOMAIN accs /\ acc = accs[p]
      BY <3>1, <3>2 DEF PoolsInv
    <3>3. CASE acc = NewAccumulator(Feed[i])
      BY <2>1, <3>1, <3>3, NewAccumulatorMeaning DEF BlocksNumbered
    <3> QED
      BY <2>1, <3>2, <3>3
  <2> DEFINE new == AddEvent(acc, i)
  <2>5. /\ new.firstBlock = IF acc.firstBlock = 0 \/ Feed[i].block < acc.firstBlock
                            THEN Feed[i].block ELSE acc.firstBlock
        /\ new.events \subseteq acc.events \cup {i}
    BY <2>1, AddEventMeaning
  <2>6. Feed[i].block \in Nat /\ Feed[i].block > 0 /\ \A e \in Events : Feed[e].block \in Nat
    BY <2>1, FeedFacts DEF BlocksNumbered
  <2>7. new.firstBlock > 0 /\ \A e \in new.events : new.firstBlock <= Feed[e].block
    <3> HIDE DEF new, i
    <3> QED
      BY <2>4, <2>5, <2>6
  <2>8. /\ DOMAIN accs' = DOMAIN accs \cup {p} /\ accs'[p] = new
        /\ \A q \in DOMAIN accs : q # p => accs'[q] = accs[q]
    <3> HIDE DEF new, p
    <3> QED
      BY <2>1 DEF Put, new
  <2> HIDE DEF new, p, i
  <2> QED
    BY <2>2, <2>3, <2>7, <2>8 DEF PoolsInv, RowsHavePool
<1>6. CASE EndOfInput
  BY <1>6 DEF EndOfInput, PoolsInv, RowsHavePool
<1>7. CASE DrainAccumulator
  <2>1. PICK p \in DOMAIN accs : /\ Flush(p)
                                /\ accs' = [q \in DOMAIN accs \ {p} |-> accs[q]]
    BY <1>7 DEF DrainAccumulator
  <2>2. UNCHANGED <<rows, firstSeen, pc>> /\ pc = "drain"
    BY <1>7 DEF DrainAccumulator
  <2>3. PoolsDue' /\ BatchHasPools'
    BY <2>1, <2>2, FlushKeepsPools
  <2> QED
    BY <2>1, <2>2, <2>3 DEF PoolsInv, RowsHavePool
<1>8. CASE Drained
  BY <1>8 DEF Drained, PoolsInv, RowsHavePool
<1>9. CASE UpsertPools
  <2>1. /\ DOMAIN firstSeen' = DOMAIN firstSeen \cup {pools[n].pool : n \in DOMAIN pools}
        /\ \A p \in DOMAIN firstSeen : firstSeen'[p] <= firstSeen[p]
        /\ \A n \in DOMAIN pools : firstSeen'[pools[n].pool] <= pools[n].block
        /\ \A p \in DOMAIN firstSeen' : firstSeen'[p] \in Nat
    BY <1>9, UpsertPoolsMeaning DEF MapsTo
  <2>2. /\ \A p \in DOMAIN firstSeen : firstSeen[p] \in Nat
        /\ \A p \in DOMAIN poolSeen : poolSeen[p] \in Nat
        /\ \A n \in DOMAIN pools : pools[n].block \in Nat
        /\ \A k \in DOMAIN rows : rows[k].events \subseteq Events
    BY PendingTyped DEF ControlInv, TypeOK, MapsTo, MetricsRow
  <2>3. UNCHANGED <<rows, poolSeen, accs, batch>> /\ pc = "pools"
    BY <1>9 DEF UpsertPools
  <2>4. ASSUME NEW p \in DOMAIN poolSeen PROVE p \in DOMAIN firstSeen' /\ firstSeen'[p] <= poolSeen[p]
    <3>1. CASE StoredBy(p, poolSeen[p])
      BY <3>1, <2>1, <2>2
    <3>2. CASE DueBy(p, poolSeen[p])
      BY <3>2, <2>1, <2>2
    <3> QED
      BY <2>3, <3>1, <3>2 DEF PoolsInv
  <2>5. RowsHavePool'
    BY <2>1, <2>2, <2>3, FeedFacts DEF PoolsInv, RowsHavePool
  <2> QED
    BY <2>3, <2>4, <2>5 DEF PoolsInv
<1>10. CASE UpsertWindowMetrics
  <2>1. /\ DOMAIN rows' = DOMAIN rows \cup BatchKeys
        /\ \A k \in DOMAIN rows' :
             \/ k \in DOMAIN rows /\ rows'[k] = rows[k]
             \/ \E n \in DOMAIN batch : batch[n].key = k /\ rows'[k] = batch[n].row
    BY <1>10, UpsertMetricsMeaning
  <2>2. UNCHANGED <<firstSeen, poolSeen, accs>> /\ batch' = << >> /\ pc = "metrics"
    BY <1>10 DEF UpsertWindowMetrics
  <2>3. \A p \in DOMAIN poolSeen : p \in DOMAIN firstSeen /\ firstSeen[p] <= poolSeen[p]
    BY <2>2 DEF PoolsInv
  <2>4. ASSUME NEW k \in DOMAIN rows'
        PROVE  /\ k[1] \in DOMAIN firstSeen
               /\ \A e \in rows'[k].events : firstSeen[k[1]] <= Feed[e].block
    <3>1. CASE k \in DOMAIN rows /\ rows'[k] = rows[k]
      BY <3>1 DEF PoolsInv, RowsHavePool
    <3>2. ASSUME NEW n \in DOMAIN batch, batch[n].key = k, rows'[k] = batch[n].row
          PROVE  /\ k[1] \in DOMAIN firstSeen
                 /\ \A e \in rows'[k].events : firstSeen[k[1]] <= Feed[e].block
      <4>1. /\ k[1] \in DOMAIN poolSeen
            /\ \A e \in batch[n].row.events : poolSeen[k[1]] <= Feed[e].block
        BY <3>2 DEF PoolsInv
      <4>2. /\ batch[n].row.events \subseteq Events
            /\ poolSeen[k[1]] \in Nat /\ firstSeen[k[1]] \in Nat
        BY <4>1, <2>3, PendingTyped DEF MetricsRow, ControlInv, TypeOK, MapsTo
      <4> QED
        BY <3>2, <4>1, <4>2, <2>3, FeedFacts
    <3> QED
      BY <2>1, <3>1, <3>2
  <2>5. RowsHavePool'
    BY <2>2, <2>4 DEF RowsHavePool
  <2> QED
    BY <2>2, <2>3, <2>5 DEF PoolsInv
<1>11. CASE SaveState
  BY <1>11 DEF SaveState, PoolsInv, RowsHavePool
<1>12. CASE SaveFinalState
  BY <1>12 DEF SaveFinalState, PoolsInv, RowsHavePool
<1>13. CASE Interrupted
  BY <1>13 DEF Interrupted, PoolsInv, RowsHavePool
<1>14. CASE UNCHANGED vars
  BY <1>14 DEF vars, PoolsInv, RowsHavePool
<1> QED
  BY <1>1, <1>2, <1>3, <1>4, <1>5, <1>6, <1>7, <1>8, <1>9, <1>10, <1>11, <1>12, <1>13, <1>14
     DEF Next, RunStep

\* Whatever the order of the events and wherever runs stop, a row's pool is stored before
\* it, with a first_seen_block no later than any event of the row.
THEOREM AggregatorRowsHavePool ==
  ASSUME BlocksNumbered
  PROVE  Spec => []RowsHavePool
<1>1. PoolsInv => RowsHavePool
  BY DEF PoolsInv
<1> QED
  BY <1>1, InitControlInv, NextControlInv, InitPoolsInv, NextPoolsInv, PTL DEF Spec
-----------------------------------------------------------------------------
\* Later events are of later windows, and an event after the start of a window is not of
\* an earlier one.
LEMMA OrderFacts ==
  ASSUME OrderlyInput
  PROVE  /\ \A i, j \in Events :
              i <= j => /\ Feed[i].ts <= Feed[j].ts
                        /\ WindowOf(Feed[i].ts) <= WindowOf(Feed[j].ts)
         /\ \A i, j \in Events :
              WindowOf(Feed[i].ts) <= Feed[j].ts => WindowOf(Feed[i].ts) <= WindowOf(Feed[j].ts)
         /\ \A i \in Events : WindowOf(Feed[i].ts) > 1
<1>1. \A i, j \in Events : i <= j => Feed[i].ts <= Feed[j].ts
  BY DEF OrderlyInput, SortedFeed
<1>2. \A i, j \in Events :
        WindowOf(Feed[i].ts) <= Feed[j].ts => WindowOf(Feed[i].ts) <= WindowOf(Feed[j].ts)
  BY FeedFacts, WindowOrder
<1>3. ASSUME NEW i \in Events, NEW j \in Events, i <= j
      PROVE  WindowOf(Feed[i].ts) <= WindowOf(Feed[j].ts)
  <2>1. Feed[i].ts <= Feed[j].ts /\ WindowOf(Feed[i].ts) <= Feed[i].ts
    BY <1>1, <1>3, FeedFacts
  <2>2. WindowOf(Feed[i].ts) <= Feed[j].ts
    BY <2>1, FeedFacts
  <2> QED
    BY <1>2, <2>2
<1>4. \A i \in Events : WindowOf(Feed[i].ts) > 1
  BY DEF OrderlyInput, Events
<1> QED
  BY <1>1, <1>2, <1>3, <1>4

\* A window is complete when no event to come is of it: its accumulator makes an exact row.
LEMMA CompleteIsExact ==
  ASSUME ControlInv, NEW p \in DOMAIN accs, HoldsWindow(p, accs[p]),
         \A j \in Events : j > pos => KeyOf(j) # <<p, accs[p].window>>
  PROVE  IsExact(Row(accs[p]), <<p, accs[p].window>>)
<1> DEFINE k == <<p, accs[p].window>>
<1>1. pos \in Nat /\ 1..pos \subseteq Events
  BY FeedFacts DEF ControlInv, TypeOK
<1>2. InWindow(k) = {i \in 1..pos : KeyOf(i) = k}
  BY <1>1, FeedFacts DEF InWindow
<1>3. accs[p].events = {i \in 1..pos : KeyOf(i) = k /\ Feed[i].ok}
  BY DEF HoldsWindow
<1>4. PICK n \in Taken : /\ KeyOf(n) = k
                         /\ \A i \in 1..pos : KeyOf(i) = KeyOf(n) => i <= n
                         /\ accs[p].lastBlock = Feed[n].block
  BY DEF HoldsWindow
<1>5. n \in InWindow(k) /\ \A i \in InWindow(k) : i <= n
  BY <1>2, <1>4 DEF Taken
<1>6. Row(accs[p]).events = accs[p].events /\ Row(accs[p]).tvlBlock = Feed[n].block
  BY <1>4 DEF Row
<1>7. accs[p].events = {i \in InWindow(k) : Feed[i].ok}
  BY <1>2, <1>3
<1> HIDE DEF k
<1>8. IsExact(Row(accs[p]), k)
  BY <1>5, <1>6, <1>7 DEF IsExact
<1> QED
  BY <1>8 DEF k

\* A window is complete when an event of a later window of its pool comes, and when the
\* input ends.
LEMMA RolledIsComplete ==
  ASSUME OrderlyInput, ControlInv, NEW p \in DOMAIN accs, HoldsWindow(p, accs[p]),
         NEW i \in Events, i = pos + 1, Feed[i].pool = p, accs[p].window # WindowOf(Feed[i].ts)
  PROVE  /\ accs[p].window < WindowOf(Feed[i].ts)
         /\ \A j \in Events : j > pos => KeyOf(j) # <<p, accs[p].window>>
<1>1. PICK n \in Taken : KeyOf(n) = <<p, accs[p].window>>
  BY DEF HoldsWindow
<1>2. pos \in Nat /\ n \in 1..pos /\ n \in Events
  BY <1>1, FeedFacts DEF ControlInv, TypeOK, Taken
<1>3. WindowOf(Feed[n].ts) = accs[p].window
  BY <1>1 DEF KeyOf
<1>4. accs[p].window < WindowOf(Feed[i].ts)
  BY <1>2, <1>3, OrderFacts, FeedFacts
<1>5. ASSUME NEW j \in Events, j > pos PROVE KeyOf(j) # <<p, accs[p].window>>
  <2>1. i <= j
    BY <1>2, <1>5, FeedFacts
  <2>2. WindowOf(Feed[i].ts) <= WindowOf(Feed[j].ts)
    BY <2>1, OrderFacts
  <2>3. WindowOf(Feed[j].ts) # accs[p].window
    BY <1>2, <1>3, <1>4, <2>2, FeedFacts
  <2> QED
    BY <2>3 DEF KeyOf
<1> QED
  BY <1>4, <1>5

LEMMA EndIsComplete ==
  ASSUME OrderlyInput, ControlInv, NEW p \in DOMAIN accs, HoldsWindow(p, accs[p]), pos = len
  PROVE  \A j \in Events : j > pos => KeyOf(j) # <<p, accs[p].window>>
<1>1. PICK n \in Taken : KeyOf(n) = <<p, accs[p].window>>
  BY DEF HoldsWindow
<1>2. /\ len \in Nat /\ n \in 1..len /\ n \in Events /\ len \in Events /\ len > 0
  BY <1>1, FeedFacts DEF ControlInv, TypeOK, Taken
<1>3. WindowOf(Feed[n].ts) = accs[p].window
  BY <1>1 DEF KeyOf
<1>4. Feed[n].ts <= Feed[len].ts
  BY <1>2, OrderFacts
<1>5. ASSUME NEW j \in Events, j > pos PROVE KeyOf(j) # <<p, accs[p].window>>
  <2>1. WindowOf(Feed[j].ts) > Feed[len].ts
    BY <1>2, <1>5 DEF OrderlyInput, EndsWindow, ControlInv
  <2>2. WindowOf(Feed[j].ts) # accs[p].window
    BY <1>2, <1>3, <1>4, <2>1, FeedFacts
  <2> QED
    BY <2>2 DEF KeyOf
<1> QED
  BY <1>5

\* Flushing a complete window keeps the batch exact, and the window's key.
LEMMA FlushKeepsBatch ==
  ASSUME ControlInv, BatchInv, NEW p \in DOMAIN accs, Flush(p), HoldsWindow(p, accs[p]),
         \A j \in Events : j > pos => KeyOf(j) # <<p, accs[p].window>>
  PROVE  /\ BatchInv'
         /\ BatchKeys \subseteq BatchKeys'
         /\ <<p, accs[p].window>> \in Keys => <<p, accs[p].window>> \in BatchKeys'
<1>1. CASE p \in NoMeta /\ UNCHANGED pending
  BY <1>1 DEF BatchInv, BatchKeys, pending, Keys
<1>2. CASE Entry(p) \in BatchEntry /\ batch' = Append(batch, Entry(p))
  <2>1. /\ DOMAIN batch' = DOMAIN batch \cup {Len(batch) + 1}
        /\ batch'[Len(batch) + 1] = Entry(p)
        /\ \A n \in DOMAIN batch : batch'[n] = batch[n]
    BY <1>2, PendingTyped, AppendMeaning
  <2>2. Entry(p).key = <<p, accs[p].window>> /\ Entry(p).row = Row(accs[p])
    BY DEF Entry
  <2>3. IsExact(Entry(p).row, Entry(p).key)
    BY <2>2, CompleteIsExact
  <2>4. BatchInv'
    BY <2>1, <2>3 DEF BatchInv
  <2> QED
    BY <2>1, <2>2, <2>4 DEF BatchKeys
<1> QED
  BY <1>1, <1>2, FlushMeaning
-----------------------------------------------------------------------------
\* Steps that touch neither the tables nor what is to be written to them.
LEMMA QuietStep ==
  ASSUME TableInv,
         UNCHANGED <<rows, state, startTs, maxTs, pos, accs, batch>>,
         Active' => Active, Scanning' => Scanning, result' = "ok" => result = "ok",
         pc' = "load" => pc = "load" /\ UNCHANGED recomputeFrom
  PROVE  TableInv'
<1> USE DEF TableInv
<1>1. Taken' = Taken /\ Open' = Open /\ BatchKeys' = BatchKeys
  BY DEF Taken, Open, BatchKeys
<1>2. StartInv'
  BY DEF StartInv, HasRowsUpTo, Separates, KeyOf, Keys, Events
<1>3. AccsInv'
  BY <1>1 DEF AccsInv, HoldsWindow
<1>4. TakenInv' /\ MaxTsInv' /\ BatchInv'
  BY <1>1 DEF TakenInv, MaxTsInv, BatchInv
<1>5. RowsExact' /\ StateIsSafe' /\ SuccessIsComplete'
  BY DEF RowsExact, StateIsSafe, SuccessIsComplete
<1> QED
  BY <1>2, <1>3, <1>4, <1>5

LEMMA StartKeepsTable ==
  ASSUME ControlInv, TableInv, NEW r \in RecomputeChoices, StartProcess(r)
  PROVE  TableInv'
<1> USE DEF TableInv, stored
<1>1. StartInv'
  BY DEF StartProcess, StartInv, RecomputesThePast, Active
<1>2. AccsInv' /\ TakenInv' /\ MaxTsInv' /\ BatchInv'
  BY DEF StartProcess, AccsInv, TakenInv, MaxTsInv, BatchInv, Active, Scanning, Upserting
<1>3. RowsExact' /\ StateIsSafe' /\ SuccessIsComplete'
  BY DEF StartProcess, RowsExact, StateIsSafe, SuccessIsComplete
<1> QED
  BY <1>1, <1>2, <1>3

LEMMA LoadKeepsTable ==
  ASSUME OrderlyInput, ControlInv, TableInv, LoadStartTimestamp
  PROVE  TableInv'
<1> USE DEF TableInv, stored, pending
<1>1. /\ pc = "load" /\ pc' = "scan" /\ pos' = 0 /\ accs' = << >> /\ batch' = << >>
      /\ UNCHANGED <<rows, state, result>> /\ maxTs' = startTs' /\ startTs' \in Nat
  BY DEF LoadStartTimestamp, ControlInv, TypeOK, None
<1>2. Taken' = {} /\ DOMAIN accs' = {}
  BY <1>1 DEF Taken
<1>3. Separates(startTs') /\ \A i \in Events : Feed[i].ts <= startTs' /\ KeyOf(i) \in Keys => KeyOf(i) \in DOMAIN rows
  <2>1. CASE recomputeFrom > 0
    <3>1. startTs' = recomputeFrom - 1 /\ recomputeFrom \in Nat /\ state \in Nat \cup {-1}
      BY <2>1 DEF LoadStartTimestamp, ControlInv, TypeOK, None
    <3>2. Separates(startTs')
      BY <1>1, <2>1, <3>1 DEF OrderlyInput, ControlInv
    <3>3. startTs' <= state
      BY <1>1, <2>1, <3>1 DEF StartInv
    <3> QED
      BY <3>1, <3>2, <3>3, FeedFacts DEF StateIsSafe
  <2>2. CASE startTs' = 0
    <3>1. \A i \in Events : Feed[i].ts > 0
      BY FeedFacts, OrderFacts
    <3> QED
      BY <2>2, <3>1, FeedFacts DEF Separates
  <2>3. CASE startTs' = state
    BY <2>3 DEF StateIsSafe
  <2> QED
    BY <2>1, <2>2, <2>3 DEF LoadStartTimestamp, ControlInv, TypeOK
<1>4. StartInv'
  BY <1>1, <1>3 DEF StartInv, HasRowsUpTo
<1>5. AccsInv' /\ TakenInv' /\ MaxTsInv' /\ BatchInv'
  BY <1>1, <1>2 DEF AccsInv, TakenInv, MaxTsInv, BatchInv
<1>6. RowsExact' /\ StateIsSafe' /\ SuccessIsComplete'
  BY <1>1 DEF RowsExact, StateIsSafe, SuccessIsComplete, ControlInv
<1> QED
  BY <1>4, <1>5, <1>6

LEMMA SkipKeepsTable ==
  ASSUME OrderlyInput, ControlInv, TableInv, SkipRecord
  PROVE  TableInv'
<1> DEFINE i == pos + 1
<1> USE DEF TableInv, stored, times, pending
<1>1. /\ pc = "scan" /\ pc' = "scan" /\ pos' = i /\ pos \in Nat
      /\ i \in Events /\ Feed[i].ts <= startTs /\ startTs \in Nat
      /\ UNCHANGED <<rows, state, startTs, maxTs, accs, batch, result>>
  BY FeedFacts DEF SkipRecord, ControlInv, TypeOK
<1>2. 1..i = 1..pos \cup {i}
  BY <1>1
<1>3. Taken' = Taken
  BY <1>1, <1>2, FeedFacts DEF Taken
<1>4. Taken = {}
  <2> SUFFICES ASSUME NEW n \in Taken PROVE FALSE
    OBVIOUS
  <2>1. n \in Events /\ n <= i /\ Feed[n].ts > startTs
    BY <1>1, FeedFacts DEF Taken
  <2> QED
    BY <1>1, <2>1, OrderFacts, FeedFacts
<1>5. DOMAIN accs = {}
  BY <1>1, <1>4 DEF AccsInv, HoldsWindow, Active
<1>6. StartInv'
  BY <1>1 DEF StartInv, HasRowsUpTo, Active
<1>7. AccsInv' /\ TakenInv' /\ MaxTsInv' /\ BatchInv'
  BY <1>1, <1>3, <1>4, <1>5 DEF AccsInv, TakenInv, MaxTsInv, BatchInv, Active
<1>8. RowsExact' /\ StateIsSafe' /\ SuccessIsComplete'
  BY <1>1 DEF RowsExact, StateIsSafe, SuccessIsComplete, ControlInv
<1> QED
  BY <1>6, <1>7, <1>8

\* The event scanned is in the open window of its pool then, which holds all of its
\* window that was scanned.
LEMMA ScanHoldsWindow ==
  ASSUME OrderlyInput, ControlInv, TableInv, ScanRecord,
         NEW i, i = pos + 1, NEW p, p = Feed[i].pool
  PROVE  /\ DOMAIN accs' = DOMAIN accs \cup {p}
         /\ \A q \in DOMAIN accs : q # p => accs'[q] = accs[q]
         /\ accs'[p].window = WindowOf(Feed[i].ts)
         /\ HoldsWindow(p, accs[p])'
         /\ \/ p \in DOMAIN accs /\ accs[p].window = WindowOf(Feed[i].ts) /\ UNCHANGED pending
            \/ p \notin DOMAIN accs /\ UNCHANGED pending
            \/ p \in DOMAIN accs /\ accs[p].window # WindowOf(Feed[i].ts) /\ Flush(p)
<1> DEFINE w == WindowOf(Feed[i].ts)
<1>1. PICK acc \in Accumulator :
        /\ accs' = Put(accs, p, AddEvent(acc, i)) /\ acc.window = w
        /\ \/ p \in DOMAIN accs /\ acc = accs[p] /\ UNCHANGED pending
           \/ /\ acc = NewAccumulator(Feed[i])
              /\ \/ p \notin DOMAIN accs /\ UNCHANGED pending
                 \/ p \in DOMAIN accs /\ accs[p].window # w /\ Flush(p)
  BY ScanMeaning
<1> DEFINE new == AddEvent(acc, i)
<1>2. /\ DOMAIN accs' = DOMAIN accs \cup {p} /\ accs'[p] = new
      /\ \A q \in DOMAIN accs : q # p => accs'[q] = accs[q]
  <2> HIDE DEF new
  <2> QED
    BY <1>1 DEF Put, new
<1>3. i \in Events /\ pos \in Nat /\ 1..i = 1..pos \cup {i} /\ 1..pos \subseteq Events /\ pos < i
  <2>1. i \in Events /\ pos \in Nat
    BY ScanMeaning DEF ControlInv, TypeOK
  <2> QED
    BY <2>1, FeedFacts
<1>4. /\ pos' = i /\ startTs' = startTs /\ Feed[i].ts > startTs /\ pc = "scan"
  BY DEF ScanRecord
<1>5. Taken' = Taken \cup {i}
  BY <1>3, <1>4 DEF Taken
<1>6. /\ new.window = w
      /\ new.events = IF Feed[i].ok THEN acc.events \cup {i} ELSE acc.events
      /\ new.lastBlock = IF Feed[i].ts >= acc.lastTs THEN Feed[i].block ELSE acc.lastBlock
      /\ new.lastTs = IF acc.lastTs >= Feed[i].ts THEN acc.lastTs ELSE Feed[i].ts
  BY <1>1, <1>3, AddEventMeaning
<1>7. /\ acc.events = {j \in 1..pos : KeyOf(j) = <<p, w>> /\ Feed[j].ok}
      /\ acc.lastTs \in Nat /\ acc.lastTs <= Feed[i].ts
  <2>1. CASE p \in DOMAIN accs /\ acc = accs[p]
    <3>1. HoldsWindow(p, acc)
      BY <1>4, <2>1 DEF TableInv, AccsInv, Active
    <3>2. PICK n \in Taken : acc.lastTs = Feed[n].ts
      BY <3>1 DEF HoldsWindow
    <3>3. n \in Events /\ n <= i
      BY <1>3 DEF Taken
    <3> QED
      BY <1>1, <1>3, <3>1, <3>2, <3>3, OrderFacts, FeedFacts DEF HoldsWindow
  <2>2. CASE /\ acc = NewAccumulator(Feed[i])
             /\ p \in DOMAIN accs => accs[p].window # w
    <3>1. acc.events = {} /\ acc.lastTs = Feed[i].ts
      BY <1>3, <2>2, NewAccumulatorMeaning
    <3>2. ASSUME NEW j \in 1..pos, KeyOf(j) = <<p, w>> PROVE FALSE
      <4>1. j \in Events /\ KeyOf(j) = KeyOf(i)
        BY <1>3, <3>2 DEF KeyOf
      <4>2. Separates(startTs)
        BY <1>4 DEF TableInv, StartInv, Active
      <4>3. j \in Taken
        <5>1. Feed[j].ts \in Nat /\ Feed[i].ts \in Nat /\ startTs \in Nat
          BY <1>3, <4>1, FeedFacts DEF ControlInv, TypeOK
        <5>2. ~(Feed[j].ts <= startTs)
          BY <1>3, <1>4, <4>1, <4>2, <5>1 DEF Separates
        <5> QED
          BY <5>1, <5>2 DEF Taken
      <4>4. Feed[j].pool = p /\ WindowOf(Feed[j].ts) = w
        BY <3>2 DEF KeyOf
      <4>5. p \in DOMAIN accs /\ w <= accs[p].window
        BY <1>4, <4>3, <4>4 DEF TableInv, AccsInv, Scanning
      <4>6. HoldsWindow(p, accs[p])
        BY <1>4, <4>5 DEF TableInv, AccsInv, Active
      <4>7. accs[p].window < w
        BY <1>3, <2>2, <4>5, <4>6, RolledIsComplete
      <4>8. accs[p].window \in Nat /\ w \in Nat
        BY <1>3, <4>5, FeedFacts DEF ControlInv, TypeOK, MapsTo, Accumulator
      <4> QED
        BY <4>5, <4>7, <4>8
    <3> QED
      BY <1>3, <3>1, <3>2, FeedFacts
  <2> QED
    BY <1>1, <2>1, <2>2
<1>8. /\ new.events = {j \in 1..i : KeyOf(j) = <<p, w>> /\ Feed[j].ok}
      /\ new.lastBlock = Feed[i].block /\ new.lastTs = Feed[i].ts
  <2>1. KeyOf(i) = <<p, w>> /\ Feed[i].ts \in Nat /\ Feed[i].ok \in BOOLEAN
    BY <1>3, FeedFacts DEF KeyOf
  <2> HIDE DEF new, w
  <2> QED
    BY <1>3, <1>6, <1>7, <2>1
<1>9. HoldsWindow(p, accs[p])'
  <2>1. i \in Taken' /\ KeyOf(i) = <<p, w>> /\ \A j \in 1..i : j <= i
    BY <1>3, <1>5 DEF KeyOf
  <2> HIDE DEF new, w
  <2> QED
    BY <1>2, <1>4, <1>6, <1>8, <2>1 DEF HoldsWindow
<1> QED
  BY <1>1, <1>2, <1>6, <1>9

LEMMA ScanKeepsTable ==
  ASSUME OrderlyInput, ControlInv, TableInv, ScanRecord
  PROVE  TableInv'
<1> USE DEF TableInv
<1>0. PICK i : i = pos + 1
  OBVIOUS
<1>1. PICK p : p = Feed[i].pool
  OBVIOUS
<1> DEFINE w == WindowOf(Feed[i].ts)
<1>2. /\ i \in Events /\ Feed[i].ts \in Nat /\ Feed[i].ok \in BOOLEAN
      /\ pos \in Nat /\ 1..i = 1..pos \cup {i} /\ 1..pos \subseteq Events /\ pos < i
  <2>1. i \in Events /\ pos \in Nat
    BY <1>0, ScanMeaning DEF ControlInv, TypeOK
  <2> QED
    BY <1>0, <2>1, FeedFacts
<1>3. /\ pos' = i /\ Feed[i].ts > startTs /\ pc = "scan" /\ pc' \in {"scan", "pools"}
      /\ UNCHANGED <<rows, state, startTs, result>>
  BY <1>0 DEF ScanRecord, stored
<1>4. Taken' = Taken \cup {i}
  BY <1>2, <1>3 DEF Taken
<1>5. /\ DOMAIN accs' = DOMAIN accs \cup {p}
      /\ \A q \in DOMAIN accs : q # p => accs'[q] = accs[q]
      /\ accs'[p].window = w /\ HoldsWindow(p, accs[p])'
      /\ \/ p \in DOMAIN accs /\ accs[p].window = w /\ UNCHANGED pending
         \/ p \notin DOMAIN accs /\ UNCHANGED pending
         \/ p \in DOMAIN accs /\ accs[p].window # w /\ Flush(p)
  BY <1>0, <1>1, ScanHoldsWindow
<1>6. StartInv'
  BY <1>3 DEF StartInv, HasRowsUpTo, Active
<1>7. AccsInv'
  <2>1. ASSUME NEW q \in DOMAIN accs' PROVE HoldsWindow(q, accs[q])'
    <3>1. CASE q = p
      BY <1>5, <3>1
    <3>2. CASE q # p
      <4>1. accs'[q] = accs[q] /\ HoldsWindow(q, accs[q])
        BY <1>3, <1>5, <3>2 DEF AccsInv, Active
      <4>2. \A x : KeyOf(i) # <<q, x>>
        BY <1>1, <3>2 DEF KeyOf
      <4>3. accs[q].events = {j \in 1..i : KeyOf(j) = <<q, accs[q].window>> /\ Feed[j].ok}
        BY <1>2, <4>1, <4>2 DEF HoldsWindow
      <4>4. PICK n \in Taken : /\ KeyOf(n) = <<q, accs[q].window>>
                               /\ \A j \in 1..pos : KeyOf(j) = KeyOf(n) => j <= n
                               /\ accs[q].lastBlock = Feed[n].block /\ accs[q].lastTs = Feed[n].ts
        BY <4>1 DEF HoldsWindow
      <4>5. n \in Taken' /\ \A j \in 1..i : KeyOf(j) = KeyOf(n) => j <= n
        BY <1>2, <1>4, <4>2, <4>4
      <4> QED
        BY <1>3, <4>1, <4>3, <4>4, <4>5 DEF HoldsWindow
    <3> QED
      BY <3>1, <3>2
  <2>2. ASSUME NEW j \in Taken'
        PROVE  Feed[j].pool \in DOMAIN accs' /\ WindowOf(Feed[j].ts) <= accs'[Feed[j].pool].window
    <3>1. j \in Events /\ j <= i
      BY <1>2, <1>4 DEF Taken
    <3>2. CASE Feed[j].pool = p
      BY <1>2, <1>5, <3>1, <3>2, OrderFacts
    <3>3. CASE Feed[j].pool # p
      BY <1>1, <1>3, <1>4, <1>5, <3>3 DEF AccsInv, Scanning
    <3> QED
      BY <3>2, <3>3
  <2> QED
    BY <2>1, <2>2 DEF AccsInv
<1>8. p \in DOMAIN accs /\ accs[p].window # w =>
        \A j \in Events : j > pos => KeyOf(j) # <<p, accs[p].window>>
  BY <1>0, <1>1, <1>2, <1>3, RolledIsComplete DEF AccsInv, Active
<1>9. /\ BatchInv' /\ BatchKeys \subseteq BatchKeys'
      /\ p \in DOMAIN accs /\ accs[p].window # w /\ <<p, accs[p].window>> \in Keys =>
           <<p, accs[p].window>> \in BatchKeys'
  <2>1. CASE UNCHANGED pending /\ (p \in DOMAIN accs => accs[p].window = w)
    BY <2>1 DEF pending, BatchInv, BatchKeys
  <2>2. CASE p \in DOMAIN accs /\ accs[p].window # w /\ Flush(p)
    <3>1. HoldsWindow(p, accs[p])
      BY <1>3, <2>2 DEF AccsInv, Active
    <3> QED
      BY <1>8, <2>2, <3>1, FlushKeepsBatch
  <2> QED
    BY <1>5, <2>1, <2>2
<1>10. TakenInv'
  <2> SUFFICES ASSUME NEW j \in Taken', KeyOf(j) \in Keys
               PROVE  KeyOf(j) \in DOMAIN rows' \cup BatchKeys' \cup Open'
    BY DEF TakenInv
  <2>1. CASE j = i
    <3>1. KeyOf(j) = <<p, accs'[p].window>>
      BY <1>1, <1>5, <2>1 DEF KeyOf
    <3> QED
      BY <1>5, <3>1 DEF Open
  <2>2. CASE j \in Taken
    <3>1. KeyOf(j) \in DOMAIN rows \cup BatchKeys \cup Open
      BY <1>3, <2>2 DEF TakenInv, Active
    <3>2. CASE KeyOf(j) \in DOMAIN rows \cup BatchKeys
      BY <1>3, <1>9, <3>2
    <3>3. ASSUME NEW q \in DOMAIN accs, KeyOf(j) = <<q, accs[q].window>>
          PROVE  KeyOf(j) \in BatchKeys' \cup Open'
      <4>1. CASE q = p /\ accs[p].window # w
        BY <1>9, <3>3, <4>1
      <4>2. CASE q = p => accs[p].window = w
        <5>1. q \in DOMAIN accs' /\ accs'[q].window = accs[q].window
          BY <1>5, <4>2
        <5> QED
          BY <3>3, <5>1 DEF Open
      <4> QED
        BY <4>1, <4>2
    <3> QED
      BY <3>1, <3>2, <3>3 DEF Open
  <2> QED
    BY <1>4, <2>1, <2>2
<1>11. MaxTsInv'
  <2>1. /\ maxTs \in Nat /\ startTs \in Nat /\ maxTs >= startTs
        /\ \A j \in Taken : Feed[j].ts \in Nat /\ (Feed[j].ok => Feed[j].ts <= maxTs)
        /\ maxTs = startTs \/ \E j \in Taken : Feed[j].ts = maxTs
    BY <1>2, <1>3, FeedFacts DEF MaxTsInv, Active, ControlInv, TypeOK, Taken
  <2>2. maxTs' = IF Feed[i].ok /\ ~(maxTs >= Feed[i].ts) THEN Feed[i].ts ELSE maxTs
    BY <1>0, <1>2 DEF ScanRecord, MaxOf
  <2>3. \A j \in Taken' : Feed[j].ok => Feed[j].ts <= maxTs'
    BY <1>2, <1>4, <2>1, <2>2
  <2>4. maxTs' >= startTs /\ (maxTs' = startTs \/ \E j \in Taken' : Feed[j].ts = maxTs')
    BY <1>2, <1>3, <1>4, <2>1, <2>2
  <2> QED
    BY <1>3, <2>3, <2>4 DEF MaxTsInv
<1>12. RowsExact' /\ StateIsSafe' /\ SuccessIsComplete'
  BY <1>3 DEF RowsExact, StateIsSafe, SuccessIsComplete, ControlInv
<1> QED
  BY <1>6, <1>7, <1>9, <1>10, <1>11, <1>12

LEMMA DrainKeepsTable ==
  ASSUME OrderlyInput, ControlInv, TableInv, DrainAccumulator
  PROVE  TableInv'
<1> USE DEF TableInv
<1>1. PICK p \in DOMAIN accs : Flush(p) /\ accs' = [q \in DOMAIN accs \ {p} |-> accs[q]]
  BY DEF DrainAccumulator
<1>2. /\ pc = "drain" /\ pc' = "drain" /\ pos = len
      /\ UNCHANGED <<rows, state, startTs, maxTs, pos, result>>
  BY DEF DrainAccumulator, stored, times, ControlInv
<1>3. Taken' = Taken
  BY <1>2 DEF Taken
<1>4. HoldsWindow(p, accs[p])
  BY <1>2 DEF AccsInv, Active
<1>5. /\ BatchInv' /\ BatchKeys \subseteq BatchKeys'
      /\ <<p, accs[p].window>> \in Keys => <<p, accs[p].window>> \in BatchKeys'
  BY <1>1, <1>2, <1>4, EndIsComplete, FlushKeepsBatch
<1>6. StartInv' /\ MaxTsInv'
  BY <1>2, <1>3 DEF StartInv, HasRowsUpTo, Active, MaxTsInv
<1>7. AccsInv'
  BY <1>1, <1>2, <1>3 DEF AccsInv, HoldsWindow, Active, Scanning, Upserting
<1>8. TakenInv'
  <2> SUFFICES ASSUME NEW j \in Taken, KeyOf(j) \in Keys
               PROVE  KeyOf(j) \in DOMAIN rows \cup BatchKeys' \cup Open'
    BY <1>2, <1>3 DEF TakenInv
  <2>1. KeyOf(j) \in DOMAIN rows \cup BatchKeys \cup Open
    BY <1>2 DEF TakenInv, Active
  <2>2. ASSUME NEW q \in DOMAIN accs, KeyOf(j) = <<q, accs[q].window>>, q # p
        PROVE  KeyOf(j) \in Open'
    <3>1. q \in DOMAIN accs' /\ accs'[q] = accs[q]
      BY <1>1, <2>2
    <3> QED
      BY <2>2, <3>1 DEF Open
  <2> QED
    BY <1>5, <2>1, <2>2 DEF Open
<1>9. RowsExact' /\ StateIsSafe' /\ SuccessIsComplete'
  BY <1>2 DEF RowsExact, StateIsSafe, SuccessIsComplete
<1> QED
  BY <1>5, <1>6, <1>7, <1>8, <1>9

\* Only exact rows are written, and none is taken away.
LEMMA UpsertPublishes ==
  ASSUME ControlInv, TableInv, UpsertWindowMetrics
  PROVE  RowsExact' /\ DOMAIN rows \subseteq DOMAIN rows' /\ BatchKeys \subseteq DOMAIN rows'
<1>1. /\ DOMAIN rows' = DOMAIN rows \cup BatchKeys /\ BatchKeys \subseteq Keys
      /\ \A k \in DOMAIN rows' :
           \/ k \in DOMAIN rows /\ rows'[k] = rows[k]
           \/ \E n \in DOMAIN batch : batch[n].key = k /\ rows'[k] = batch[n].row
  BY UpsertMetricsMeaning
<1>2. ASSUME NEW k \in DOMAIN rows' PROVE IsExact(rows'[k], k)
  BY <1>1 DEF TableInv, RowsExact, BatchInv
<1> QED
  BY <1>1, <1>2 DEF TableInv, RowsExact

LEMMA UpsertKeepsTable ==
  ASSUME ControlInv, TableInv, UpsertWindowMetrics
  PROVE  TableInv'
<1> USE DEF TableInv
<1>1. /\ pc = "metrics" /\ pc' = "save" /\ batch' = << >>
      /\ UNCHANGED <<state, startTs, maxTs, pos, accs, result>>
  BY DEF UpsertWindowMetrics, times
<1>2. RowsExact' /\ DOMAIN rows \subseteq DOMAIN rows' /\ BatchKeys \subseteq DOMAIN rows'
  BY UpsertPublishes
<1>3. Taken' = Taken /\ Open' = Open
  BY <1>1 DEF Taken, Open
<1>4. StartInv' /\ MaxTsInv'
  BY <1>1, <1>2, <1>3 DEF StartInv, HasRowsUpTo, Active, MaxTsInv
<1>5. AccsInv' /\ BatchInv'
  BY <1>1, <1>3 DEF AccsInv, HoldsWindow, Active, Scanning, Upserting, BatchInv
<1>6. TakenInv'
  BY <1>1, <1>2, <1>3 DEF TakenInv, Active
<1>7. StateIsSafe' /\ SuccessIsComplete'
  BY <1>1, <1>2 DEF StateIsSafe, SuccessIsComplete
<1> QED
  BY <1>2, <1>4, <1>5, <1>6, <1>7

\* While windows are open, the time before the earliest of them is safe: everything up to
\* it is in the table, and it cuts no window.
LEMMA SaveIsSafe ==
  ASSUME OrderlyInput, ControlInv, TableInv, SaveState
  PROVE  StateIsSafe' /\ state' \in Nat
<1> USE DEF TableInv
<1>1. PICK p \in DOMAIN accs : /\ \A q \in DOMAIN accs : accs[p].window <= accs[q].window
                               /\ state' = SafeTs(accs[p].window)
  BY DEF SaveState
<1> DEFINE w == accs[p].window
<1>2. pc = "save" /\ UNCHANGED rows /\ BatchKeys = {} /\ pos \in Nat /\ 1..pos \subseteq Events
  BY FeedFacts DEF SaveState, ControlInv, BatchKeys, TypeOK
<1>3. PICK n \in Taken : KeyOf(n) = <<p, w>>
  BY <1>2 DEF AccsInv, HoldsWindow, Active
<1>4. n \in Events /\ n \in 1..pos /\ WindowOf(Feed[n].ts) = w /\ Feed[n].ts > startTs
  BY <1>2, <1>3 DEF Taken, KeyOf
<1>5. w \in Nat /\ w > 1 /\ w <= Feed[n].ts /\ state' = w - 1
  BY <1>1, <1>4, OrderFacts, FeedFacts DEF SafeTs
<1>6. ASSUME NEW i \in Events, NEW j \in Events, KeyOf(i) = KeyOf(j), Feed[i].ts <= w - 1
      PROVE  Feed[j].ts <= w - 1
  <2>1. WindowOf(Feed[i].ts) = WindowOf(Feed[j].ts)
    BY <1>6 DEF KeyOf
  <2>2. w <= Feed[j].ts => w <= WindowOf(Feed[j].ts)
    BY <1>4, OrderFacts
  <2> HIDE DEF w
  <2> QED
    BY <1>5, <1>6, <2>1, <2>2, FeedFacts
<1>7. Separates(state')
  <2> HIDE DEF w
  <2> QED
    BY <1>5, <1>6 DEF Separates
<1>8. ASSUME NEW i \in Events, Feed[i].ts <= w - 1, KeyOf(i) \in Keys
      PROVE  KeyOf(i) \in DOMAIN rows
  <2>0. Feed[i].ts \in Nat /\ Feed[n].ts \in Nat /\ startTs \in Nat
    BY <1>4, FeedFacts DEF ControlInv, TypeOK
  <2>1. CASE Feed[i].ts <= startTs
    BY <1>2, <1>8, <2>1 DEF StartInv, HasRowsUpTo, Active
  <2>2. CASE Feed[i].ts > startTs
    <3>1. ~(n <= i)
      <4>1. n <= i => Feed[n].ts <= Feed[i].ts
        BY <1>4, OrderFacts
      <4> HIDE DEF w
      <4> QED
        BY <1>5, <1>8, <2>0, <4>1
    <3>2. i \in Taken
      BY <1>2, <1>4, <2>2, <3>1, FeedFacts DEF Taken
    <3>3. KeyOf(i) \in DOMAIN rows \cup Open
      BY <1>2, <1>8, <3>2 DEF TakenInv, Active
    <3>4. ASSUME NEW q \in DOMAIN accs, KeyOf(i) = <<q, accs[q].window>> PROVE FALSE
      <4>1. WindowOf(Feed[i].ts) = accs[q].window /\ w <= accs[q].window
        BY <1>1, <3>4 DEF KeyOf
      <4> HIDE DEF w
      <4> QED
        BY <1>5, <1>8, <4>1, FeedFacts
    <3> QED
      BY <3>3, <3>4 DEF Open
  <2> QED
    BY <2>0, <2>1, <2>2
<1>9. \A i \in Events : Feed[i].ts <= state' /\ KeyOf(i) \in Keys => KeyOf(i) \in DOMAIN rows'
  BY <1>2, <1>5, <1>8
<1> QED
  BY <1>5, <1>7, <1>9 DEF StateIsSafe

LEMMA SaveKeepsTable ==
  ASSUME OrderlyInput, ControlInv, TableInv, SaveState
  PROVE  TableInv'
<1> USE DEF TableInv
<1>1. /\ pc = "save" /\ pc' = "scan" /\ DOMAIN accs # {} /\ result = "none"
      /\ UNCHANGED <<rows, startTs, maxTs, pos, accs, batch, result>>
  BY DEF SaveState, times, pending, ControlInv
<1>2. Taken' = Taken /\ Open' = Open /\ BatchKeys' = BatchKeys
  BY <1>1 DEF Taken, Open, BatchKeys
<1>3. StartInv' /\ MaxTsInv'
  BY <1>1, <1>2 DEF StartInv, HasRowsUpTo, Active, MaxTsInv
<1>4. AccsInv' /\ BatchInv' /\ TakenInv'
  BY <1>1, <1>2 DEF AccsInv, HoldsWindow, Active, Scanning, Upserting, BatchInv, TakenInv
<1>5. RowsExact' /\ SuccessIsComplete'
  BY <1>1 DEF RowsExact, SuccessIsComplete
<1> QED
  BY <1>3, <1>4, <1>5, SaveIsSafe

\* When the input ends, and with it its last window, the time of its last event is safe.
LEMMA FinalSaveIsSafe ==
  ASSUME OrderlyInput, ControlInv, TableInv, SaveFinalState
  PROVE  /\ StateIsSafe' /\ SuccessIsComplete' /\ state' \in Nat
<1> USE DEF TableInv
<1>1. /\ pc = "save" /\ state' = maxTs /\ UNCHANGED <<rows, pos>>
      /\ DOMAIN accs = {} /\ BatchKeys = {} /\ pos = len /\ len \in Cuts
      /\ maxTs \in Nat /\ startTs \in Nat /\ len \in 0..Len(Feed)
  BY DEF SaveFinalState, ControlInv, TypeOK, Upserting, BatchKeys
<1>2. Open = {}
  BY <1>1 DEF Open
<1>3. /\ maxTs >= startTs /\ \A i \in Taken : Feed[i].ok => Feed[i].ts <= maxTs
      /\ maxTs = startTs \/ \E i \in Taken : Feed[i].ts = maxTs
      /\ Separates(startTs) /\ HasRowsUpTo(startTs)
      /\ \A i \in Taken : KeyOf(i) \in Keys => KeyOf(i) \in DOMAIN rows
  BY <1>1, <1>2 DEF MaxTsInv, StartInv, TakenInv, Active
<1>4. ASSUME NEW i \in 1..len
      PROVE  Feed[i].ts <= maxTs /\ (KeyOf(i) \in Keys => KeyOf(i) \in DOMAIN rows)
  <2>1. i \in Events /\ len \in Events /\ len > 0 /\ i <= len /\ len \in 1..len
    BY <1>1, FeedFacts
  <2>2. Feed[len].ok /\ Feed[i].ts <= Feed[len].ts
    BY <1>1, <2>1, OrderFacts DEF OrderlyInput, EndsWindow
  <2>3. Feed[i].ts \in Nat /\ Feed[len].ts \in Nat
    BY <2>1, FeedFacts
  <2>4. CASE Feed[i].ts <= startTs
    BY <1>1, <1>3, <2>1, <2>3, <2>4 DEF HasRowsUpTo
  <2>5. CASE Feed[i].ts > startTs
    <3>1. i \in Taken /\ len \in Taken
      BY <1>1, <2>1, <2>2, <2>3, <2>5 DEF Taken
    <3> QED
      BY <1>1, <1>3, <2>2, <2>3, <3>1
  <2> QED
    BY <1>1, <2>3, <2>4, <2>5
<1>5. StateIsSafe'
  <2>1. CASE maxTs = startTs
    BY <1>1, <1>3, <2>1 DEF StateIsSafe, HasRowsUpTo
  <2>2. ASSUME NEW n \in Taken, Feed[n].ts = maxTs PROVE StateIsSafe'
    <3>1. len \in Events /\ len > 0 /\ n \in 1..len /\ Feed[n].ts > startTs
      BY <1>1, FeedFacts DEF Taken
    <3>2. Feed[len].ts <= maxTs /\ maxTs <= Feed[len].ts
      BY <1>1, <1>4, <2>2, <3>1, OrderFacts, FeedFacts
    <3>3. \A i \in Events : i > len => WindowOf(Feed[i].ts) > maxTs
      BY <1>1, <3>1, <3>2, FeedFacts DEF OrderlyInput, EndsWindow
    <3>4. \A i \in Events : i \in 1..len \/ i > len
      BY <1>1, FeedFacts
    <3>5. \A i \in Events : Feed[i].ts <= maxTs => i \in 1..len
      BY <1>1, <3>3, <3>4, FeedFacts
    <3>6. ASSUME NEW i \in Events, NEW j \in Events, KeyOf(i) = KeyOf(j), Feed[i].ts <= maxTs
          PROVE  Feed[j].ts <= maxTs
      <4>1. WindowOf(Feed[i].ts) = WindowOf(Feed[j].ts)
        BY <3>6 DEF KeyOf
      <4>2. ~(j > len)
        BY <1>1, <3>3, <3>6, <4>1, FeedFacts
      <4> QED
        BY <1>4, <3>4, <4>2
    <3> QED
      BY <1>1, <1>4, <3>5, <3>6 DEF StateIsSafe, Separates
  <2> QED
    BY <1>3, <2>1, <2>2
<1>6. SuccessIsComplete'
  BY <1>1, <1>4 DEF SuccessIsComplete
<1> QED
  BY <1>1, <1>5, <1>6

LEMMA FinalSaveKeepsTable ==
  ASSUME OrderlyInput, ControlInv, TableInv, SaveFinalState
  PROVE  TableInv'
<1> USE DEF TableInv
<1>1. pc' = "down" /\ UNCHANGED <<rows, batch>>
  BY DEF SaveFinalState, pending
<1>2. StartInv' /\ AccsInv' /\ TakenInv' /\ MaxTsInv' /\ BatchInv' /\ RowsExact'
  BY <1>1 DEF StartInv, AccsInv, TakenInv, MaxTsInv, BatchInv, RowsExact, Active, Scanning, Upserting
<1> QED
  BY <1>2, FinalSaveIsSafe
-----------------------------------------------------------------------------
LEMMA InitTableInv == Init => TableInv
<1> SUFFICES ASSUME Init PROVE TableInv
  OBVIOUS
<1>1. \A i \in Events : Feed[i].ts \in Nat
  BY FeedFacts
<1>2. StartInv /\ AccsInv /\ TakenInv /\ MaxTsInv /\ BatchInv
  BY DEF Init, StartInv, AccsInv, TakenInv, MaxTsInv, BatchInv, Active, Scanning, Upserting
<1>3. RowsExact /\ StateIsSafe /\ SuccessIsComplete
  BY <1>1 DEF Init, RowsExact, StateIsSafe, SuccessIsComplete, Separates, None
<1> QED
  BY <1>2, <1>3 DEF TableInv

LEMMA NextTableInv ==
  ASSUME OrderlyInput
  PROVE  ControlInv /\ TableInv /\ [Next]_vars => TableInv'
<1> SUFFICES ASSUME ControlInv, TableInv, [Next]_vars PROVE TableInv'
  OBVIOUS
<1> USE DEF stored, times, pending, Active, Scanning, Upserting
<1>1. CASE InputGrows
  BY <1>1, QuietStep DEF InputGrows
<1>2. ASSUME NEW r \in RecomputeChoices, StartProcess(r) PROVE TableInv'
  BY <1>2, StartKeepsTable
<1>3. CASE LoadStartTimestamp
  BY <1>3, LoadKeepsTable
<1>4. CASE SkipRecord
  BY <1>4, SkipKeepsTable
<1>5. CASE ScanRecord
  BY <1>5, ScanKeepsTable
<1>6. CASE EndOfInput
  BY <1>6, QuietStep DEF EndOfInput
<1>7. CASE DrainAccumulator
  BY <1>7, DrainKeepsTable
<1>8. CASE Drained
  BY <1>8, QuietStep DEF Drained
<1>9. CASE UpsertPools
  BY <1>9, QuietStep DEF UpsertPools
<1>10. CASE UpsertWindowMetrics
  BY <1>10, UpsertKeepsTable
<1>11. CASE SaveState
  BY <1>11, SaveKeepsTable
<1>12. CASE SaveFinalState
  BY <1>12, FinalSaveKeepsTable
<1>13. CASE Interrupted
  BY <1>13, QuietStep DEF Interrupted
<1>14. CASE UNCHANGED vars
  BY <1>14, QuietStep DEF vars
<1> QED
  BY <1>1, <1>2, <1>3, <1>4, <1>5, <1>6, <1>7, <1>8, <1>9, <1>10, <1>11, <1>12, <1>13, <1>14
     DEF Next, RunStep

LEMMA TableInvariant ==
  ASSUME OrderlyInput
  PROVE  Spec => [](ControlInv /\ TableInv)
  BY InitControlInv, NextControlInv, InitTableInv, NextTableInv, PTL DEF Spec

\* Every row in the table sums up exactly the events of its window, whichever run wrote it
\* and wherever the runs before stopped.
THEOREM AggregatorRowsExact ==
  ASSUME OrderlyInput
  PROVE  Spec => []RowsExact
<1>1. TableInv => RowsExact
  BY DEF TableInv
<1> QED
  BY <1>1, TableInvariant, PTL

\* The saved time stamp never claims an event without a row, and never cuts a window.
THEOREM AggregatorStateIsSafe ==
  ASSUME OrderlyInput
  PROVE  Spec => []StateIsSafe
<1>1. TableInv => StateIsSafe
  BY DEF TableInv
<1> QED
  BY <1>1, TableInvariant, PTL

\* A run that reports success has a row for every window of its input.
THEOREM AggregatorSuccessIsComplete ==
  ASSUME OrderlyInput
  PROVE  Spec => []SuccessIsComplete
<1>1. TableInv => SuccessIsComplete
  BY DEF TableInv
<1> QED
  BY <1>1, TableInvariant, PTL
-----------------------------------------------------------------------------
\* Both see the same input.
LEMMA SameFeed ==
  /\ Table!Events = Events /\ Table!Keys = Keys
  /\ \A i : Table!KeyOf(i) = KeyOf(i)
  /\ \A row, k : Table!IsExact(row, k) <=> IsExact(row, k)
<1>1. \A ts : Table!WindowOf(ts) = WindowOf(ts)
  BY DEF Table!WindowOf, WindowOf
<1>2. Table!Events = Events
  BY DEF Table!Events, Events
<1>3. \A i : Table!KeyOf(i) = KeyOf(i)
  BY <1>1 DEF Table!KeyOf, KeyOf
<1>4. Table!Keys = Keys
  BY <1>2, <1>3 DEF Table!Keys, Keys
<1>5. \A k : Table!InWindow(k) = InWindow(k)
  BY <1>2, <1>3 DEF Table!InWindow, InWindow
<1>6. \A row, k : Table!IsExact(row, k) <=> IsExact(row, k)
  BY <1>5 DEF Table!IsExact, IsExact
<1> QED
  BY <1>2, <1>3, <1>4, <1>6

\* Each step publishes exact rows, records progress that is covered, or changes neither.
LEMMA StepRefines ==
  ASSUME OrderlyInput
  PROVE  ControlInv /\ TableInv /\ [Next]_vars => [Table!Next]_<<rows, state>>
<1> SUFFICES ASSUME ControlInv, TableInv, [Next]_vars PROVE [Table!Next]_<<rows, state>>
  OBVIOUS
<1> USE DEF stored, times, pending, Table!Next
<1>1. CASE InputGrows
  BY <1>1 DEF InputGrows
<1>2. ASSUME NEW r \in RecomputeChoices, StartProcess(r) PROVE UNCHANGED <<rows, state>>
  BY <1>2 DEF StartProcess
<1>3. CASE LoadStartTimestamp
  BY <1>3 DEF LoadStartTimestamp
<1>4. CASE SkipRecord
  BY <1>4 DEF SkipRecord
<1>5. CASE ScanRecord
  BY <1>5 DEF ScanRecord
<1>6. CASE EndOfInput
  BY <1>6 DEF EndOfInput
<1>7. CASE DrainAccumulator
  BY <1>7 DEF DrainAccumulator
<1>8. CASE Drained
  BY <1>8 DEF Drained
<1>9. CASE UpsertPools
  BY <1>9 DEF UpsertPools
<1>10. CASE UpsertWindowMetrics
  <2>1. UNCHANGED state
    BY <1>10 DEF UpsertWindowMetrics
  <2>2. Table!Publish
    BY <1>10, <2>1, UpsertPublishes, SameFeed DEF Table!Publish, RowsExact
  <2> QED
    BY <2>2
<1>11. ASSUME SaveState \/ SaveFinalState PROVE Table!Record
  <2>1. UNCHANGED rows
    BY <1>11 DEF SaveState, SaveFinalState
  <2>2. StateIsSafe' /\ state' \in Nat
    BY <1>11, SaveIsSafe, FinalSaveIsSafe
  <2> QED
    BY <2>1, <2>2, SameFeed DEF Table!Record, StateIsSafe
<1>12. CASE Interrupted
  BY <1>12 DEF Interrupted
<1>13. CASE UNCHANGED vars
  BY <1>13 DEF vars
<1> QED
  BY <1>1, <1>2, <1>3, <1>4, <1>5, <1>6, <1>7, <1>8, <1>9, <1>10, <1>11, <1>12, <1>13
     DEF Next, RunStep

\* The command implements the abstract table of module WindowTable.
THEOREM AggregatorIsWindowTable ==
  ASSUME OrderlyInput
  PROVE  Spec => IsWindowTable
<1>1. Init => Table!Init
  BY DEF Init, None, Table!Init
<1> QED
  BY <1>1, StepRefines, TableInvariant, PTL DEF Spec, IsWindowTable, Table!Spec
=============================================================================
