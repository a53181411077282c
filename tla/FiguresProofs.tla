---------------------------- MODULE FiguresProofs -----------------------------
(***************************************************************************)
(* What a metrics row says about TVL, units and APR, for every list of     *)
(* windows, every chain, all balances and whatever calls fail.             *)
(***************************************************************************)
EXTENDS Figures, SequenceTheorems, FiniteSetTheorems, WellFoundedInduction, TLAPS

Closing == {"decimals", "balance_of_block", "balance_of_latest", "unavailable"}

\* What is known of the window in hand when it is closed step by step.
WindowInv ==
  /\ \A i \in DOMAIN Windows : Windows[i].block <= head
  /\ count <= Len(swaps)
  /\ pc \in Closing => w \in DOMAIN Windows /\ closedAt <= head
  /\ pc \in Closing \ {"decimals"} => Len(decimals) = 2
  /\ pc \in {"decimals", "unavailable"} => reads = << >>
  /\ pc = "balance_of_block" =>
       /\ Windows[w].block > 0
       /\ \A i \in DOMAIN reads : reads[i] \in {Failed, Windows[w].block}
  /\ pc = "balance_of_latest" =>
       \A i \in DOMAIN reads : reads[i] # Failed => closedAt <= reads[i]

\* Decimals that are not 0 are the token's, and cached; the tokens of earlier rows that had
\* theirs were in the cache when the window asked.
TokenOf(row, side) == TokensOf[Windows[row.window].pool][side]
Unit(row, side) == row.volume[side].decimals
CacheInv ==
  /\ \A t \in DOMAIN cache : cache[t] = DecimalsOf[t]
  /\ \A k \in DOMAIN rows : \A side \in Sides :
       Unit(rows[k], side) # 0 =>
         /\ TokenOf(rows[k], side) \in DOMAIN cache
         /\ Unit(rows[k], side) = DecimalsOf[TokenOf(rows[k], side)]
  /\ pc \in Closing =>
       \A i \in DOMAIN decimals :
         LET token == TokensOf[Pool][i]
         IN  /\ decimals[i] # 0 => token \in DOMAIN cache /\ decimals[i] = DecimalsOf[token]
             /\ \A k \in DOMAIN rows : \A side \in Sides :
                  TokenOf(rows[k], side) = token /\ Unit(rows[k], side) # 0
                  => decimals[i] = DecimalsOf[token]

FiguresInv == TypeOK /\ WindowInv /\ CacheInv /\ TvlIsWhatItSays /\ UnitsSettle
-----------------------------------------------------------------------------
LEMMA AppendMeaning ==
  ASSUME NEW S, NEW s \in Seq(S), NEW e \in S
  PROVE  /\ Append(s, e) \in Seq(S)
         /\ Len(s) \in Nat /\ DOMAIN s = 1..Len(s)
         /\ Len(Append(s, e)) = Len(s) + 1
         /\ DOMAIN Append(s, e) = DOMAIN s \cup {Len(s) + 1}
         /\ Append(s, e)[Len(s) + 1] = e
         /\ \A n \in DOMAIN s : Append(s, e)[n] = s[n]
<1>1. /\ Len(s) \in Nat /\ DOMAIN s = 1..Len(s)
      /\ Append(s, e) \in Seq(S) /\ DOMAIN Append(s, e) = 1..Len(s) + 1
      /\ Len(Append(s, e)) = Len(s) + 1
      /\ Append(s, e)[Len(s) + 1] = e
      /\ \A n \in 1..Len(s) : Append(s, e)[n] = s[n]
  OBVIOUS
<1> QED
  BY <1>1

LEMMA ElementsTyped ==
  ASSUME NEW S, NEW s \in Seq(S)
  PROVE  Len(s) \in Nat /\ DOMAIN s = 1..Len(s) /\ \A n \in DOMAIN s : s[n] \in S
  OBVIOUS

LEMMA EmptyMeaning ==
  ASSUME NEW S, NEW s \in Seq(S)
  PROVE  s = << >> <=> Len(s) = 0
  BY EmptySeq

LEMMA ConfigFacts ==
  /\ Len(Windows) \in Nat /\ DOMAIN Windows = 1..Len(Windows)
  /\ \A i \in DOMAIN Windows : Windows[i].pool \in Pools /\ Windows[i].block \in Nat
  /\ \A p \in Pools : DOMAIN TokensOf[p] = Sides /\ FeeOf[p] \in Nat
  /\ \A p \in Pools, side \in Sides : TokensOf[p][side] \in Tokens
  /\ \A t \in Tokens : DecimalsOf[t] \in Nat
  /\ MaxSwaps \in Nat /\ MaxHead \in Nat
<1>1. /\ Len(Windows) \in Nat /\ DOMAIN Windows = 1..Len(Windows)
      /\ \A i \in DOMAIN Windows : Windows[i].pool \in Pools /\ Windows[i].block \in Nat
  <2>1. Windows \in Seq([pool : Pools, block : Nat])
    BY FiguresAssumption
  <2>2. \A i \in DOMAIN Windows : Windows[i] \in [pool : Pools, block : Nat]
    BY <2>1, ElementsTyped
  <2> QED
    BY <2>1, <2>2, ElementsTyped
<1>2. ASSUME NEW p \in Pools
      PROVE  DOMAIN TokensOf[p] = Sides /\ \A side \in Sides : TokensOf[p][side] \in Tokens
  <2>1. TokensOf[p] \in Seq(Tokens) /\ Len(TokensOf[p]) = 2
    BY FiguresAssumption
  <2>2. DOMAIN TokensOf[p] = 1..2 /\ \A i \in DOMAIN TokensOf[p] : TokensOf[p][i] \in Tokens
    BY <2>1, ElementsTyped
  <2>3. 1..2 = Sides
    BY DEF Sides
  <2> QED
    BY <2>2, <2>3
<1>3. /\ \A p \in Pools : FeeOf[p] \in Nat
      /\ \A t \in Tokens : DecimalsOf[t] \in Nat
      /\ MaxSwaps \in Nat /\ MaxHead \in Nat
  BY FiguresAssumption
<1> QED
  BY <1>1, <1>2, <1>3

LEMMA TypeFacts ==
  ASSUME TypeOK
  PROVE  /\ head \in Nat /\ closedAt \in Nat /\ w \in Nat /\ count \in Nat
         /\ decimals \in Seq(Nat) /\ Len(decimals) \in Nat /\ DOMAIN decimals = 1..Len(decimals)
         /\ Len(reads) \in Nat /\ DOMAIN reads = 1..Len(reads)
         /\ \A i \in DOMAIN reads : reads[i] \in 0..MaxHead \cup {Failed}
         /\ Len(swaps) \in Nat /\ Len(rows) \in Nat /\ DOMAIN rows = 1..Len(rows)
         /\ \A k \in DOMAIN rows : rows[k] \in Row
<1>1. head \in 0..MaxHead /\ closedAt \in 0..MaxHead /\ w \in 1..Len(Windows) + 1 /\ count \in 0..MaxSwaps
  BY DEF TypeOK
<1>2. head \in Nat /\ closedAt \in Nat /\ w \in Nat /\ count \in Nat
  BY <1>1, ConfigFacts
<1>3. decimals \in Seq(Nat) /\ reads \in Seq(0..MaxHead \cup {Failed}) /\ swaps \in Seq(Swaps) /\ rows \in Seq(Row)
  BY DEF TypeOK
<1> QED
  BY <1>2, <1>3, ElementsTyped

\* What is said of rows stays true as long as no row is added.
LEMMA RowsKept ==
  ASSUME TvlIsWhatItSays, UnitsSettle, UNCHANGED rows
  PROVE  TvlIsWhatItSays' /\ UnitsSettle'
  BY DEF TvlIsWhatItSays, UnitsSettle

LEMMA InitInv == Init => FiguresInv
<1> SUFFICES ASSUME Init PROVE FiguresInv
  OBVIOUS
<1>1. /\ head \in 0..MaxHead /\ \A i \in DOMAIN Windows : Windows[i].block <= head
      /\ pc = "events" /\ w = 1 /\ swaps = << >> /\ count = 0 /\ volume = <<0, 0>> /\ fee = <<0, 0>>
      /\ cache = << >> /\ closedAt = head /\ decimals = << >> /\ reads = << >> /\ rows = << >>
  BY DEF Init
<1>2. \A S : << >> \in Seq(S) /\ Len(<< >>) = 0
  BY EmptySeq
<1>3. <<0, 0>> \in Pair(Nat)
  BY DEF Pair, Sides
<1>4. DOMAIN cache = {} /\ DOMAIN rows = {}
  BY <1>1
<1>5. w \in 1..Len(Windows) + 1 /\ count \in 0..MaxSwaps /\ Len(swaps) <= MaxSwaps
  BY <1>1, <1>2, ConfigFacts
<1>6. TypeOK
  BY <1>1, <1>2, <1>3, <1>4, <1>5 DEF TypeOK
<1>7. WindowInv
  BY <1>1, <1>2 DEF WindowInv, Closing
<1> QED
  BY <1>1, <1>4, <1>6, <1>7 DEF FiguresInv, CacheInv, TvlIsWhatItSays, UnitsSettle, Closing

LEMMA HeadKeeps ==
  ASSUME FiguresInv, HeadGrows
  PROVE  FiguresInv'
<1> USE DEF FiguresInv
<1>1. /\ UNCHANGED <<pc, w, swaps, count, volume, fee, cache, closedAt, decimals, reads, rows>>
      /\ head < MaxHead /\ head' = head + 1
  BY DEF HeadGrows, sums
<1>2. head \in Nat /\ closedAt \in Nat /\ head' \in 0..MaxHead
  BY <1>1, TypeFacts, ConfigFacts
<1>3. TypeOK'
  BY <1>1, <1>2 DEF TypeOK
<1>4. WindowInv'
  BY <1>1, <1>2, ConfigFacts DEF WindowInv
<1>5. CacheInv'
  BY <1>1 DEF CacheInv, Unit, TokenOf, Pool
<1> QED
  BY <1>1, <1>3, <1>4, <1>5, RowsKept

LEMMA FeeMeaning ==
  ASSUME NEW s \in Swaps, NEW side \in Sides, NEW rate \in Nat
  PROVE  Abs(s.amount[side]) \in Nat /\ FeeFromAmount(s.amount[side], rate) \in Nat
<1>1. s.amount[side] \in Int
  BY FiguresAssumption
<1>2. Abs(s.amount[side]) \in Nat
  BY <1>1 DEF Abs
<1>3. \A n \in Nat : n * rate \in Nat
  OBVIOUS
<1>4. \A n \in Nat : n \div FeeUnit \in Nat
  BY DEF FeeUnit
<1> QED
  BY <1>2, <1>3, <1>4 DEF FeeFromAmount

LEMMA SwapKeeps ==
  ASSUME FiguresInv, AddSwap
  PROVE  FiguresInv'
<1> USE DEF FiguresInv
<1>1. /\ UNCHANGED <<head, pc, w, cache, closedAt, decimals, reads, rows>>
      /\ pc = "events" /\ w \in DOMAIN Windows /\ Len(swaps) < MaxSwaps
  BY DEF AddSwap
<1>2. PICK s \in Swaps : ApplySwap(s) /\ swaps' = Append(swaps, s)
  BY DEF AddSwap
<1>3. swaps \in Seq(Swaps) /\ swaps' \in Seq(Swaps) /\ Len(swaps') = Len(swaps) + 1
  BY <1>2, AppendMeaning DEF TypeOK
<1>4. /\ count \in Nat /\ Len(swaps) \in Nat /\ count <= Len(swaps) /\ MaxSwaps \in Nat
      /\ volume \in Pair(Nat) /\ fee \in Pair(Nat)
  BY TypeFacts, ConfigFacts DEF TypeOK, WindowInv
<1>5. FeeOf[Pool] \in Nat
  BY <1>1, ConfigFacts DEF Pool
<1>6. /\ volume' \in Pair(Nat) /\ fee' \in Pair(Nat)
      /\ count' \in {count, count + 1}
  <2>1. CASE s.parses[1] /\ s.parses[2]
    <3>1. /\ volume' = [side \in Sides |-> volume[side] + Abs(s.amount[side])]
          /\ fee' = [side \in Sides |-> fee[side] + FeeOn(s, side)] /\ count' = count + 1
      BY <1>2, <2>1 DEF ApplySwap
    <3>2. \A side \in Sides : FeeOn(s, side) \in Nat /\ Abs(s.amount[side]) \in Nat
      BY <1>5, FeeMeaning DEF FeeOn
    <3>3. \A side \in Sides : volume[side] \in Nat /\ fee[side] \in Nat
      BY <1>4 DEF Pair
    <3> QED
      BY <3>1, <3>2, <3>3 DEF Pair
  <2>2. CASE ~(s.parses[1] /\ s.parses[2])
    BY <1>2, <1>4, <2>2 DEF ApplySwap
  <2> QED
    BY <2>1, <2>2
<1>7. count' \in 0..MaxSwaps /\ count' <= Len(swaps') /\ Len(swaps') <= MaxSwaps
  BY <1>1, <1>3, <1>4, <1>6
<1>8. TypeOK'
  BY <1>1, <1>3, <1>6, <1>7 DEF TypeOK
<1>9. WindowInv'
  BY <1>1, <1>7 DEF WindowInv, Closing
<1>10. CacheInv'
  BY <1>1 DEF CacheInv, Closing, Unit, TokenOf
<1> QED
  BY <1>1, <1>8, <1>9, <1>10, RowsKept

LEMMA CloseKeeps ==
  ASSUME FiguresInv, CloseWindow
  PROVE  FiguresInv'
<1> USE DEF FiguresInv
<1>1. /\ UNCHANGED <<head, w, swaps, count, volume, fee, cache, rows>>
      /\ w \in DOMAIN Windows /\ pc' = "decimals" /\ closedAt' = head
      /\ decimals' = << >> /\ reads' = << >>
  BY DEF CloseWindow, sums
<1>2. /\ \A S : << >> \in Seq(S) /\ Len(<< >>) = 0
      /\ DOMAIN decimals' = {} /\ DOMAIN reads' = {} /\ head \in Nat
  BY <1>1, EmptySeq, TypeFacts
<1>3. TypeOK'
  BY <1>1, <1>2 DEF TypeOK
<1>4. WindowInv'
  BY <1>1, <1>2 DEF WindowInv, Closing
<1>5. CacheInv'
  BY <1>1, <1>2 DEF CacheInv, Unit, TokenOf
<1> QED
  BY <1>1, <1>3, <1>4, <1>5, RowsKept
-----------------------------------------------------------------------------
\* getTokenDecimals: what is cached is used, what is had is cached, else it is 0.
LEMMA DecimalsMeaning ==
  ASSUME FiguresInv, DecimalsKnown \/ DecimalsFetched \/ DecimalsFail
  PROVE  \E d \in Nat :
           /\ decimals' = Append(decimals, d)
           /\ Token \in Tokens
           /\ DOMAIN cache \subseteq DOMAIN cache' /\ DOMAIN cache' \subseteq DOMAIN cache \cup {Token}
           /\ \A t \in DOMAIN cache' : cache'[t] = DecimalsOf[t]
           /\ d # 0 => Token \in DOMAIN cache' /\ d = DecimalsOf[Token]
           /\ Token \in DOMAIN cache => d = DecimalsOf[Token]
<1> USE DEF FiguresInv
<1>1. pc = "decimals" /\ Len(decimals) < 2 /\ w \in DOMAIN Windows
  BY DEF DecimalsKnown, DecimalsFetched, DecimalsFail, DecimalsDue, WindowInv, Closing
<1>2. Token \in Tokens
  <2>1. Len(decimals) + 1 \in Sides
    BY <1>1, TypeFacts DEF Sides
  <2> QED
    BY <1>1, <2>1, ConfigFacts DEF Token, Pool
<1>3. DecimalsOf[Token] \in Nat /\ \A t \in DOMAIN cache : cache[t] = DecimalsOf[t]
  BY <1>2, ConfigFacts DEF CacheInv
<1>4. CASE DecimalsKnown
  <2>1. /\ Token \in DOMAIN cache /\ UNCHANGED cache
        /\ decimals' = Append(decimals, DecimalsOf[Token])
    BY <1>3, <1>4 DEF DecimalsKnown
  <2> QED
    BY <1>2, <1>3, <2>1
<1>5. CASE DecimalsFetched
  <2>1. /\ Token \notin DOMAIN cache /\ decimals' = Append(decimals, DecimalsOf[Token])
        /\ cache' = [t \in DOMAIN cache \cup {Token} |-> DecimalsOf[t]]
    BY <1>5 DEF DecimalsFetched
  <2> QED
    BY <1>2, <1>3, <2>1
<1>6. CASE DecimalsFail
  <2>1. Token \notin DOMAIN cache /\ UNCHANGED cache /\ decimals' = Append(decimals, 0)
    BY <1>6 DEF DecimalsFail
  <2> QED
    BY <1>2, <1>3, <2>1
<1> QED
  BY <1>4, <1>5, <1>6

LEMMA DecimalsKeep ==
  ASSUME FiguresInv, DecimalsKnown \/ DecimalsFetched \/ DecimalsFail
  PROVE  FiguresInv'
<1> USE DEF FiguresInv
<1>1. /\ UNCHANGED <<head, pc, w, swaps, count, volume, fee, closedAt, reads, rows>>
      /\ pc = "decimals" /\ Len(decimals) < 2
  BY DEF DecimalsKnown, DecimalsFetched, DecimalsFail, DecimalsDue, sums
<1>2. PICK d \in Nat :
        /\ decimals' = Append(decimals, d)
        /\ Token \in Tokens
        /\ DOMAIN cache \subseteq DOMAIN cache' /\ DOMAIN cache' \subseteq DOMAIN cache \cup {Token}
        /\ \A t \in DOMAIN cache' : cache'[t] = DecimalsOf[t]
        /\ d # 0 => Token \in DOMAIN cache' /\ d = DecimalsOf[Token]
        /\ Token \in DOMAIN cache => d = DecimalsOf[Token]
  BY DecimalsMeaning
<1>3. PICK n : n = Len(decimals) + 1
  OBVIOUS
<1>4. PICK token : token = Token
  OBVIOUS
<1>5. decimals \in Seq(Nat) /\ Len(decimals) \in Nat
  BY TypeFacts
<1>6. /\ decimals' \in Seq(Nat) /\ Len(decimals') = n /\ n \in Nat /\ n <= 2
      /\ DOMAIN decimals' = DOMAIN decimals \cup {n} /\ decimals'[n] = d
      /\ \A i \in DOMAIN decimals : decimals'[i] = decimals[i]
  BY <1>1, <1>2, <1>3, <1>5, AppendMeaning
<1>7. token = TokensOf[Pool][n]
  BY <1>3, <1>4 DEF Token
<1>8. TypeOK'
  <2>1. DOMAIN cache' \subseteq Tokens /\ \A t \in DOMAIN cache' : cache'[t] \in Nat
    BY <1>2, ConfigFacts DEF TypeOK
  <2> QED
    BY <1>1, <1>6, <2>1 DEF TypeOK
<1>9. WindowInv'
  BY <1>1 DEF WindowInv, Closing
<1>10. CacheInv'
  <2>1. \A k \in DOMAIN rows : \A side \in Sides :
          Unit(rows[k], side) # 0 =>
            /\ TokenOf(rows[k], side) \in DOMAIN cache
            /\ Unit(rows[k], side) = DecimalsOf[TokenOf(rows[k], side)]
    BY DEF CacheInv
  <2>2. ASSUME NEW i \in DOMAIN decimals'
        PROVE  /\ decimals'[i] # 0 => /\ TokensOf[Pool][i] \in DOMAIN cache'
                                      /\ decimals'[i] = DecimalsOf[TokensOf[Pool][i]]
               /\ \A k \in DOMAIN rows : \A side \in Sides :
                    TokenOf(rows[k], side) = TokensOf[Pool][i] /\ Unit(rows[k], side) # 0
                    => decimals'[i] = DecimalsOf[TokensOf[Pool][i]]
    <3>1. CASE i \in DOMAIN decimals
      BY <1>1, <1>2, <1>6, <3>1 DEF CacheInv, Closing
    <3>2. CASE i = n
      BY <1>2, <1>4, <1>6, <1>7, <2>1, <3>2
    <3> QED
      BY <1>6, <3>1, <3>2
  <2> QED
    BY <1>1, <1>2, <2>1, <2>2 DEF CacheInv, Pool, Unit, TokenOf
<1> QED
  BY <1>1, <1>8, <1>9, <1>10, RowsKept

LEMMA DoneKeeps ==
  ASSUME FiguresInv, DecimalsDone
  PROVE  FiguresInv'
<1> USE DEF FiguresInv
<1>1. /\ UNCHANGED <<head, w, swaps, count, volume, fee, cache, closedAt, decimals, reads, rows>>
      /\ pc = "decimals" /\ Len(decimals) = 2
      /\ pc' = IF Windows[w].block > 0 THEN "balance_of_block" ELSE "unavailable"
  BY DEF DecimalsDone, sums
<1>2. reads = << >> /\ DOMAIN reads = {} /\ w \in DOMAIN Windows /\ closedAt <= head
  BY <1>1 DEF WindowInv, Closing
<1>3. TypeOK'
  BY <1>1 DEF TypeOK
<1>4. WindowInv'
  BY <1>1, <1>2 DEF WindowInv, Closing
<1>5. CacheInv'
  BY <1>1 DEF CacheInv, Unit, TokenOf, Pool, Closing
<1> QED
  BY <1>1, <1>3, <1>4, <1>5, RowsKept

\* A balance is of the block that is due, or failed.
LEMMA BalanceKeeps ==
  ASSUME FiguresInv, BalanceOf
  PROVE  FiguresInv'
<1> USE DEF FiguresInv
<1>1. /\ UNCHANGED <<head, pc, w, swaps, count, volume, fee, cache, closedAt, decimals, rows>>
      /\ pc \in {"balance_of_block", "balance_of_latest"} /\ Len(reads) < 2
  BY DEF BalanceOf, Reading, sums
<1>2. PICK answer \in {Height, Failed} : reads' = Append(reads, answer)
  BY DEF BalanceOf
<1>3. /\ w \in DOMAIN Windows /\ closedAt <= head /\ head \in 0..MaxHead /\ head \in Nat /\ MaxHead \in Nat
      /\ Windows[w].block <= head /\ Windows[w].block \in Nat /\ closedAt \in Nat
  BY <1>1, TypeFacts, ConfigFacts DEF WindowInv, TypeOK, Closing
<1>4. Height \in 0..MaxHead
  BY <1>3 DEF Height
<1>5. reads \in Seq(0..MaxHead \cup {Failed}) /\ answer \in 0..MaxHead \cup {Failed} /\ Len(reads) \in Nat
  BY <1>2, <1>4, TypeFacts DEF TypeOK
<1>6. PICK n : n = Len(reads) + 1
  OBVIOUS
<1>7. /\ reads' \in Seq(0..MaxHead \cup {Failed}) /\ Len(reads') = n /\ n <= 2
      /\ DOMAIN reads' = DOMAIN reads \cup {n} /\ reads'[n] = answer
      /\ \A i \in DOMAIN reads : reads'[i] = reads[i]
  BY <1>1, <1>2, <1>5, <1>6, AppendMeaning
<1>8. TypeOK'
  BY <1>1, <1>7 DEF TypeOK
<1>9. WindowInv'
  <2>1. CASE pc = "balance_of_block"
    <3>1. answer \in {Failed, Windows[w].block}
      BY <1>2, <2>1 DEF Height
    <3>2. \A i \in DOMAIN reads' : reads'[i] \in {Failed, Windows[w].block}
      BY <1>7, <2>1, <3>1 DEF WindowInv
    <3> QED
      BY <1>1, <2>1, <3>2 DEF WindowInv, Closing
  <2>2. CASE pc = "balance_of_latest"
    <3>1. answer # Failed => closedAt <= answer
      BY <1>2, <1>3, <2>2 DEF Height
    <3>2. \A i \in DOMAIN reads' : reads'[i] # Failed => closedAt <= reads'[i]
      BY <1>7, <2>2, <3>1 DEF WindowInv
    <3> QED
      BY <1>1, <2>2, <3>2 DEF WindowInv, Closing
  <2> QED
    BY <1>1, <2>1, <2>2
<1>10. CacheInv'
  BY <1>1 DEF CacheInv, Unit, TokenOf, Pool, Closing
<1> QED
  BY <1>1, <1>8, <1>9, <1>10, RowsKept

LEMMA FallKeeps ==
  ASSUME FiguresInv, FallBack \/ GiveUp
  PROVE  FiguresInv'
<1> USE DEF FiguresInv
<1>1. /\ UNCHANGED <<head, w, swaps, count, volume, fee, cache, closedAt, decimals, rows>>
      /\ pc \in Closing \ {"decimals"} /\ pc' \in {"balance_of_latest", "unavailable"} /\ reads' = << >>
  BY DEF FallBack, GiveUp, sums, Closing
<1>2. (\A S : << >> \in Seq(S) /\ Len(<< >>) = 0) /\ DOMAIN reads' = {}
  BY <1>1, EmptySeq
<1>3. TypeOK'
  BY <1>1, <1>2 DEF TypeOK
<1>4. WindowInv'
  BY <1>1, <1>2 DEF WindowInv, Closing
<1>5. CacheInv'
  BY <1>1 DEF CacheInv, Unit, TokenOf, Pool, Closing
<1> QED
  BY <1>1, <1>3, <1>4, <1>5, RowsKept
-----------------------------------------------------------------------------
\* The row of the window in hand.
Tvl == [side \in DOMAIN reads |-> Balance(Pool, side, reads[side])]
NewRow ==
  [window |-> w, swapCount |-> count,
   volume |-> Formatted(volume), fee |-> Formatted(fee),
   tvl |-> IF Tvl = << >> THEN << >> ELSE Formatted(Tvl),
   tvlMethod |-> pc, rated |-> HasRate(fee, Tvl), apr |-> AprSide(HasRate(fee, Tvl)),
   heights |-> reads, closedAt |-> closedAt]

\* Without balances there is no TVL, with two of them it is a pair of amounts.
LEMMA TvlMeaning ==
  ASSUME FiguresInv, StoreRow
  PROVE  \/ reads = << >> /\ Tvl = << >> /\ pc = "unavailable"
         \/ /\ reads \in Pair(0..MaxHead) /\ Tvl \in Pair(Nat) /\ Tvl # << >>
            /\ pc \in {"balance_of_block", "balance_of_latest"}
            /\ DOMAIN reads = Sides /\ Failed \notin Range(reads)
<1> USE DEF FiguresInv
<1>1. CASE pc = "unavailable"
  <2>1. reads = << >> /\ DOMAIN reads = {}
    BY <1>1 DEF WindowInv
  <2>2. Tvl \in Seq(Nat) /\ Len(Tvl) = 0
    <3>1. Tvl = [side \in 1..0 |-> Balance(Pool, side, reads[side])]
      BY <2>1 DEF Tvl
    <3>2. \A side \in 1..0 : Balance(Pool, side, reads[side]) \in Nat
      OBVIOUS
    <3>3. Tvl \in [1..0 -> Nat]
      BY <3>1, <3>2
    <3> QED
      BY <3>3
  <2> QED
    BY <1>1, <2>1, <2>2, EmptyMeaning
<1>2. CASE pc \in {"balance_of_block", "balance_of_latest"} /\ BothRead
  <2>1. /\ Len(reads) = 2 /\ DOMAIN reads = Sides /\ Failed \notin Range(reads)
        /\ \A i \in DOMAIN reads : reads[i] \in 0..MaxHead \cup {Failed}
    BY <1>2, TypeFacts DEF BothRead, Sides
  <2>2. \A side \in Sides : reads[side] \in 0..MaxHead
    BY <2>1 DEF Range
  <2>3. reads \in Pair(0..MaxHead)
    <3>1. reads \in Seq(0..MaxHead \cup {Failed})
      BY DEF TypeOK
    <3>2. reads = [side \in DOMAIN reads |-> reads[side]]
      BY <3>1
    <3> QED
      BY <2>1, <2>2, <3>2 DEF Pair
  <2>4. Pool \in Pools
    BY <1>2, ConfigFacts DEF Pool, WindowInv, Closing
  <2>5. \A side \in Sides : Balance(Pool, side, reads[side]) \in Nat
    BY <2>2, <2>4, FiguresAssumption
  <2>6. Tvl \in Pair(Nat) /\ DOMAIN Tvl = Sides
    BY <2>1, <2>5 DEF Tvl, Pair
  <2>7. Tvl # << >>
    BY <2>6 DEF Sides
  <2> QED
    BY <1>2, <2>1, <2>3, <2>6, <2>7
<1> QED
  BY <1>1, <1>2 DEF StoreRow

LEMMA FormattedMeaning ==
  ASSUME FiguresInv, Len(decimals) = 2, NEW amounts \in Pair(Nat)
  PROVE  /\ Formatted(amounts) \in Pair(Figure) /\ Formatted(amounts) # << >>
         /\ \A side \in Sides : /\ Formatted(amounts)[side].whole = amounts[side]
                                /\ Formatted(amounts)[side].decimals = decimals[side]
<1>1. \A side \in Sides : amounts[side] \in Nat
  BY DEF Pair
<1>2. DOMAIN decimals = Sides /\ decimals \in Seq(Nat)
  BY TypeFacts DEF Sides, FiguresInv
<1>3. \A side \in Sides : decimals[side] \in Nat
  BY <1>2, ElementsTyped
<1>4. Formatted(amounts) \in Pair(Figure) /\ DOMAIN Formatted(amounts) = Sides
  BY <1>1, <1>3 DEF Formatted, Pair, Figure
<1>5. Formatted(amounts) # << >>
  BY <1>4 DEF Sides
<1> QED
  BY <1>4, <1>5 DEF Formatted

LEMMA RowMeaning ==
  ASSUME FiguresInv, StoreRow
  PROVE  /\ rows' = Append(rows, NewRow) /\ NewRow \in Row
         /\ w \in DOMAIN Windows /\ pc \in Closing /\ Len(decimals) = 2
         /\ NewRow.window = w /\ NewRow.heights = reads /\ NewRow.closedAt = closedAt
         /\ NewRow.tvlMethod = pc
         /\ NewRow.rated = HasRate(fee, Tvl) /\ NewRow.apr = AprSide(HasRate(fee, Tvl))
         /\ \A side \in Sides :
              /\ NewRow.volume[side].decimals = decimals[side]
              /\ NewRow.fee[side].decimals = decimals[side] /\ NewRow.fee[side].whole = fee[side]
              /\ Tvl # << >> => /\ NewRow.tvl[side].decimals = decimals[side]
                                /\ NewRow.tvl[side].whole = Tvl[side]
         /\ Tvl = << >> <=> NewRow.tvl = << >>
<1> USE DEF FiguresInv
<1>1. pc \in Closing \ {"decimals"} /\ rows' = Append(rows, NewRow)
  BY DEF StoreRow, NewRow, Tvl, Closing
<1>2. w \in DOMAIN Windows /\ Len(decimals) = 2
  BY <1>1 DEF WindowInv
<1>3. volume \in Pair(Nat) /\ fee \in Pair(Nat) /\ closedAt \in 0..MaxHead /\ count \in 0..MaxSwaps
  BY DEF TypeOK
<1>4. /\ Formatted(volume) \in Pair(Figure) /\ Formatted(fee) \in Pair(Figure)
      /\ \A side \in Sides : /\ Formatted(volume)[side].decimals = decimals[side]
                             /\ Formatted(fee)[side].decimals = decimals[side]
                             /\ Formatted(fee)[side].whole = fee[side]
  BY <1>2, <1>3, FormattedMeaning
<1>5. Tvl # << >> =>
        /\ Formatted(Tvl) \in Pair(Figure) /\ Formatted(Tvl) # << >>
        /\ \A side \in Sides : /\ Formatted(Tvl)[side].decimals = decimals[side]
                               /\ Formatted(Tvl)[side].whole = Tvl[side]
  BY <1>2, TvlMeaning, FormattedMeaning
<1>6. /\ HasRate(fee, Tvl) \in SUBSET Sides /\ AprSide(HasRate(fee, Tvl)) \in SUBSET Sides
      /\ reads \in Pair(0..MaxHead) \cup {<< >>}
      /\ pc \in {"balance_of_block", "balance_of_latest", "unavailable"}
  BY <1>1, TvlMeaning DEF HasRate, AprSide, Closing
<1>7. NewRow \in Row
  <2>1. (IF Tvl = << >> THEN << >> ELSE Formatted(Tvl)) \in Pair(Figure) \cup {<< >>}
    BY <1>5
  <2> QED
    BY <1>2, <1>3, <1>4, <1>6, <2>1 DEF NewRow, Row
<1>8. /\ NewRow.window = w /\ NewRow.heights = reads /\ NewRow.closedAt = closedAt
      /\ NewRow.tvlMethod = pc
      /\ NewRow.rated = HasRate(fee, Tvl) /\ NewRow.apr = AprSide(HasRate(fee, Tvl))
      /\ NewRow.volume = Formatted(volume) /\ NewRow.fee = Formatted(fee)
      /\ NewRow.tvl = IF Tvl = << >> THEN << >> ELSE Formatted(Tvl)
  BY DEF NewRow
<1> QED
  BY <1>1, <1>2, <1>4, <1>5, <1>7, <1>8

LEMMA StoreKeeps ==
  ASSUME FiguresInv, StoreRow
  PROVE  FiguresInv'
<1> USE DEF FiguresInv
<1>1. /\ UNCHANGED <<head, cache, closedAt, decimals, reads>>
      /\ pc' = "events" /\ w' = w + 1 /\ swaps' = << >> /\ count' = 0
      /\ volume' = <<0, 0>> /\ fee' = <<0, 0>>
  BY DEF StoreRow, NewAccumulator
<1>2. PICK row \in Row : row = NewRow /\ rows' = Append(rows, row)
  BY RowMeaning
<1>3. PICK n : n = Len(rows) + 1
  OBVIOUS
<1>4. /\ rows' \in Seq(Row) /\ DOMAIN rows' = DOMAIN rows \cup {n} /\ rows'[n] = row
      /\ \A k \in DOMAIN rows : rows'[k] = rows[k]
      /\ DOMAIN rows = 1..n - 1 /\ n \in Nat
  BY <1>2, <1>3, AppendMeaning, TypeFacts DEF TypeOK
<1>5. w \in DOMAIN Windows /\ pc \in Closing /\ DOMAIN decimals = Sides
  BY RowMeaning, TypeFacts DEF Sides
<1>6. \A side \in Sides : /\ row.volume[side].decimals = decimals[side]
                          /\ row.fee[side].decimals = decimals[side]
                          /\ row.tvl # << >> => row.tvl[side].decimals = decimals[side]
  BY <1>2, RowMeaning
<1>7. \A side \in Sides : TokenOf(row, side) = TokensOf[Pool][side] /\ Unit(row, side) = decimals[side]
  BY <1>2, <1>6, RowMeaning DEF TokenOf, Unit, Pool
<1>8. TypeOK'
  <2>1. <<0, 0>> \in Pair(Nat) /\ \A S : << >> \in Seq(S) /\ Len(<< >>) = 0
    BY EmptySeq DEF Pair, Sides
  <2>2. w' \in 1..Len(Windows) + 1 /\ count' \in 0..MaxSwaps /\ Len(swaps') <= MaxSwaps
    BY <1>1, <1>5, <2>1, ConfigFacts
  <2> QED
    BY <1>1, <1>4, <2>1, <2>2 DEF TypeOK
<1>9. WindowInv'
  <2>1. Len(swaps') = 0
    BY <1>1, EmptySeq
  <2> QED
    BY <1>1, <2>1 DEF WindowInv, Closing
<1>10. \A k \in DOMAIN rows : \A side \in Sides :
         Unit(rows[k], side) # 0 =>
           /\ TokenOf(rows[k], side) \in DOMAIN cache
           /\ Unit(rows[k], side) = DecimalsOf[TokenOf(rows[k], side)]
  BY DEF CacheInv
<1>11. \A side \in Sides :
         /\ decimals[side] # 0 => /\ TokensOf[Pool][side] \in DOMAIN cache
                                  /\ decimals[side] = DecimalsOf[TokensOf[Pool][side]]
         /\ \A k \in DOMAIN rows : \A s \in Sides :
              TokenOf(rows[k], s) = TokensOf[Pool][side] /\ Unit(rows[k], s) # 0
              => decimals[side] = DecimalsOf[TokensOf[Pool][side]]
  BY <1>5 DEF CacheInv
<1>12. CacheInv'
  <2>1. \A k \in DOMAIN rows' : \A side \in Sides :
          Unit(rows'[k], side) # 0 =>
            /\ TokenOf(rows'[k], side) \in DOMAIN cache
            /\ Unit(rows'[k], side) = DecimalsOf[TokenOf(rows'[k], side)]
    BY <1>4, <1>7, <1>10, <1>11
  <2> QED
    BY <1>1, <2>1 DEF CacheInv, Closing
<1>13. TvlIsWhatItSays'
  <2>1. row.window = w /\ row.heights = reads /\ row.closedAt = closedAt /\ row.tvlMethod = pc
    BY <1>2, RowMeaning
  <2>2. CASE pc = "balance_of_block"
    <3>1. \A side \in Sides : reads[side] = Windows[w].block
      BY <2>2, TvlMeaning DEF WindowInv, Range
    <3>2. Range(reads) = {Windows[w].block}
      BY <2>2, <3>1, TvlMeaning DEF Range, Sides
    <3> QED
      BY <1>4, <2>1, <2>2, <3>2 DEF TvlIsWhatItSays
  <2>3. CASE pc = "balance_of_latest"
    <3>1. \A side \in Sides : closedAt <= reads[side] /\ reads[side] \in Nat /\ closedAt \in Nat
      <4>1. reads \in Pair(0..MaxHead) /\ DOMAIN reads = Sides /\ Failed \notin Range(reads)
        BY <2>3, TvlMeaning
      <4>2. \A side \in Sides : reads[side] \in Nat /\ reads[side] # Failed
        BY <4>1, ConfigFacts DEF Pair, Range
      <4> QED
        BY <2>3, <4>1, <4>2, TypeFacts DEF WindowInv
    <3>2. \A side \in Sides : reads[side] >= closedAt
      BY <3>1
    <3> QED
      BY <1>4, <2>1, <2>3, <3>2 DEF TvlIsWhatItSays
  <2>4. CASE pc = "unavailable"
    <3>1. row.tvl = << >> /\ row.rated = {} /\ row.apr = {}
      BY <1>2, <2>4, RowMeaning, TvlMeaning DEF HasRate, AprSide
    <3> QED
      BY <1>4, <2>1, <2>4, <3>1 DEF TvlIsWhatItSays
  <2>5. pc \in {"balance_of_block", "balance_of_latest", "unavailable"}
    BY TvlMeaning
  <2> QED
    BY <2>2, <2>3, <2>4, <2>5
<1>14. UnitsSettle'
  <2>1. ASSUME NEW side \in Sides
        PROVE  /\ Unit(row, side) \in {0, DecimalsOf[TokenOf(row, side)]}
               /\ row.fee[side].decimals = Unit(row, side)
               /\ row.tvl # << >> => row.tvl[side].decimals = Unit(row, side)
               /\ \A j \in DOMAIN rows : \A s \in Sides :
                    TokenOf(rows[j], s) = TokenOf(row, side) /\ Unit(rows[j], s) # 0
                    => Unit(row, side) = Unit(rows[j], s)
    BY <1>6, <1>7, <1>10, <1>11
  <2>2. \A k \in DOMAIN rows : k \in 1..n - 1 /\ \A j \in 1..k - 1 : j \in DOMAIN rows
    BY <1>4
  <2>3. ASSUME NEW k \in DOMAIN rows', NEW side \in Sides
        PROVE  /\ Unit(rows'[k], side) \in {0, DecimalsOf[TokenOf(rows'[k], side)]}
               /\ rows'[k].fee[side].decimals = Unit(rows'[k], side)
               /\ rows'[k].tvl # << >> => rows'[k].tvl[side].decimals = Unit(rows'[k], side)
               /\ \A j \in 1..k - 1 : \A s \in Sides :
                    TokenOf(rows'[j], s) = TokenOf(rows'[k], side) /\ Unit(rows'[j], s) # 0
                    => Unit(rows'[k], side) = Unit(rows'[j], s)
    <3>1. CASE k \in DOMAIN rows
      <4>1. /\ Unit(rows[k], side) \in {0, DecimalsOf[TokenOf(rows[k], side)]}
            /\ rows[k].fee[side].decimals = Unit(rows[k], side)
            /\ rows[k].tvl # << >> => rows[k].tvl[side].decimals = Unit(rows[k], side)
            /\ \A j \in 1..k - 1 : \A s \in Sides :
                 TokenOf(rows[j], s) = TokenOf(rows[k], side) /\ Unit(rows[j], s) # 0
                 => Unit(rows[k], side) = Unit(rows[j], s)
        BY <3>1 DEF UnitsSettle, Unit, TokenOf
      <4> QED
        BY <1>4, <2>2, <3>1, <4>1
    <3>2. CASE k = n
      BY <1>4, <2>1, <3>2
    <3> QED
      BY <1>4, <3>1, <3>2
  <2> QED
    BY <2>3 DEF UnitsSettle, Unit, TokenOf
<1> QED
  BY <1>8, <1>9, <1>12, <1>13, <1>14

LEMMA StutterKeeps ==
  ASSUME FiguresInv, UNCHANGED vars
  PROVE  FiguresInv'
<1> USE DEF FiguresInv
<1>1. UNCHANGED <<head, pc, w, swaps, count, volume, fee, cache, closedAt, decimals, reads, rows>>
  BY DEF vars, sums
<1>2. TypeOK'
  BY <1>1 DEF TypeOK
<1>3. WindowInv'
  BY <1>1 DEF WindowInv
<1>4. CacheInv'
  BY <1>1 DEF CacheInv, Unit, TokenOf, Pool
<1> QED
  BY <1>1, <1>2, <1>3, <1>4, RowsKept

LEMMA FiguresInvariant == Spec => []FiguresInv
<1>1. FiguresInv /\ [Next]_vars => FiguresInv'
  <2> SUFFICES ASSUME FiguresInv, [Next]_vars PROVE FiguresInv'
    OBVIOUS
  <2>1. CASE HeadGrows
    BY <2>1, HeadKeeps
  <2>2. CASE AddSwap
    BY <2>2, SwapKeeps
  <2>3. CASE CloseWindow
    BY <2>3, CloseKeeps
  <2>4. CASE DecimalsKnown \/ DecimalsFetched \/ DecimalsFail
    BY <2>4, DecimalsKeep
  <2>5. CASE DecimalsDone
    BY <2>5, DoneKeeps
  <2>6. CASE BalanceOf
    BY <2>6, BalanceKeeps
  <2>7. CASE FallBack \/ GiveUp
    BY <2>7, FallKeeps
  <2>8. CASE StoreRow
    BY <2>8, StoreKeeps
  <2>9. CASE UNCHANGED vars
    BY <2>9, StutterKeeps
  <2> QED
    BY <2>1, <2>2, <2>3, <2>4, <2>5, <2>6, <2>7, <2>8, <2>9 DEF Next
<1> QED
  BY InitInv, <1>1, PTL DEF Spec
-----------------------------------------------------------------------------
(***************************************************************************)
(* Whatever calls to the node fail, a window has at most two decimals and  *)
(* two balances in hand, sums are not negative, and every row has its      *)
(* figures on both sides or, of the TVL, on none.                          *)
(***************************************************************************)
THEOREM FiguresTyped == Spec => []TypeOK
<1>1. FiguresInv => TypeOK
  BY DEF FiguresInv
<1> QED
  BY <1>1, FiguresInvariant, PTL

(***************************************************************************)
(* tvl_method says what both sides of a TVL are: fetchTVL never mixes a    *)
(* balance at the window's last block with one at the latest, and none of  *)
(* the latest was read before the window was closed.                       *)
(***************************************************************************)
THEOREM FiguresTvlIsWhatItSays == Spec => []TvlIsWhatItSays
<1>1. FiguresInv => TvlIsWhatItSays
  BY DEF FiguresInv
<1> QED
  BY <1>1, FiguresInvariant, PTL

(***************************************************************************)
(* The figures of a row are in one unit per token, the token's own or the  *)
(* raw one, and once a row has the token's own all later rows have it:     *)
(* TokenDecimalsCache never forgets and is asked before the node.          *)
(***************************************************************************)
THEOREM FiguresUnitsSettle == Spec => []UnitsSettle
<1>1. FiguresInv => UnitsSettle
  BY DEF FiguresInv
<1> QED
  BY <1>1, FiguresInvariant, PTL

-----------------------------------------------------------------------------
\* Induction over the naturals, for a set.
LEMMA AllNaturals ==
  ASSUME NEW S, S \subseteq Nat, 0 \in S, \A n \in S : n + 1 \in S
  PROVE  S = Nat
<1> SUFFICES ASSUME Nat \ S # {} PROVE FALSE
  OBVIOUS
<1>1. PICK x \in Nat \ S : \A y \in Nat \ S : ~(<<y, x>> \in OpToRel(<, Nat))
  <2>1. Nat \ S \subseteq Nat
    OBVIOUS
  <2> QED
    BY <2>1, NatLessThanWellFounded, WFMin
<1>2. x # 0 /\ x - 1 \in Nat /\ x - 1 < x
  OBVIOUS
<1>3. x - 1 \notin S
  BY <1>2
<1>4. <<x - 1, x>> \in OpToRel(<, Nat)
  BY <1>2 DEF OpToRel
<1> QED
  BY <1>1, <1>2, <1>3, <1>4

\* The function SumFunction is defined by: one element after the other is taken out.
SumStep(f, g, s) ==
  IF s = {} THEN 0 ELSE LET x == CHOOSE y \in s : TRUE IN f[x] + g[s \ {x}]
SumsOf(f) == CHOOSE g : g = [s \in SUBSET DOMAIN f |-> SumStep(f, g, s)]

LEMMA SmallerSet ==
  ASSUME NEW s, IsFiniteSet(s), s # {}, NEW x \in s
  PROVE  /\ IsFiniteSet(s \ {x}) /\ Cardinality(s) \in Nat /\ Cardinality(s) > 0
         /\ Cardinality(s \ {x}) = Cardinality(s) - 1
  BY FS_CardinalityType, FS_RemoveElement, FS_EmptySet

LEMMA SumsOfExists ==
  ASSUME NEW f, IsFiniteSet(DOMAIN f)
  PROVE  SumsOf(f) = [s \in SUBSET DOMAIN f |-> SumStep(f, SumsOf(f), s)]
<1> DEFINE D == DOMAIN f
           Upto(n, g) == /\ g = [s \in SUBSET D |-> g[s]]
                         /\ \A s \in SUBSET D : Cardinality(s) <= n => g[s] = SumStep(f, g, s)
           Ns == {n \in Nat : \E g : Upto(n, g)}
<1>0. \A s \in SUBSET D : IsFiniteSet(s) /\ Cardinality(s) \in Nat /\ Cardinality(s) <= Cardinality(D)
  BY FS_Subset, FS_CardinalityType
<1>1. 0 \in Ns
  <2>1. Upto(0, [s \in SUBSET D |-> 0])
    <3>1. \A s \in SUBSET D : Cardinality(s) <= 0 => s = {}
      BY <1>0, FS_EmptySet
    <3> QED
      BY <3>1 DEF SumStep
  <2> QED
    BY <2>1
<1>2. ASSUME NEW n \in Ns PROVE n + 1 \in Ns
  <2>0. n \in Nat /\ n + 1 \in Nat
    OBVIOUS
  <2>1. PICK g : Upto(n, g)
    OBVIOUS
  <2> DEFINE h == [s \in SUBSET D |-> IF Cardinality(s) <= n THEN g[s] ELSE SumStep(f, g, s)]
  <2>2. ASSUME NEW s \in SUBSET D, Cardinality(s) <= n + 1 PROVE h[s] = SumStep(f, h, s)
    <3>1. CASE s = {}
      <4>1. Cardinality(s) <= n
        BY <3>1, FS_EmptySet
      <4> QED
        BY <2>1, <3>1, <4>1 DEF SumStep
    <3>2. CASE s # {}
      <4> DEFINE x == CHOOSE y \in s : TRUE
      <4>1. x \in s
        BY <3>2
      <4> HIDE DEF x
      <4>2. s \ {x} \in SUBSET D /\ Cardinality(s \ {x}) <= n
        <5>1. IsFiniteSet(s) /\ Cardinality(s) \in Nat
          BY <1>0
        <5>2. Cardinality(s \ {x}) = Cardinality(s) - 1
          BY <3>2, <4>1, <5>1, SmallerSet
        <5> QED
          BY <2>0, <2>2, <5>1, <5>2
      <4>3. h[s \ {x}] = g[s \ {x}]
        BY <4>2
      <4>4. SumStep(f, h, s) = SumStep(f, g, s)
        BY <3>2, <4>3 DEF SumStep, x
      <4>5. h[s] = SumStep(f, g, s)
        BY <2>1, <2>2
      <4> QED
        BY <4>4, <4>5
    <3> QED
      BY <3>1, <3>2
  <2>3. Upto(n + 1, h)
    <3>1. h = [s \in SUBSET D |-> h[s]]
      OBVIOUS
    <3> QED
      BY <2>2, <3>1
  <2> HIDE DEF h, Upto
  <2> QED
    BY <2>0, <2>3
<1>3. Ns = Nat
  <2> HIDE DEF Ns
  <2>1. Ns \subseteq Nat
    BY DEF Ns
  <2> QED
    BY <1>1, <1>2, <2>1, AllNaturals
<1>4. PICK g : Upto(Cardinality(D), g)
  <2>1. Cardinality(D) \in Ns
    BY <1>3, FS_CardinalityType
  <2> QED
    BY <2>1
<1>5. g = [s \in SUBSET D |-> SumStep(f, g, s)]
  <2>1. \A s \in SUBSET D : g[s] = SumStep(f, g, s)
    BY <1>0, <1>4
  <2>2. g = [s \in SUBSET D |-> g[s]]
    BY <1>4
  <2> QED
    BY <2>1, <2>2
<1> QED
  BY <1>5 DEF SumsOf

\* A sum is that without one element, and the element; whichever it is.
LEMMA SumsOfTakesOut ==
  ASSUME NEW f, IsFiniteSet(DOMAIN f), \A i \in DOMAIN f : f[i] \in Int
  PROVE  /\ SumsOf(f)[{}] = 0
         /\ \A s \in SUBSET DOMAIN f :
              /\ SumsOf(f)[s] \in Int
              /\ \A x \in s : SumsOf(f)[s] = f[x] + SumsOf(f)[s \ {x}]
<1> DEFINE D == DOMAIN f
           g == SumsOf(f)
           Fine(s) == g[s] \in Int /\ \A x \in s : g[s] = f[x] + g[s \ {x}]
           Ns == {n \in Nat : \A s \in SUBSET D : Cardinality(s) <= n => Fine(s)}
<1>0. \A s \in SUBSET D : IsFiniteSet(s) /\ Cardinality(s) \in Nat
  BY FS_Subset, FS_CardinalityType
<1>1. \A s \in SUBSET D : g[s] = SumStep(f, g, s)
  BY SumsOfExists
<1> HIDE DEF g
<1>2. g[{}] = 0
  BY <1>1 DEF SumStep
<1>3. Fine({})
  BY <1>2
<1>4. 0 \in Ns
  <2>1. \A s \in SUBSET D : Cardinality(s) <= 0 => s = {}
    BY <1>0, FS_EmptySet
  <2> HIDE DEF Fine
  <2> QED
    BY <1>3, <2>1
<1>5. ASSUME NEW n \in Ns PROVE n + 1 \in Ns
  <2>0. n \in Nat /\ n + 1 \in Nat
    OBVIOUS
  <2>1. ASSUME NEW s \in SUBSET D, Cardinality(s) <= n + 1, s # {} PROVE Fine(s)
    <3> DEFINE y == CHOOSE z \in s : TRUE
    <3>1. y \in s /\ f[y] \in Int
      BY <2>1
    <3>2. g[s] = f[y] + g[s \ {y}]
      BY <1>1, <2>1 DEF SumStep
    <3> HIDE DEF y
    <3>3. ASSUME NEW x \in s PROVE s \ {x} \in SUBSET D /\ Cardinality(s \ {x}) <= n /\ Fine(s \ {x})
      <4>1. s \ {x} \in SUBSET D /\ Cardinality(s \ {x}) <= n
        BY <1>0, <2>1, SmallerSet
      <4> QED
        BY <4>1
    <3>4. g[s] \in Int
      BY <3>1, <3>2, <3>3
    <3>5. ASSUME NEW x \in s, x # y PROVE g[s] = f[x] + g[s \ {x}]
      <4>1. g[s \ {y}] = f[x] + g[(s \ {y}) \ {x}]
        BY <3>1, <3>3, <3>5
      <4>2. g[s \ {x}] = f[y] + g[(s \ {x}) \ {y}]
        BY <3>1, <3>3, <3>5
      <4>3. (s \ {x}) \ {y} = (s \ {y}) \ {x}
        OBVIOUS
      <4>4. g[(s \ {x}) \ {y}] \in Int /\ f[x] \in Int
        <5>1. (s \ {x}) \ {y} \in SUBSET D
          OBVIOUS
        <5>2. Cardinality((s \ {x}) \ {y}) <= n
          <6>1. y \in s \ {x} /\ s \ {x} # {} /\ IsFiniteSet(s \ {x})
            BY <1>0, <3>1, <3>3, <3>5
          <6>2. Cardinality((s \ {x}) \ {y}) = Cardinality(s \ {x}) - 1 /\ Cardinality(s \ {x}) \in Nat
            BY <6>1, SmallerSet
          <6>3. Cardinality(s \ {x}) <= n
            BY <3>3
          <6> QED
            BY <2>0, <6>2, <6>3
        <5> QED
          BY <5>1, <5>2
      <4> DEFINE rest == g[(s \ {x}) \ {y}]
      <4>5. /\ g[s] = f[y] + (f[x] + rest) /\ g[s \ {x}] = f[y] + rest
            /\ rest \in Int /\ f[x] \in Int /\ f[y] \in Int
        BY <3>1, <3>2, <4>1, <4>2, <4>3, <4>4
      <4> HIDE DEF rest
      <4>6. f[y] + (f[x] + rest) = f[x] + (f[y] + rest)
        BY <4>5
      <4> QED
        BY <4>5, <4>6
    <3> QED
      BY <3>2, <3>4, <3>5
  <2> HIDE DEF Fine
  <2> QED
    BY <1>3, <2>1
<1>6. Ns = Nat
  <2> HIDE DEF Ns
  <2>1. Ns \subseteq Nat
    BY DEF Ns
  <2> QED
    BY <1>4, <1>5, <2>1, AllNaturals
<1>7. \A s \in SUBSET D : Fine(s)
  <2> HIDE DEF Fine
  <2>1. ASSUME NEW s \in SUBSET D PROVE Fine(s)
    <3>1. Cardinality(s) \in Ns
      BY <1>0, <1>6
    <3> QED
      BY <1>0, <3>1
  <2> QED
    BY <2>1
<1> QED
  BY <1>2, <1>7 DEF g

\* Sums of functions that agree on a set agree there.
LEMMA SumsOfAgree ==
  ASSUME NEW f, IsFiniteSet(DOMAIN f), \A i \in DOMAIN f : f[i] \in Int,
         NEW h, IsFiniteSet(DOMAIN h), \A i \in DOMAIN h : h[i] \in Int,
         DOMAIN f \subseteq DOMAIN h, \A i \in DOMAIN f : f[i] = h[i]
  PROVE  \A s \in SUBSET DOMAIN f : SumsOf(f)[s] = SumsOf(h)[s]
<1> DEFINE D == DOMAIN f
           Ns == {n \in Nat : \A s \in SUBSET D : Cardinality(s) <= n => SumsOf(f)[s] = SumsOf(h)[s]}
<1>0. \A s \in SUBSET D : IsFiniteSet(s) /\ Cardinality(s) \in Nat
  BY FS_Subset, FS_CardinalityType
<1>1. 0 \in Ns
  <2>1. \A s \in SUBSET D : Cardinality(s) <= 0 => s = {}
    BY <1>0, FS_EmptySet
  <2>2. SumsOf(f)[{}] = SumsOf(h)[{}]
    BY SumsOfTakesOut
  <2> QED
    BY <2>1, <2>2
<1>2. ASSUME NEW n \in Ns PROVE n + 1 \in Ns
  <2>0. n \in Nat /\ n + 1 \in Nat
    OBVIOUS
  <2>1. ASSUME NEW s \in SUBSET D, Cardinality(s) <= n + 1, NEW x \in s
        PROVE  SumsOf(f)[s] = SumsOf(h)[s]
    <3>1. s \ {x} \in SUBSET D /\ Cardinality(s \ {x}) <= n
      BY <1>0, <2>1, SmallerSet
    <3>2. SumsOf(f)[s \ {x}] = SumsOf(h)[s \ {x}]
      BY <3>1
    <3>3. SumsOf(f)[s] = f[x] + SumsOf(f)[s \ {x}] /\ SumsOf(h)[s] = h[x] + SumsOf(h)[s \ {x}]
      <4>1. s \in SUBSET DOMAIN h
        OBVIOUS
      <4> QED
        BY <4>1, SumsOfTakesOut
    <3> QED
      BY <3>2, <3>3
  <2>2. SumsOf(f)[{}] = SumsOf(h)[{}]
    BY SumsOfTakesOut
  <2>3. \A s \in SUBSET D : Cardinality(s) <= n + 1 => SumsOf(f)[s] = SumsOf(h)[s]
    BY <2>1, <2>2
  <2> QED
    BY <2>0, <2>3
<1>3. Ns = Nat
  <2> HIDE DEF Ns
  <2>1. Ns \subseteq Nat
    BY DEF Ns
  <2> QED
    BY <1>1, <1>2, <2>1, AllNaturals
<1>4. ASSUME NEW s \in SUBSET D PROVE SumsOf(f)[s] = SumsOf(h)[s]
  <2>1. Cardinality(s) \in Ns
    BY <1>0, <1>3
  <2> QED
    BY <1>0, <2>1
<1> QED
  BY <1>4

LEMMA SumFunctionMeaning ==
  ASSUME NEW f
  PROVE  SumFunction(f) = SumsOf(f)[DOMAIN f]
  BY Zenon DEF SumFunction, SumFunctionOnSet, FoldFunctionOnSet, MapThenFoldSet, SumsOf, SumStep

LEMMA SumOfNothing ==
  ASSUME NEW f, DOMAIN f = {}
  PROVE  SumFunction(f) = 0
  BY FS_EmptySet, SumFunctionMeaning, SumsOfTakesOut

LEMMA SumOfOneMore ==
  ASSUME NEW f, NEW h, NEW x, IsFiniteSet(DOMAIN f), x \notin DOMAIN f,
         DOMAIN h = DOMAIN f \cup {x}, \A i \in DOMAIN h : h[i] \in Int,
         \A i \in DOMAIN f : h[i] = f[i]
  PROVE  SumFunction(h) = SumFunction(f) + h[x] /\ SumFunction(f) \in Int
<1> DEFINE D == DOMAIN f
<1>1. IsFiniteSet(D \cup {x}) /\ \A i \in D : f[i] \in Int
  BY FS_AddElement
<1>2. SumsOf(h)[D \cup {x}] = h[x] + SumsOf(h)[(D \cup {x}) \ {x}]
  BY <1>1, SumsOfTakesOut
<1>3. (D \cup {x}) \ {x} = D
  OBVIOUS
<1>4. SumsOf(f)[D] = SumsOf(h)[D]
  BY <1>1, SumsOfAgree
<1>5. SumsOf(f)[D] \in Int
  BY <1>1, SumsOfTakesOut
<1>6. h[x] \in Int
  OBVIOUS
<1>7. SumFunction(f) = SumsOf(f)[D] /\ SumFunction(h) = SumsOf(h)[D \cup {x}]
  BY SumFunctionMeaning
<1>8. SumFunction(h) = h[x] + SumFunction(f) /\ SumFunction(f) \in Int
  BY <1>2, <1>3, <1>4, <1>5, <1>7
<1> QED
  BY <1>6, <1>8
-----------------------------------------------------------------------------
\* The swaps that count, and those of them that pay something in on a side.
Inflows(side) == {i \in Counted : swaps[i].amount[side] > 0 /\ swaps[i].amount[Other(side)] # 0}
Volume(side) == SumFunction([i \in Counted |-> Abs(swaps[i].amount[side])])
Inflow(side) == SumFunction([i \in Inflows(side) |-> swaps[i].amount[side]])

LEMMA SwapsTyped ==
  ASSUME TypeOK
  PROVE  /\ IsFiniteSet(Counted) /\ Len(swaps) + 1 \notin Counted
         /\ \A i \in DOMAIN swaps, side \in Sides :
              swaps[i].amount[side] \in Int /\ Abs(swaps[i].amount[side]) \in Int
         /\ \A side \in Sides : /\ IsFiniteSet(Inflows(side)) /\ Inflows(side) \subseteq Counted
                                /\ Inflow(side) \in Int
<1>1. swaps \in Seq(Swaps) /\ Len(swaps) \in Nat /\ DOMAIN swaps = 1..Len(swaps)
  BY TypeFacts, ElementsTyped DEF TypeOK
<1>2. IsFiniteSet(Counted) /\ Len(swaps) + 1 \notin Counted
  <2>1. IsFiniteSet(1..Len(swaps)) /\ Counted \in SUBSET (1..Len(swaps))
    BY <1>1, FS_Interval DEF Counted
  <2>2. IsFiniteSet(Counted)
    BY <2>1, FS_Subset
  <2>3. Len(swaps) + 1 \notin 1..Len(swaps)
    BY <1>1
  <2> QED
    BY <2>1, <2>2, <2>3
<1>3. ASSUME NEW i \in DOMAIN swaps, NEW side \in Sides
      PROVE  swaps[i].amount[side] \in Int /\ Abs(swaps[i].amount[side]) \in Int
  <2>1. swaps[i] \in Swaps
    BY <1>1, ElementsTyped
  <2>2. swaps[i].amount \in [Sides -> Int]
    BY <2>1, FiguresAssumption
  <2> QED
    BY <2>2 DEF Abs
<1>4. ASSUME NEW side \in Sides
      PROVE  /\ IsFiniteSet(Inflows(side)) /\ Inflows(side) \subseteq Counted /\ Inflow(side) \in Int
  <2>1. Inflows(side) \in SUBSET Counted
    BY DEF Inflows
  <2>2. IsFiniteSet(Inflows(side))
    BY <1>2, <2>1, FS_Subset
  <2> DEFINE amounts == [i \in Inflows(side) |-> swaps[i].amount[side]]
  <2>3. DOMAIN amounts = Inflows(side) /\ \A i \in DOMAIN amounts : amounts[i] \in Int
    BY <1>3, <2>1 DEF Counted
  <2> HIDE DEF amounts
  <2>4. SumFunction(amounts) \in Int
    BY <2>2, <2>3, SumFunctionMeaning, SumsOfTakesOut
  <2> QED
    BY <2>1, <2>2, <2>4 DEF amounts, Inflow
<1> QED
  BY <1>2, <1>3, <1>4

\* What one more swap does to the sums over the swaps of the window.
LEMMA OneSwapMore ==
  ASSUME FiguresInv, FiguresInv', NEW s \in Swaps, swaps' = Append(swaps, s)
  PROVE  /\ ~(s.parses[1] /\ s.parses[2]) => Counted' = Counted
         /\ s.parses[1] /\ s.parses[2] =>
              /\ Counted' = Counted \cup {Len(swaps) + 1}
              /\ Cardinality(Counted') = Cardinality(Counted) + 1
         /\ \A side \in Sides :
              Volume(side)' = Volume(side) + IF s.parses[1] /\ s.parses[2] THEN Abs(s.amount[side]) ELSE 0
         /\ \A side \in Sides :
              LET flowsIn == s.parses[1] /\ s.parses[2] /\ s.amount[side] > 0 /\ s.amount[Other(side)] # 0
              IN  /\ Inflow(side)' = Inflow(side) + IF flowsIn THEN s.amount[side] ELSE 0
                  /\ Cardinality(Inflows(side)') =
                       Cardinality(Inflows(side)) + IF flowsIn THEN 1 ELSE 0
<1> DEFINE n == Len(swaps) + 1
           good == s.parses[1] /\ s.parses[2]
<1>1. /\ swaps \in Seq(Swaps) /\ Len(swaps) \in Nat /\ DOMAIN swaps = 1..Len(swaps)
      /\ DOMAIN swaps' = DOMAIN swaps \cup {n} /\ n \notin DOMAIN swaps
      /\ swaps'[n] = s /\ \A i \in DOMAIN swaps : swaps'[i] = swaps[i]
  <2>1. swaps \in Seq(Swaps)
    BY DEF TypeOK, FiguresInv
  <2> QED
    BY <2>1, AppendMeaning
<1>2. /\ Counted' = IF good THEN Counted \cup {n} ELSE Counted
      /\ n \notin Counted
  BY <1>1 DEF Counted
<1>3. /\ IsFiniteSet(Counted) /\ Cardinality(Counted) \in Nat
      /\ \A i \in DOMAIN swaps', side \in Sides :
              swaps'[i].amount[side] \in Int /\ Abs(swaps'[i].amount[side]) \in Int
      /\ \A i \in DOMAIN swaps, side \in Sides :
              swaps[i].amount[side] \in Int /\ Abs(swaps[i].amount[side]) \in Int
  <2>1. TypeOK /\ TypeOK'
    BY DEF FiguresInv
  <2>2. \A i \in DOMAIN swaps, side \in Sides :
              swaps[i].amount[side] \in Int /\ Abs(swaps[i].amount[side]) \in Int
    BY <2>1, SwapsTyped
  <2>3. s.amount \in [Sides -> Int]
    BY FiguresAssumption
  <2>4. \A side \in Sides : s.amount[side] \in Int /\ Abs(s.amount[side]) \in Int
    BY <2>3 DEF Abs
  <2>5. IsFiniteSet(Counted) /\ Cardinality(Counted) \in Nat
    BY <2>1, SwapsTyped, FS_CardinalityType
  <2> QED
    BY <1>1, <2>2, <2>4, <2>5
<1>4. good => Cardinality(Counted') = Cardinality(Counted) + 1
  BY <1>2, <1>3, FS_AddElement
<1>5. Counted \subseteq DOMAIN swaps /\ Counted' \subseteq DOMAIN swaps'
  BY DEF Counted
<1>6. ASSUME NEW side \in Sides
      PROVE  Volume(side)' = Volume(side) + IF good THEN Abs(s.amount[side]) ELSE 0
  <2> DEFINE f == [i \in Counted |-> Abs(swaps[i].amount[side])]
             h == [i \in Counted' |-> Abs(swaps'[i].amount[side])]
  <2>1. f \in [Counted -> Int] /\ h \in [Counted' -> Int] /\ \A i \in Counted : h[i] = f[i]
    BY <1>1, <1>2, <1>3, <1>5
  <2>2. good => h[n] = Abs(s.amount[side])
    BY <1>1, <1>2
  <2>3. Volume(side) = SumFunction(f) /\ Volume(side)' = SumFunction(h)
    BY DEF Volume
  <2>4. ~good => h = f
    BY <1>1, <1>2, <1>5
  <2> HIDE DEF f, h
  <2>5. SumFunction(f) \in Int
    <3>1. DOMAIN f = Counted /\ \A i \in DOMAIN f : f[i] \in Int
      BY <2>1
    <3> QED
      BY <1>3, <3>1, SumFunctionMeaning, SumsOfTakesOut
  <2>6. good => SumFunction(h) = SumFunction(f) + h[n]
    <3> HIDE DEF good, n
    <3> SUFFICES ASSUME good PROVE SumFunction(h) = SumFunction(f) + h[n]
      OBVIOUS
    <3>1. /\ IsFiniteSet(DOMAIN f) /\ n \notin DOMAIN f /\ DOMAIN h = DOMAIN f \cup {n}
          /\ \A i \in DOMAIN h : h[i] \in Int
          /\ \A i \in DOMAIN f : h[i] = f[i]
      BY <1>2, <1>3, <2>1
    <3> QED
      BY <3>1, SumOfOneMore
  <2> HIDE DEF good
  <2> QED
    BY <2>2, <2>3, <2>4, <2>5, <2>6
<1>7. ASSUME NEW side \in Sides
      PROVE  LET flowsIn == good /\ s.amount[side] > 0 /\ s.amount[Other(side)] # 0
             IN  /\ Inflow(side)' = Inflow(side) + IF flowsIn THEN s.amount[side] ELSE 0
                 /\ Cardinality(Inflows(side)') =
                      Cardinality(Inflows(side)) + IF flowsIn THEN 1 ELSE 0
  <2> DEFINE flowsIn == good /\ s.amount[side] > 0 /\ s.amount[Other(side)] # 0
             D == Inflows(side)
             f == [i \in D |-> swaps[i].amount[side]]
             h == [i \in D' |-> swaps'[i].amount[side]]
  <2>1. /\ D' = IF flowsIn THEN D \cup {n} ELSE D
        /\ n \notin D /\ D \subseteq Counted /\ IsFiniteSet(D) /\ Cardinality(D) \in Nat
    <3>1. IsFiniteSet(D) /\ D \subseteq Counted
      BY SwapsTyped DEF FiguresInv
    <3>2. Inflows(side)' = {i \in Counted' : swaps'[i].amount[side] > 0 /\ swaps'[i].amount[Other(side)] # 0}
      BY DEF Inflows
    <3>3. D' = IF flowsIn THEN D \cup {n} ELSE D
      BY <1>1, <1>2, <1>5, <3>2 DEF Inflows
    <3> QED
      BY <1>2, <3>1, <3>3, FS_CardinalityType
  <2>2. D' \subseteq Counted'
    BY DEF Inflows
  <2> HIDE DEF D
  <2>3. f \in [D -> Int] /\ h \in [D' -> Int] /\ \A i \in D : h[i] = f[i]
    BY <1>1, <1>3, <1>5, <2>1, <2>2
  <2>4. flowsIn => h[n] = s.amount[side]
    BY <1>1, <2>1
  <2>5. Inflow(side) = SumFunction(f) /\ Inflow(side)' = SumFunction(h)
    BY DEF Inflow, D
  <2>6. ~flowsIn => h = f
    BY <1>1, <1>5, <2>1
  <2> HIDE DEF f, h
  <2>7. SumFunction(f) \in Int
    <3>1. DOMAIN f = D /\ \A i \in DOMAIN f : f[i] \in Int
      BY <2>3
    <3> QED
      BY <2>1, <3>1, SumFunctionMeaning, SumsOfTakesOut
  <2> HIDE DEF flowsIn, n
  <2>8. flowsIn => SumFunction(h) = SumFunction(f) + h[n] /\ Cardinality(D') = Cardinality(D) + 1
    <3> SUFFICES ASSUME flowsIn PROVE SumFunction(h) = SumFunction(f) + h[n] /\ Cardinality(D') = Cardinality(D) + 1
      OBVIOUS
    <3>1. /\ IsFiniteSet(DOMAIN f) /\ n \notin DOMAIN f /\ DOMAIN h = DOMAIN f \cup {n}
          /\ \A i \in DOMAIN h : h[i] \in Int
          /\ \A i \in DOMAIN f : h[i] = f[i]
      BY <2>1, <2>3
    <3>2. SumFunction(h) = SumFunction(f) + h[n]
      BY <3>1, SumOfOneMore
    <3>3. IsFiniteSet(D) /\ n \notin D /\ D' = D \cup {n}
      BY <2>1
    <3>4. Cardinality(D') = Cardinality(D) + 1
      BY <3>3, FS_AddElement
    <3> QED
      BY <3>2, <3>4
  <2>9. /\ Inflow(side)' = Inflow(side) + IF flowsIn THEN s.amount[side] ELSE 0
        /\ Cardinality(D') = Cardinality(D) + IF flowsIn THEN 1 ELSE 0
    BY <2>1, <2>4, <2>5, <2>6, <2>7, <2>8
  <2> QED
    BY <2>9 DEF D, flowsIn
<1> QED
  BY <1>2, <1>4, <1>6, <1>7

\* A window that begins has no swaps.
LEMMA NoSwapsYet ==
  ASSUME swaps = << >>
  PROVE  /\ Counted = {} /\ Cardinality(Counted) = 0
         /\ \A side \in Sides : /\ Volume(side) = 0 /\ Inflow(side) = 0
                                /\ Cardinality(Inflows(side)) = 0
<1>1. Counted = {}
  BY DEF Counted
<1>2. ASSUME NEW side \in Sides PROVE Inflows(side) = {}
  BY <1>1 DEF Inflows
<1> QED
  BY <1>1, <1>2, SumOfNothing, FS_EmptySet DEF Volume, Inflow

LEMMA SwapsCountWholeKept ==
  ASSUME FiguresInv, FiguresInv', SwapsCountWhole, [Next]_vars
  PROVE  SwapsCountWhole'
<1>1. CASE UNCHANGED sums
  BY <1>1 DEF sums, SwapsCountWhole, Counted
<1>2. CASE AddSwap
  <2>1. PICK s \in Swaps : ApplySwap(s) /\ swaps' = Append(swaps, s)
    BY <1>2 DEF AddSwap
  <2>2. count = Cardinality(Counted) /\ \A side \in Sides : volume[side] = Volume(side)
    BY DEF SwapsCountWhole, Volume
  <2>3. count' = Cardinality(Counted') /\ \A side \in Sides : volume'[side] = Volume(side)'
    <3>1. CASE s.parses[1] /\ s.parses[2]
      <4>1. /\ volume' = [side \in Sides |-> volume[side] + Abs(s.amount[side])]
            /\ count' = count + 1
        BY <2>1, <3>1 DEF ApplySwap
      <4>2. /\ Cardinality(Counted') = Cardinality(Counted) + 1
            /\ \A side \in Sides : Volume(side)' = Volume(side) + Abs(s.amount[side])
        BY <2>1, <3>1, OneSwapMore
      <4> QED
        BY <2>2, <4>1, <4>2
    <3>2. CASE ~(s.parses[1] /\ s.parses[2])
      <4>1. UNCHANGED <<count, volume>>
        BY <2>1, <3>2 DEF ApplySwap
      <4>2. Counted' = Counted /\ \A side \in Sides : Volume(side)' = Volume(side) + 0
        BY <2>1, <3>2, OneSwapMore
      <4>3. \A side \in Sides : volume[side] \in Int
        BY DEF FiguresInv, TypeOK, Pair
      <4> QED
        BY <2>2, <4>1, <4>2, <4>3
    <3> QED
      BY <3>1, <3>2
  <2> QED
    BY <2>3 DEF SwapsCountWhole, Volume
<1>3. CASE StoreRow
  <2>1. swaps' = << >> /\ count' = 0 /\ volume' = <<0, 0>>
    BY <1>3 DEF StoreRow, NewAccumulator
  <2>2. Cardinality(Counted') = 0 /\ \A side \in Sides : Volume(side)' = 0
    <3>1. Counted' = {}
      BY <2>1 DEF Counted
    <3> QED
      BY <3>1, SumOfNothing, FS_EmptySet DEF Volume
  <2>3. \A side \in Sides : volume'[side] = 0
    BY <2>1 DEF Sides
  <2> QED
    BY <2>1, <2>2, <2>3 DEF SwapsCountWhole, Volume
<1> QED
  BY <1>1, <1>2, <1>3 DEF Next, HeadGrows, CloseWindow, DecimalsKnown, DecimalsFetched, DecimalsFail,
     DecimalsDone, BalanceOf, FallBack, GiveUp, vars, sums
-----------------------------------------------------------------------------
(***************************************************************************)
(* However many swaps a window has and whatever amounts, count and both    *)
(* volumes are those of the swaps whose two amounts parse: applySwap       *)
(* parses both before it adds anything.                                    *)
(***************************************************************************)
THEOREM FiguresSwapsCountWhole == Spec => []SwapsCountWhole
<1>1. Init => SwapsCountWhole
  <2> SUFFICES ASSUME Init PROVE SwapsCountWhole
    OBVIOUS
  <2>1. swaps = << >> /\ count = 0 /\ \A side \in Sides : volume[side] = 0
    BY DEF Init, Sides
  <2> QED
    BY <2>1, NoSwapsYet DEF SwapsCountWhole, Volume
<1>2. FiguresInv /\ FiguresInv' /\ SwapsCountWhole /\ [Next]_vars => SwapsCountWhole'
  BY SwapsCountWholeKept
<1> QED
  BY <1>1, <1>2, FiguresInvariant, PTL DEF Spec
-----------------------------------------------------------------------------
\* The fee falls short of its exact share by less than one unit per swap that pays in.
Shortfall(side) == Inflow(side) * FeeOf[Pool] - fee[side] * FeeUnit
FeeInv ==
  w \in DOMAIN Windows =>
    \A side \in Sides :
      0 <= Shortfall(side) /\ Shortfall(side) <= Cardinality(Inflows(side)) * (FeeUnit - 1)

LEMMA FeeUnitMeaning == FeeUnit \in Nat /\ FeeUnit > 0
  BY SMT DEF FeeUnit

LEMMA Quotient ==
  ASSUME NEW m \in Nat, NEW unit \in Nat, unit > 0
  PROVE  m \div unit \in Nat /\ m - (m \div unit) * unit \in 0..unit - 1
  OBVIOUS

LEMMA OneFeeMore ==
  ASSUME NEW total \in Int, NEW amount \in Int, NEW rate \in Int, NEW sum \in Int, NEW q \in Int,
         NEW k \in Int, NEW unit \in Int
  PROVE  /\ (total + amount) * rate - (sum + q) * unit
              = (total * rate - sum * unit) + (amount * rate - q * unit)
         /\ (k + 1) * (unit - 1) = k * (unit - 1) + (unit - 1)
  OBVIOUS

LEMMA FeeKept ==
  ASSUME SwapsExchange, FiguresInv, FiguresInv', FeeInv, [Next]_vars
  PROVE  FeeInv'
<1>1. CASE UNCHANGED <<sums, w>>
  BY <1>1 DEF sums, FeeInv, Shortfall, Inflow, Inflows, Counted, Pool
<1>2. CASE AddSwap
  <2>1. PICK s \in Swaps : ApplySwap(s) /\ swaps' = Append(swaps, s)
    BY <1>2 DEF AddSwap
  <2>2. w' = w /\ w \in DOMAIN Windows /\ Pool' = Pool
    BY <1>2 DEF AddSwap, Pool
  <2>3. FeeOf[Pool] \in Nat
    BY <2>2, ConfigFacts DEF Pool
  <2>4. s.amount[1] \in Int /\ s.amount[2] \in Int
    <3>1. s.amount \in [Sides -> Int]
      BY FiguresAssumption
    <3> QED
      BY <3>1 DEF Sides
  <2>5. ASSUME NEW side \in Sides
        PROVE  0 <= Shortfall(side)' /\ Shortfall(side)' <= Cardinality(Inflows(side)') * (FeeUnit - 1)
    <3> DEFINE flowsIn == s.parses[1] /\ s.parses[2] /\ s.amount[side] > 0 /\ s.amount[Other(side)] # 0
               q == FeeFromAmount(s.amount[side], FeeOf[Pool])
               k == Cardinality(Inflows(side))
    <3>1. /\ Inflow(side) \in Int /\ k \in Nat /\ fee[side] \in Nat
          /\ 0 <= Shortfall(side) /\ Shortfall(side) <= k * (FeeUnit - 1)
          /\ Shortfall(side) = Inflow(side) * FeeOf[Pool] - fee[side] * FeeUnit
          /\ Shortfall(side)' = Inflow(side)' * FeeOf[Pool] - fee'[side] * FeeUnit
      <4>1. Inflow(side) \in Int /\ k \in Nat
        BY SwapsTyped, FS_CardinalityType DEF FiguresInv
      <4>2. fee[side] \in Nat
        BY DEF FiguresInv, TypeOK, Pair
      <4>3. 0 <= Shortfall(side) /\ Shortfall(side) <= k * (FeeUnit - 1)
        BY <2>2 DEF FeeInv
      <4>4. /\ Shortfall(side) = Inflow(side) * FeeOf[Pool] - fee[side] * FeeUnit
            /\ Shortfall(side)' = Inflow(side)' * FeeOf[Pool] - fee'[side] * FeeUnit
        BY <2>2 DEF Shortfall
      <4> QED
        BY <4>1, <4>2, <4>3, <4>4
    <3>2. /\ Inflow(side)' = Inflow(side) + IF flowsIn THEN s.amount[side] ELSE 0
          /\ Cardinality(Inflows(side)') = k + IF flowsIn THEN 1 ELSE 0
      BY <2>1, OneSwapMore
    <3>3. s.amount[side] \in Int /\ s.amount[Other(side)] \in Int
      BY <2>4 DEF Sides, Other
    <3>4. CASE flowsIn
      <4>1. s.amount[side] > 0 /\ s.amount[Other(side)] < 0
        BY <2>4, <3>4 DEF SwapsExchange, Sides, Other
      <4>2. fee'[side] = fee[side] + q
        BY <2>1, <3>4, <4>1 DEF ApplySwap, FeeOn, PaysFee
      <4>3. /\ q \in Nat
            /\ s.amount[side] * FeeOf[Pool] - q * FeeUnit \in 0..FeeUnit - 1
        <5>1. s.amount[side] \in Nat /\ Abs(s.amount[side]) = s.amount[side]
          BY <3>3, <4>1 DEF Abs
        <5>2. s.amount[side] * FeeOf[Pool] \in Nat
          BY <2>3, <5>1
        <5> QED
          BY <5>1, <5>2, Quotient, FeeUnitMeaning DEF FeeFromAmount
      <4> HIDE DEF q, k
      <4>4. Shortfall(side)' = Shortfall(side) + (s.amount[side] * FeeOf[Pool] - q * FeeUnit)
        BY <2>3, <3>1, <3>2, <3>3, <3>4, <4>2, <4>3, OneFeeMore, FeeUnitMeaning
      <4>5. Cardinality(Inflows(side)') * (FeeUnit - 1) = k * (FeeUnit - 1) + (FeeUnit - 1)
        BY <3>1, <3>2, <3>4, OneFeeMore, FeeUnitMeaning
      <4>6. Shortfall(side) \in Int
        BY <2>3, <3>1, FeeUnitMeaning
      <4> QED
        BY <3>1, <4>3, <4>4, <4>5, <4>6, FeeUnitMeaning
    <3>5. CASE ~flowsIn
      <4>1. ~(s.parses[1] /\ s.parses[2]) \/ ~PaysFee(s, side)
        BY <3>3, <3>5 DEF PaysFee
      <4>2. fee'[side] = fee[side]
        BY <2>1, <3>1, <4>1 DEF ApplySwap, FeeOn
      <4>3. Inflow(side)' = Inflow(side) /\ Cardinality(Inflows(side)') = k
        BY <3>1, <3>2, <3>5
      <4> HIDE DEF k
      <4> QED
        BY <3>1, <4>2, <4>3
    <3> QED
      BY <3>4, <3>5
  <2> QED
    BY <2>5 DEF FeeInv
<1>3. CASE StoreRow
  <2>1. swaps' = << >> /\ fee' = <<0, 0>>
    BY <1>3 DEF StoreRow, NewAccumulator
  <2>2. ASSUME w' \in DOMAIN Windows, NEW side \in Sides
        PROVE  Shortfall(side)' = 0 /\ Cardinality(Inflows(side)') = 0
    <3>1. Counted' = {}
      BY <2>1 DEF Counted
    <3>2. Inflows(side)' = {}
      BY <3>1 DEF Inflows
    <3>3. Inflow(side)' = 0
      BY <3>2, SumOfNothing DEF Inflow
    <3>4. fee'[side] = 0
      BY <2>1 DEF Sides
    <3>5. FeeOf[Pool'] \in Nat
      BY <2>2, ConfigFacts DEF Pool
    <3> QED
      BY <3>2, <3>3, <3>4, <3>5, FS_EmptySet, FeeUnitMeaning DEF Shortfall
  <2> QED
    BY <2>2, FeeUnitMeaning DEF FeeInv
<1> QED
  BY <1>1, <1>2, <1>3 DEF Next, HeadGrows, CloseWindow, DecimalsKnown, DecimalsFetched, DecimalsFail,
     DecimalsDone, BalanceOf, FallBack, GiveUp, vars, sums

(***************************************************************************)
(* For any fee tier and any swaps that exchange one token for the other,   *)
(* the approximated fee is within its rounding of the exact share: the     *)
(* quotients of feeFromAmount are cut off swap by swap, never once for the *)
(* window.                                                                 *)
(***************************************************************************)
THEOREM FiguresFeeWithinRounding == SwapsExchange => (Spec => []FeeWithinRounding)
<1> SUFFICES ASSUME SwapsExchange PROVE Spec => []FeeWithinRounding
  OBVIOUS
<1>1. Init => FeeInv
  <2> SUFFICES ASSUME Init, w \in DOMAIN Windows, NEW side \in Sides
               PROVE  /\ 0 <= Shortfall(side)
                      /\ Shortfall(side) <= Cardinality(Inflows(side)) * (FeeUnit - 1)
    BY DEF FeeInv
  <2>1. swaps = << >> /\ fee[side] = 0
    BY DEF Init, Sides
  <2>2. Inflow(side) = 0 /\ Cardinality(Inflows(side)) = 0
    BY <2>1, NoSwapsYet
  <2>3. FeeOf[Pool] \in Nat
    BY ConfigFacts DEF Pool
  <2> QED
    BY <2>1, <2>2, <2>3, FeeUnitMeaning DEF Shortfall
<1>2. FiguresInv /\ FiguresInv' /\ FeeInv /\ [Next]_vars => FeeInv'
  BY FeeKept
<1>3. FeeInv => FeeWithinRounding
  BY DEF FeeInv, FeeWithinRounding, Shortfall, Inflow, Inflows
<1> QED
  BY <1>1, <1>2, <1>3, FiguresInvariant, PTL DEF Spec
=============================================================================
