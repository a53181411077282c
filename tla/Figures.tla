------------------------------- MODULE Figures --------------------------------
(***************************************************************************)
(* The figures of a metrics row: the sums of applySwap, and the calls by   *)
(* which flushAccumulator turns them into a row -- the decimals of the two *)
(* tokens, cached, and the balances of the pool, with their fallbacks.     *)
(* One process closes a list of windows; every call to the node may fail,  *)
(* and the chain grows meanwhile.                                          *)
(*                                                                         *)
(* Figures come in pairs, of token0 and token1 (side 1 and side 2).  A     *)
(* decimal string is a pair of a whole number and a number of decimals.    *)
(***************************************************************************)
EXTENDS Integers, Sequences, FiniteSets, Functions

CONSTANTS
  Windows,              \* the windows in the order they are closed: pool and last block
  TokensOf, FeeOf,      \* the two tokens and the fee tier of each pool
  DecimalsOf,           \* the decimals of each token
  Balance(_, _, _),     \* the balance of a pool on a side at a height
  Swaps,                \* swaps a window may have: amounts, and do they parse?
  MaxSwaps,             \* bound on the swaps of a window
  MaxHead               \* bound on the latest block

Pools == DOMAIN TokensOf
Tokens == UNION {Range(TokensOf[p]) : p \in Pools}
Sides == {1, 2}
Other(side) == 3 - side
FeeUnit == 1000000      \* fee tiers are in parts of a million

ASSUME FiguresAssumption ==
  /\ Windows \in Seq([pool : Pools, block : Nat])
  /\ \A p \in Pools : TokensOf[p] \in Seq(Tokens) /\ Len(TokensOf[p]) = 2
  /\ FeeOf \in [Pools -> Nat]
  /\ DecimalsOf \in [Tokens -> Nat]
  /\ \A p \in Pools, s \in Sides, h \in 0..MaxHead : Balance(p, s, h) \in Nat
  /\ \A s \in Swaps : s.amount \in [Sides -> Int] /\ s.parses \in [Sides -> BOOLEAN]
  /\ MaxSwaps \in Nat /\ MaxHead \in Nat

VARIABLES
  head,                 \* the latest block of the node
  pc, w,                \* the window in hand
  swaps,                \* history: the swaps of the window
  count, volume, fee,   \* SwapCount, <<Volume0, Volume1>>, <<Fee0, Fee1>>
  cache,                \* TokenDecimalsCache: function from tokens
  closedAt,             \* history: the latest block when the window was closed
  decimals,             \* decimals0 and decimals1, as far as they are looked up
  reads,                \* heights of the balances read in this attempt, or Failed
  rows                  \* the metrics, in the order they are made

sums == <<swaps, count, volume, fee>>
vars == <<head, pc, w, sums, cache, closedAt, decimals, reads, rows>>

Failed == -1
Pool == Windows[w].pool

NewAccumulator ==
  /\ swaps' = << >> /\ count' = 0 /\ volume' = <<0, 0>> /\ fee' = <<0, 0>>

Init ==
  /\ head \in 0..MaxHead
  /\ \A i \in DOMAIN Windows : Windows[i].block <= head
  /\ pc = "events" /\ w = 1
  /\ swaps = << >> /\ count = 0 /\ volume = <<0, 0>> /\ fee = <<0, 0>>
  /\ cache = << >> /\ closedAt = head
  /\ decimals = << >> /\ reads = << >> /\ rows = << >>
-----------------------------------------------------------------------------
HeadGrows ==
  /\ head < MaxHead /\ head' = head + 1
  /\ UNCHANGED <<pc, w, sums, cache, closedAt, decimals, reads, rows>>

Abs(n) == IF n < 0 THEN -n ELSE n

RoundsUp(amountIn, feeRate) ==      \* mutant of FeeFromAmount: the quotient is rounded up
  (Abs(amountIn) * feeRate + FeeUnit - 1) \div FeeUnit

FeeFromAmount(amountIn, feeRate) == (Abs(amountIn) * feeRate) \div FeeUnit

\* The side that pays: it flows in while the other flows out.
PaysFee(s, side) == s.amount[side] > 0 /\ s.amount[Other(side)] < 0

FeeOn(s, side) ==
  IF PaysFee(s, side) THEN FeeFromAmount(s.amount[side], FeeOf[Pool]) ELSE 0

AddsBeforeParsing(s) ==     \* mutant of ApplySwap: Volume0 is updated before Amount1 is parsed
  /\ volume' = [side \in Sides |->
                  IF s.parses[1] /\ (side = 1 \/ s.parses[2])
                  THEN volume[side] + Abs(s.amount[side]) ELSE volume[side]]
  /\ IF s.parses[1] /\ s.parses[2]
     THEN /\ fee' = [side \in Sides |-> fee[side] + FeeOn(s, side)]
          /\ count' = count + 1
     ELSE UNCHANGED <<count, fee>>

\* Both amounts are parsed before anything is added.
ApplySwap(s) ==
  IF s.parses[1] /\ s.parses[2]
  THEN /\ volume' = [side \in Sides |-> volume[side] + Abs(s.amount[side])]
       /\ fee' = [side \in Sides |-> fee[side] + FeeOn(s, side)]
       /\ count' = count + 1
  ELSE UNCHANGED <<count, volume, fee>>

AddSwap ==
  /\ pc = "events" /\ w \in DOMAIN Windows /\ Len(swaps) < MaxSwaps
  /\ \E s \in Swaps : ApplySwap(s) /\ swaps' = Append(swaps, s)
  /\ UNCHANGED <<head, pc, w, cache, closedAt, decimals, reads, rows>>

CloseWindow ==
  /\ pc = "events" /\ w \in DOMAIN Windows
  /\ pc' = "decimals" /\ closedAt' = head
  /\ decimals' = << >> /\ reads' = << >>
  /\ UNCHANGED <<head, w, sums, cache, rows>>
-----------------------------------------------------------------------------
\* getTokenDecimals, first of token0, then of token1.
Token == TokensOf[Pool][Len(decimals) + 1]
DecimalsDue == pc = "decimals" /\ Len(decimals) < 2

DecimalsKnown ==
  /\ DecimalsDue /\ Token \in DOMAIN cache
  /\ decimals' = Append(decimals, cache[Token])
  /\ UNCHANGED <<head, pc, w, sums, cache, closedAt, reads, rows>>

DecimalsFetched ==
  /\ DecimalsDue /\ Token \notin DOMAIN cache
  /\ decimals' = Append(decimals, DecimalsOf[Token])
  /\ cache' = [t \in DOMAIN cache \cup {Token} |-> DecimalsOf[t]]
  /\ UNCHANGED <<head, pc, w, sums, closedAt, reads, rows>>

CacheNotAsked ==            \* mutant of DecimalsFail: decimals are fetched for every row
  /\ DecimalsDue
  /\ decimals' = Append(decimals, 0)
  /\ UNCHANGED <<head, pc, w, sums, cache, closedAt, reads, rows>>

\* The error is logged, 0 is used, and nothing is cached.
DecimalsFail ==
  /\ DecimalsDue /\ Token \notin DOMAIN cache
  /\ decimals' = Append(decimals, 0)
  /\ UNCHANGED <<head, pc, w, sums, cache, closedAt, reads, rows>>

\* Without a last block there is no TVL.
DecimalsDone ==
  /\ pc = "decimals" /\ Len(decimals) = 2
  /\ pc' = IF Windows[w].block > 0 THEN "balance_of_block" ELSE "unavailable"
  /\ UNCHANGED <<head, w, sums, cache, closedAt, decimals, reads, rows>>
-----------------------------------------------------------------------------
\* fetchTVL: both balances are asked for, at the last block of the window, and
\* if one of the two calls fails both again, at the latest block.
Reading == pc \in {"balance_of_block", "balance_of_latest"} /\ Len(reads) < 2
Height == IF pc = "balance_of_block" THEN Windows[w].block ELSE head

BalanceOf ==
  /\ Reading
  /\ \E answer \in {Height, Failed} : reads' = Append(reads, answer)
  /\ UNCHANGED <<head, pc, w, sums, cache, closedAt, decimals, rows>>

BothRead == Len(reads) = 2 /\ Failed \notin Range(reads)

FallsBackHalfway ==         \* mutant of FallBack: a balance that was read is kept
  /\ pc = "balance_of_block" /\ Len(reads) = 2 /\ ~BothRead
  /\ pc' = "balance_of_latest"
  /\ reads' = IF reads[1] = Failed THEN << >> ELSE <<reads[1]>>
  /\ UNCHANGED <<head, w, sums, cache, closedAt, decimals, rows>>

FallBack ==
  /\ pc = "balance_of_block" /\ Len(reads) = 2 /\ ~BothRead
  /\ pc' = "balance_of_latest" /\ reads' = << >>
  /\ UNCHANGED <<head, w, sums, cache, closedAt, decimals, rows>>

GiveUp ==
  /\ pc = "balance_of_latest" /\ Len(reads) = 2 /\ ~BothRead
  /\ pc' = "unavailable" /\ reads' = << >>
  /\ UNCHANGED <<head, w, sums, cache, closedAt, decimals, rows>>
-----------------------------------------------------------------------------
\* formatTokenAmount, on both sides.
Formatted(amounts) ==
  [side \in Sides |-> [whole |-> amounts[side], decimals |-> decimals[side]]]

\* computeFeeRates: the sides with a rate, the quotient of the two numbers.
HasRate(fees, tvl) == {side \in Sides : tvl # << >> /\ fees[side] # 0 /\ tvl[side] # 0}

\* computeAPR: the side whose rate is scaled up, if it is the only one.
AprSide(rated) == IF rated = Sides THEN {} ELSE rated

\* The metrics of the window.
StoreRow ==
  /\ pc = "unavailable" \/ (pc \in {"balance_of_block", "balance_of_latest"} /\ BothRead)
  /\ LET tvl == [side \in DOMAIN reads |-> Balance(Pool, side, reads[side])]
         rated == HasRate(fee, tvl)
     IN  rows' = Append(rows,
           [window |-> w, swapCount |-> count,
            volume |-> Formatted(volume), fee |-> Formatted(fee),
            tvl |-> IF tvl = << >> THEN << >> ELSE Formatted(tvl),
            tvlMethod |-> pc, rated |-> rated, apr |-> AprSide(rated),
            heights |-> reads, closedAt |-> closedAt])
  /\ pc' = "events" /\ w' = w + 1 /\ NewAccumulator
  /\ UNCHANGED <<head, cache, closedAt, decimals, reads>>
-----------------------------------------------------------------------------
Next ==
  \/ HeadGrows
  \/ AddSwap \/ CloseWindow
  \/ DecimalsKnown \/ DecimalsFetched \/ DecimalsFail \/ DecimalsDone
  \/ BalanceOf \/ FallBack \/ GiveUp \/ StoreRow

Spec == Init /\ [][Next]_vars
-----------------------------------------------------------------------------
Figure == [whole : Nat, decimals : Nat]
Pair(S) == [Sides -> S]
Row == [window : DOMAIN Windows, swapCount : 0..MaxSwaps,
        volume : Pair(Figure), fee : Pair(Figure), tvl : Pair(Figure) \cup {<< >>},
        tvlMethod : {"balance_of_block", "balance_of_latest", "unavailable"},
        rated : SUBSET Sides, apr : SUBSET Sides,
        heights : Pair(0..MaxHead) \cup {<< >>}, closedAt : 0..MaxHead]

TypeOK ==
  /\ head \in 0..MaxHead /\ closedAt \in 0..MaxHead
  /\ pc \in {"events", "decimals", "balance_of_block", "balance_of_latest", "unavailable"}
  /\ w \in 1..Len(Windows) + 1
  /\ swaps \in Seq(Swaps) /\ Len(swaps) <= MaxSwaps
  /\ count \in 0..MaxSwaps /\ volume \in Pair(Nat) /\ fee \in Pair(Nat)
  /\ DOMAIN cache \subseteq Tokens /\ \A t \in DOMAIN cache : cache[t] \in Nat
  /\ decimals \in Seq(Nat) /\ Len(decimals) <= 2
  /\ reads \in Seq(0..MaxHead \cup {Failed}) /\ Len(reads) <= 2
  /\ rows \in Seq(Row)

Counted == {i \in DOMAIN swaps : swaps[i].parses[1] /\ swaps[i].parses[2]}

(***************************************************************************)
(* A swap counts whole or not at all: count and both volumes are those of  *)
(* the swaps whose two amounts parse, whatever malformed ones came in      *)
(* between.                                                                *)
(***************************************************************************)
SwapsCountWhole ==
  /\ count = Cardinality(Counted)
  /\ \A side \in Sides :
       volume[side] = SumFunction([i \in Counted |-> Abs(swaps[i].amount[side])])

\* What a pool does not do, though ApplySwap would sum it up: take in both tokens.
SwapsExchange ==
  \A s \in Swaps : s.parses[1] /\ s.parses[2] => s.amount[1] <= 0 \/ s.amount[2] <= 0

(***************************************************************************)
(* The approximated fee never exceeds the fee tier's share of what flowed  *)
(* in, and falls short of it by less than one unit of the token per swap,  *)
(* swaps that pay nothing out aside.                                       *)
(***************************************************************************)
FeeWithinRounding ==
  w \in DOMAIN Windows =>
    \A side \in Sides :
      LET inflows == {i \in Counted : swaps[i].amount[side] > 0
                                         /\ swaps[i].amount[Other(side)] # 0}
          exact == SumFunction([i \in inflows |-> swaps[i].amount[side]]) * FeeOf[Pool]
          short == exact - fee[side] * FeeUnit
      IN  0 <= short /\ short <= Cardinality(inflows) * (FeeUnit - 1)

(***************************************************************************)
(* tvl_method says what both sides of a TVL are: balances at the last      *)
(* block of the window, or balances each read at the latest block of a     *)
(* moment after the window was closed, which need not be the same block;   *)
(* or there is no TVL, and then no rate either.                            *)
(***************************************************************************)
TvlIsWhatItSays ==
  \A k \in DOMAIN rows :
    LET row == rows[k]
    IN  CASE row.tvlMethod = "balance_of_block" ->
               Range(row.heights) = {Windows[row.window].block}
          [] row.tvlMethod = "balance_of_latest" ->
               \A side \in Sides : row.heights[side] >= row.closedAt
          [] OTHER -> row.tvl = << >> /\ row.rated = {} /\ row.apr = {}

(***************************************************************************)
(* Volume, fee and TVL of a token are in one unit, which is the token's    *)
(* own or, when its decimals could not be had, the raw one; once a row has *)
(* the token's own, all later rows of the run have it too.                 *)
(***************************************************************************)
UnitsSettle ==
  \A k \in DOMAIN rows : \A side \in Sides :
    LET token(r) == TokensOf[Windows[r.window].pool]
        unit(r, s) == r.volume[s].decimals
    IN  /\ unit(rows[k], side) \in {0, DecimalsOf[token(rows[k])[side]]}
        /\ rows[k].fee[side].decimals = unit(rows[k], side)
        /\ rows[k].tvl # << >> => rows[k].tvl[side].decimals = unit(rows[k], side)
        /\ \A j \in 1..k - 1 : \A s \in Sides :
             /\ token(rows[j])[s] = token(rows[k])[side]
             /\ unit(rows[j], s) # 0
             => unit(rows[k], side) = unit(rows[j], s)
=============================================================================
