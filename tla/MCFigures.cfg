SPECIFICATION Spec
CONSTANTS
  p = p
  q = q
  bnb = bnb
  cake = cake
  usdt = usdt
  Windows <- ThreeWindows
  TokensOf <- PoolTokens
  FeeOf <- Tiers
  DecimalsOf <- TokenDecimals
  Balance <- Balances
  Swaps <- Trades
  MaxSwaps = 2
  MaxHead = 2
INVARIANTS SwapsCountWhole FeeWithinRounding TvlIsWhatItSays UnitsSettle
\* the list of windows ends
CHECK_DEADLOCK FALSE
