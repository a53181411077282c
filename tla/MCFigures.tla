------------------------------ MODULE MCFigures -------------------------------
(***************************************************************************)
(* Instances of Figures: two pools that share a token.                     *)
(***************************************************************************)
EXTENDS Figures

CONSTANTS p, q, bnb, cake, usdt

PoolTokens == [pool \in {p, q} |-> IF pool = p THEN <<bnb, usdt>> ELSE <<cake, bnb>>]
Tiers == [pool \in {p, q} |-> IF pool = p THEN 2500 ELSE 0]
TokenDecimals ==
  [token \in {bnb, cake, usdt} |->
     CASE token = bnb -> 18 [] token = cake -> 8 [] token = usdt -> 6]

\* Pool q has no token0 left at the latest block.
Balances(pool, side, h) == IF pool = q /\ side = 1 /\ h = 2 THEN 0 ELSE 1000 * h + side

Swap(a0, a1) == [amount |-> <<a0, a1>>, parses |-> <<TRUE, TRUE>>]

\* Swaps in both directions, on both sides of the fee's rounding, and one whose first
\* amount parses and whose second does not.
Trades == {Swap(799, -7), Swap(-7, 801), [amount |-> <<400, 0>>, parses |-> <<TRUE, FALSE>>]}
\* The last window has no block to ask the balances of.
ThreeWindows == <<[pool |-> p, block |-> 1], [pool |-> q, block |-> 1], [pool |-> p, block |-> 0]>>

ASSUME SwapsExchange

=============================================================================
