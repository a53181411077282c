------------------------------- MODULE MCPayload ------------------------------
(***************************************************************************)
(* Instances of Payload with words of 6 bits, addresses of 3 and ticks of  *)
(* 3 bits: the ends of every type's range in every argument.               *)
(***************************************************************************)
EXTENDS Payload

Width == 64

\* The ends of the ranges.
Addresses == {1, 6}
Ticks24 == {-4, -1, 3}
Int256s == {-32, -1, 31}
Uints == {0, 33}

Arguments ==
  [Swap |-> [sender : Addresses, recipient : Addresses, amount0 : Int256s, amount1 : Int256s,
             sqrtPriceX96 : Uints, liquidity : Uints, tick : Ticks24],
   Mint |-> [sender : Addresses, owner : Addresses, tickLower : Ticks24, tickUpper : Ticks24,
             amount : Uints, amount0 : Uints, amount1 : Uints],
   Burn |-> [owner : Addresses, tickLower : Ticks24, tickUpper : Ticks24,
             amount : Uints, amount0 : Uints, amount1 : Uints],
   Collect |-> [owner : Addresses, recipient : Addresses,
                tickLower : Ticks24, tickUpper : Ticks24, amount0 : Uints, amount1 : Uints]]

BuiltinTopics == [Swap |-> 50, Mint |-> 51, Burn |-> 52, Collect |-> 53]
ForkSwap == 60
EmptyKey == -1

\* For a fork, for a topic no log has in two spellings, a built-in topic misnamed,
\* an empty key; and a name that is no event's.
Mapping ==
  {[topic |-> ForkSwap, spelling |-> "lower", name |-> "Swap"],
   [topic |-> 61, spelling |-> "lower", name |-> "Mint"],
   [topic |-> 61, spelling |-> "upper", name |-> "Burn"],
   [topic |-> 53, spelling |-> "lower", name |-> "Burn"],
   [topic |-> EmptyKey, spelling |-> "lower", name |-> "Collect"]}
Misspelt == {[topic |-> ForkSwap, spelling |-> "lower", name |-> "Swaps"]}
Maps == {{}, Mapping, Mapping \cup Misspelt}

Logs ==
  UNION {[name : {name}, args : Arguments[name], topic0 : {BuiltinTopics[name]}, added : {<< >>}] :
           name \in EventNames}
  \cup [name : {"Swap"}, args : Arguments.Swap, topic0 : {ForkSwap}, added : {<<7, 9>>}]

\* The first words past both ends of the ticks, a multiple of their modulus, an
\* address with high bits.
Stray == {4, 59, 8, 14}
=============================================================================
