----------------------------- MODULE PayloadProofs ----------------------------
(***************************************************************************)
(* What the decoder makes of a log, for words and addresses of any width,  *)
(* every table of topics, every log a contract can emit and whatever the   *)
(* log is damaged by.                                                      *)
(***************************************************************************)
EXTENDS Payload, SequenceTheorems, TLAPS

\* Numbers below the modulus.
LEMMA Remainders ==
  ASSUME NEW m \in Nat \ {0}, NEW v \in Int
  PROVE  /\ v % m \in 0..m - 1
         /\ 0 <= v /\ v < m => v % m = v
         /\ -m <= v /\ v < 0 => v % m = v + m
<1> DEFINE q == v \div m
           r == v % m
<1>1. q \in Int /\ r \in 0..m - 1 /\ v = m * q + r
  OBVIOUS
<1> HIDE DEF q, r
<1>2. ASSUME q >= 1 PROVE m * q >= m
  BY <1>1, <1>2
<1>3. ASSUME q <= -1 PROVE m * q <= -m
  BY <1>1, <1>3
<1>4. ASSUME q <= -2 PROVE m * q <= -2 * m
  BY <1>1, <1>4
<1>5. 0 <= v /\ v < m => q = 0
  BY <1>1, <1>2, <1>3
<1>6. -m <= v /\ v < 0 => q = -1
  BY <1>1, <1>2, <1>4
<1>7. (q = 0 => m * q = 0) /\ (q = -1 => m * q = -m)
  BY <1>1
<1>8. /\ r \in 0..m - 1
      /\ 0 <= v /\ v < m => r = v
      /\ -m <= v /\ v < 0 => r = v + m
  BY <1>1, <1>5, <1>6, <1>7
<1> QED
  BY <1>8 DEF r

LEMMA Widths ==
  /\ Modulus \in Nat \ {0} /\ AddressBound \in Nat \ {0} /\ AddressBound <= Modulus
  /\ TickBound \in Nat \ {0} /\ 2 * TickBound <= Modulus
  BY WidthAssumption

\* A value of a type survives its encoding, and only a tick can leave its type.
LEMMA EncodingMeaning ==
  ASSUME NEW type, NEW value, InType(type, value)
  PROVE  Packed(value) \in Word /\ Unpacked(type, Packed(value)) = value
<1>1. CASE type = "address"
  <2>1. value \in Int /\ 0 <= value /\ value < AddressBound /\ value < Modulus
    BY <1>1, Widths DEF InType
  <2>2. value % Modulus = value /\ value % AddressBound = value
    BY <2>1, Widths, Remainders
  <2> QED
    BY <1>1, <2>1, <2>2, Widths DEF Packed, Unpacked, Word
<1>2. CASE type \in {"int256", "int24"}
  <2>1. value \in Int /\ -Modulus <= 2 * value /\ 2 * value < Modulus
    BY <1>2, Widths DEF InType
  <2>2. value % Modulus \in 0..Modulus - 1
    BY <2>1, Widths, Remainders
  <2>3. value % Modulus = IF 0 <= value THEN value ELSE value + Modulus
    <3>1. CASE 0 <= value
      <4>1. value < Modulus
        BY <2>1, <3>1, Widths
      <4>2. value % Modulus = value
        BY <2>1, <3>1, <4>1, Widths, Remainders
      <4> QED
        BY <3>1, <4>2
    <3>2. CASE value < 0
      <4>1. -Modulus <= value
        BY <2>1, <3>2, Widths
      <4>2. value % Modulus = value + Modulus
        BY <2>1, <3>2, <4>1, Widths, Remainders
      <4> QED
        BY <2>1, <3>2, <4>2
    <3> QED
      BY <2>1, <3>1, <3>2
  <2>4. Signed(value % Modulus) = value
    BY <2>1, <2>2, <2>3, Widths DEF Signed
  <2>5. Unpacked(type, Packed(value)) = Signed(value % Modulus)
    BY <1>2 DEF Packed, Unpacked
  <2> QED
    BY <2>2, <2>4, <2>5 DEF Packed, Word
<1>3. CASE type \notin {"address", "int256", "int24"}
  <2>1. value \in Int /\ 0 <= value /\ value < Modulus
    BY <1>3, Widths DEF InType, Word
  <2>2. value % Modulus = value
    BY <2>1, Widths, Remainders
  <2> QED
    BY <1>3, <2>1, <2>2, Widths DEF Packed, Unpacked, Word
<1> QED
  BY <1>1, <1>2, <1>3

LEMMA DecodingMeaning ==
  ASSUME NEW type, NEW word \in Word
  PROVE  /\ type # "int24" => InType(type, Unpacked(type, word))
         /\ type = "int24" => /\ Unpacked(type, word) \in Int
                              /\ Packed(Unpacked(type, word)) = word
<1>1. word \in Int /\ 0 <= word /\ word < Modulus
  BY Widths DEF Word
<1>2. CASE type = "address"
  BY <1>1, <1>2, Widths, Remainders DEF InType, Unpacked
<1>3. CASE type \in {"int256", "int24"}
  <2>1. Unpacked(type, word) = Signed(word)
    BY <1>3 DEF Unpacked
  <2>2. Signed(word) \in Int /\ -Modulus <= 2 * Signed(word) /\ 2 * Signed(word) < Modulus
    BY <1>1, Widths DEF Signed
  <2>3. Signed(word) % Modulus = word
    <3>1. CASE 2 * word < Modulus
      BY <1>1, <3>1, Widths, Remainders DEF Signed
    <3>2. CASE ~(2 * word < Modulus)
      <4>1. /\ Signed(word) = word - Modulus
            /\ -Modulus <= word - Modulus /\ word - Modulus < 0 /\ word - Modulus \in Int
        BY <1>1, <3>2, Widths DEF Signed
      <4>2. (word - Modulus) % Modulus = (word - Modulus) + Modulus
        BY <4>1, Widths, Remainders
      <4> QED
        BY <1>1, <4>1, <4>2, Widths
    <3> QED
      BY <3>1, <3>2
  <2> QED
    BY <1>3, <2>1, <2>2, <2>3 DEF InType, Packed
<1>4. CASE type \notin {"address", "int256", "int24"}
  BY <1>1, <1>4 DEF InType, Unpacked
<1> QED
  BY <1>2, <1>3, <1>4
-----------------------------------------------------------------------------
\* The declarations: names occur once, the values of the data go to the fields of their
\* names, and the ticks are the arguments of type int24.
Declared(name) ==
  /\ Len(Indexed(name)) \in Nat /\ DOMAIN Indexed(name) = 1..Len(Indexed(name))
  /\ Len(NonIndexed(name)) \in Nat /\ DOMAIN NonIndexed(name) = 1..Len(NonIndexed(name))
  /\ DOMAIN Fields[name] = DOMAIN NonIndexed(name)
  /\ \A i \in DOMAIN Fields[name] : Fields[name][i] = NonIndexed(name)[i].name
  /\ \A i, j \in DOMAIN Fields[name] : Fields[name][i] = Fields[name][j] => i = j
  /\ \A i, j \in DOMAIN Indexed(name) : Indexed(name)[i].name = Indexed(name)[j].name => i = j
  /\ \A i \in DOMAIN Indexed(name), j \in DOMAIN Fields[name] :
       Indexed(name)[i].name # Fields[name][j]
  /\ \A i \in DOMAIN Indexed(name) : Indexed(name)[i].name \in Ticks <=> Indexed(name)[i].type = "int24"
  /\ \A i \in DOMAIN NonIndexed(name) :
       NonIndexed(name)[i].name \in Ticks <=> NonIndexed(name)[i].type = "int24"

LEMMA DeclarationFacts ==
  ASSUME NEW name \in EventNames
  PROVE  Declared(name)
<1>1. CASE name = "Swap"
  <2> DEFINE indexed == Indexed(name)
             others == NonIndexed(name)
             fields == Fields[name]
  <2>1. /\ Len(indexed) = 2 /\ DOMAIN indexed = 1..2
        /\ indexed[1].name = "sender" /\ indexed[1].type = "address"
        /\ indexed[2].name = "recipient" /\ indexed[2].type = "address"
    BY <1>1 DEF Indexed, Inputs, Arg
  <2>2. /\ Len(others) = 5 /\ DOMAIN others = 1..5 /\ DOMAIN fields = 1..5
        /\ others[1].name = "amount0" /\ others[1].type = "int256" /\ fields[1] = "amount0"
        /\ others[2].name = "amount1" /\ others[2].type = "int256" /\ fields[2] = "amount1"
        /\ others[3].name = "sqrtPriceX96" /\ others[3].type = "uint160" /\ fields[3] = "sqrtPriceX96"
        /\ others[4].name = "liquidity" /\ others[4].type = "uint128" /\ fields[4] = "liquidity"
        /\ others[5].name = "tick" /\ others[5].type = "int24" /\ fields[5] = "tick"
    BY <1>1 DEF NonIndexed, Inputs, Arg, Fields
  <2> HIDE DEF indexed, others, fields
  <2>3. DOMAIN indexed = {1, 2} /\ DOMAIN fields = {1, 2, 3, 4, 5}
    BY <2>1, <2>2
  <2> QED
    BY <2>1, <2>2, <2>3 DEF Declared, indexed, others, fields, Ticks
<1>2. CASE name = "Mint"
  <2> DEFINE indexed == Indexed(name)
             others == NonIndexed(name)
             fields == Fields[name]
  <2>1. /\ Len(indexed) = 3 /\ DOMAIN indexed = 1..3
        /\ indexed[1].name = "owner" /\ indexed[1].type = "address"
        /\ indexed[2].name = "tickLower" /\ indexed[2].type = "int24"
        /\ indexed[3].name = "tickUpper" /\ indexed[3].type = "int24"
    BY <1>2 DEF Indexed, Inputs, Arg
  <2>2. /\ Len(others) = 4 /\ DOMAIN others = 1..4 /\ DOMAIN fields = 1..4
        /\ others[1].name = "sender" /\ others[1].type = "address" /\ fields[1] = "sender"
        /\ others[2].name = "amount" /\ others[2].type = "uint128" /\ fields[2] = "amount"
        /\ others[3].name = "amount0" /\ others[3].type = "uint256" /\ fields[3] = "amount0"
        /\ others[4].name = "amount1" /\ others[4].type = "uint256" /\ fields[4] = "amount1"
    BY <1>2 DEF NonIndexed, Inputs, Arg, Fields
  <2> HIDE DEF indexed, others, fields
  <2>3. DOMAIN indexed = {1, 2, 3} /\ DOMAIN fields = {1, 2, 3, 4}
    BY <2>1, <2>2
  <2> QED
    BY <2>1, <2>2, <2>3 DEF Declared, indexed, others, fields, Ticks
<1>3. CASE name = "Burn"
  <2> DEFINE indexed == Indexed(name)
             others == NonIndexed(name)
             fields == Fields[name]
  <2>1. /\ Len(indexed) = 3 /\ DOMAIN indexed = 1..3
        /\ indexed[1].name = "owner" /\ indexed[1].type = "address"
        /\ indexed[2].name = "tickLower" /\ indexed[2].type = "int24"
        /\ indexed[3].name = "tickUpper" /\ indexed[3].type = "int24"
    BY <1>3 DEF Indexed, Inputs, Arg
  <2>2. /\ Len(others) = 3 /\ DOMAIN others = 1..3 /\ DOMAIN fields = 1..3
        /\ others[1].name = "amount" /\ others[1].type = "uint128" /\ fields[1] = "amount"
        /\ others[2].name = "amount0" /\ others[2].type = "uint256" /\ fields[2] = "amount0"
        /\ others[3].name = "amount1" /\ others[3].type = "uint256" /\ fields[3] = "amount1"
    BY <1>3 DEF NonIndexed, Inputs, Arg, Fields
  <2> HIDE DEF indexed, others, fields
  <2>3. DOMAIN indexed = {1, 2, 3} /\ DOMAIN fields = {1, 2, 3}
    BY <2>1, <2>2
  <2> QED
    BY <2>1, <2>2, <2>3 DEF Declared, indexed, others, fields, Ticks
<1>4. CASE name = "Collect"
  <2> DEFINE indexed == Indexed(name)
             others == NonIndexed(name)
             fields == Fields[name]
  <2>1. /\ Len(indexed) = 3 /\ DOMAIN indexed = 1..3
        /\ indexed[1].name = "owner" /\ indexed[1].type = "address"
        /\ indexed[2].name = "tickLower" /\ indexed[2].type = "int24"
        /\ indexed[3].name = "tickUpper" /\ indexed[3].type = "int24"
    BY <1>4 DEF Indexed, Inputs, Arg
  <2>2. /\ Len(others) = 3 /\ DOMAIN others = 1..3 /\ DOMAIN fields = 1..3
        /\ others[1].name = "recipient" /\ others[1].type = "address" /\ fields[1] = "recipient"
        /\ others[2].name = "amount0" /\ others[2].type = "uint128" /\ fields[2] = "amount0"
        /\ others[3].name = "amount1" /\ others[3].type = "uint128" /\ fields[3] = "amount1"
    BY <1>4 DEF NonIndexed, Inputs, Arg, Fields
  <2> HIDE DEF indexed, others, fields
  <2>3. DOMAIN indexed = {1, 2, 3} /\ DOMAIN fields = {1, 2, 3}
    BY <2>1, <2>2
  <2> QED
    BY <2>1, <2>2, <2>3 DEF Declared, indexed, others, fields, Ticks
<1> QED
  BY <1>1, <1>2, <1>3, <1>4 DEF EventNames, Inputs
-----------------------------------------------------------------------------
\* Every argument is read from its own place.
Fit(name, topics, data) ==
  /\ topics \in Seq(Word) /\ data \in Seq(Word)
  /\ TopicCountFits(name, topics) /\ DataFits(name, data)

ReadFrom(name, topics, data, fields) ==
  /\ fields = [f \in DOMAIN fields |-> fields[f]]
  /\ DOMAIN fields = {arg.name : arg \in ArgsOf(name)}
  /\ \A i \in DOMAIN Indexed(name) :
       fields[Indexed(name)[i].name] = Unpacked(Indexed(name)[i].type, topics[i + 1])
  /\ \A i \in DOMAIN NonIndexed(name) :
       fields[NonIndexed(name)[i].name] = Unpacked(NonIndexed(name)[i].type, data[i])

LEMMA FieldsMeaning ==
  ASSUME NEW name \in EventNames, NEW topics, NEW data
  PROVE  ReadFrom(name, topics, data, FieldsOf(name, topics, data))
<1> DEFINE fields == FieldsOf(name, topics, data)
           places == Fields[name]
           indexed == Indexed(name)
           others == NonIndexed(name)
           names == {indexed[i].name : i \in DOMAIN indexed} \cup {places[i] : i \in DOMAIN places}
           arg(f) == CHOOSE i \in DOMAIN indexed : indexed[i].name = f
           pos(f) == CHOOSE i \in DOMAIN places : places[i] = f
<1>1. Declared(name)
  BY DeclarationFacts
<1>2. fields = [f \in names |-> IF \E i \in DOMAIN places : places[i] = f
                                THEN Unpacked(others[pos(f)].type, data[pos(f)])
                                ELSE Unpacked(indexed[arg(f)].type, topics[arg(f) + 1])]
  BY DEF FieldsOf
<1>3. /\ DOMAIN places = DOMAIN others /\ \A i \in DOMAIN places : places[i] = others[i].name
      /\ \A i, j \in DOMAIN places : places[i] = places[j] => i = j
      /\ \A i, j \in DOMAIN indexed : indexed[i].name = indexed[j].name => i = j
      /\ \A i \in DOMAIN indexed, j \in DOMAIN places : indexed[i].name # places[j]
  BY <1>1 DEF Declared
<1>4. names = {a.name : a \in ArgsOf(name)}
  BY <1>3 DEF ArgsOf, Range
<1> HIDE DEF fields, places, indexed, others, names
<1>5. ASSUME NEW i \in DOMAIN others
      PROVE  fields[others[i].name] = Unpacked(others[i].type, data[i])
  <2>1. others[i].name \in names /\ \E j \in DOMAIN places : places[j] = others[i].name
    BY <1>3 DEF names
  <2>2. pos(others[i].name) = i
    BY <1>3
  <2> QED
    BY <1>2, <2>1, <2>2
<1>6. ASSUME NEW i \in DOMAIN indexed
      PROVE  fields[indexed[i].name] = Unpacked(indexed[i].type, topics[i + 1])
  <2>1. indexed[i].name \in names /\ ~\E j \in DOMAIN places : places[j] = indexed[i].name
    BY <1>3 DEF names
  <2>2. arg(indexed[i].name) = i
    BY <1>3
  <2> QED
    BY <1>2, <2>1, <2>2
<1>7. DOMAIN fields = names /\ fields = [f \in DOMAIN fields |-> fields[f]]
  BY <1>2
<1> QED
  BY <1>4, <1>5, <1>6, <1>7 DEF fields, indexed, others, ReadFrom

\* The words an argument was read from, and the type of what was read.
LEMMA FieldsTyped ==
  ASSUME NEW name \in EventNames, NEW topics, NEW data, Fit(name, topics, data),
         NEW arg \in ArgsOf(name)
  PROVE  LET value == FieldsOf(name, topics, data)[arg.name]
         IN  /\ arg.type # "int24" => InType(arg.type, value)
             /\ arg.type = "int24" =>
                  value \in Int /\ Packed(value) \in Range(topics) \cup Range(data)
             /\ arg.name \in Ticks <=> arg.type = "int24"
<1> DEFINE value == FieldsOf(name, topics, data)[arg.name]
<1>0. ReadFrom(name, topics, data, FieldsOf(name, topics, data))
  BY FieldsMeaning
<1>1. Declared(name)
  BY DeclarationFacts
<1>2. /\ Len(topics) = Len(Indexed(name)) + 1 /\ Len(data) >= Len(NonIndexed(name))
      /\ DOMAIN topics = 1..Len(topics) /\ DOMAIN data = 1..Len(data)
      /\ Len(topics) \in Nat /\ Len(data) \in Nat
      /\ \A i \in DOMAIN topics : topics[i] \in Word
      /\ \A i \in DOMAIN data : data[i] \in Word
  BY DEF Fit, TopicCountFits, DataFits
<1>3. PICK word \in Word : /\ value = Unpacked(arg.type, word)
                           /\ word \in Range(topics) \cup Range(data)
                           /\ arg.name \in Ticks <=> arg.type = "int24"
  <2>1. CASE arg \in Range(Indexed(name))
    <3>1. PICK i \in DOMAIN Indexed(name) : arg = Indexed(name)[i]
      BY <2>1 DEF Range
    <3>2. i + 1 \in DOMAIN topics
      BY <1>1, <1>2 DEF Declared
    <3>3. value = Unpacked(arg.type, topics[i + 1])
      <4>1. FieldsOf(name, topics, data)[Indexed(name)[i].name] = Unpacked(Indexed(name)[i].type, topics[i + 1])
        BY <1>0, <3>1 DEF ReadFrom
      <4> QED
        BY <3>1, <4>1
    <3>4. arg.name \in Ticks <=> arg.type = "int24"
      BY <1>1, <3>1 DEF Declared
    <3> QED
      BY <1>2, <3>2, <3>3, <3>4 DEF Range
  <2>2. CASE arg \in Range(NonIndexed(name))
    <3>1. PICK i \in DOMAIN NonIndexed(name) : arg = NonIndexed(name)[i]
      BY <2>2 DEF Range
    <3>2. i \in DOMAIN data
      BY <1>1, <1>2 DEF Declared
    <3>3. value = Unpacked(arg.type, data[i])
      <4>1. FieldsOf(name, topics, data)[NonIndexed(name)[i].name] = Unpacked(NonIndexed(name)[i].type, data[i])
        BY <1>0, <3>1 DEF ReadFrom
      <4> QED
        BY <3>1, <4>1
    <3>4. arg.name \in Ticks <=> arg.type = "int24"
      BY <1>1, <3>1 DEF Declared
    <3> QED
      BY <1>2, <3>2, <3>3, <3>4 DEF Range
  <2> QED
    BY <2>1, <2>2 DEF ArgsOf
<1>4. /\ arg.type # "int24" => InType(arg.type, value)
      /\ arg.type = "int24" => value \in Int /\ Packed(value) = word
  BY <1>3, DecodingMeaning
<1> QED
  BY <1>3, <1>4
-----------------------------------------------------------------------------
\* The logs a decoder may get are sequences of words, an emitted one fits its event.
LEMMA ConcatMeaning ==
  ASSUME NEW S, NEW s \in Seq(S), NEW t \in Seq(S)
  PROVE  /\ s \o t \in Seq(S) /\ Len(s \o t) = Len(s) + Len(t)
         /\ Len(s) \in Nat /\ Len(t) \in Nat
         /\ \A i \in 1..Len(s) : (s \o t)[i] = s[i]
         /\ \A i \in 1..Len(t) : (s \o t)[Len(s) + i] = t[i]
  OBVIOUS

LEMMA WordsOfArguments ==
  ASSUME NEW args, NEW n \in Nat, DOMAIN args = 1..n, NEW values,
         \A i \in 1..n : Packed(values[args[i].name]) \in Word
  PROVE  LET words == [i \in DOMAIN args |-> Packed(values[args[i].name])]
         IN  words \in Seq(Word) /\ Len(words) = n
<1> DEFINE words == [i \in 1..n |-> Packed(values[args[i].name])]
<1>1. words \in [1..n -> Word]
  OBVIOUS
<1> HIDE DEF words
<1>2. words \in Seq(Word) /\ Len(words) = n
  BY <1>1, SeqDef
<1> QED
  BY <1>2 DEF words

EncodedRight(e, l) ==
  /\ Fit(e.name, l.topics, l.data) /\ l.topics[1] = e.topic0
  /\ \A i \in DOMAIN Indexed(e.name) :
       l.topics[i + 1] = Packed(e.args[Indexed(e.name)[i].name])
  /\ \A i \in DOMAIN NonIndexed(e.name) :
       l.data[i] = Packed(e.args[NonIndexed(e.name)[i].name])

LEMMA EncodedMeaning ==
  ASSUME NEW e \in EmittedLogs
  PROVE  EncodedRight(e, Encoded(e))
<1> DEFINE indexed == Indexed(e.name)
           others == NonIndexed(e.name)
           words(args) == [i \in DOMAIN args |-> Packed(e.args[args[i].name])]
<1>1. /\ e.name \in EventNames /\ e.topic0 \in Word /\ e.added \in Seq(Word)
      /\ \A arg \in ArgsOf(e.name) : InType(arg.type, e.args[arg.name])
  BY LogsAssumption
<1>2. Declared(e.name)
  BY <1>1, DeclarationFacts
<1>3. \A arg \in ArgsOf(e.name) : Packed(e.args[arg.name]) \in Word
  BY <1>1, EncodingMeaning
<1>4. /\ \A i \in DOMAIN indexed : Packed(e.args[indexed[i].name]) \in Word
      /\ \A i \in DOMAIN others : Packed(e.args[others[i].name]) \in Word
  BY <1>3 DEF ArgsOf, Range
<1>5. /\ DOMAIN indexed = 1..Len(indexed) /\ Len(indexed) \in Nat
      /\ DOMAIN others = 1..Len(others) /\ Len(others) \in Nat
  BY <1>2 DEF Declared
<1>6. PICK a, b : a = words(indexed) /\ b = words(others)
  OBVIOUS
<1>7. /\ a \in Seq(Word) /\ Len(a) = Len(indexed)
      /\ b \in Seq(Word) /\ Len(b) = Len(others)
  BY <1>4, <1>5, <1>6, WordsOfArguments
<1>8. /\ \A i \in DOMAIN indexed : a[i] = Packed(e.args[indexed[i].name])
      /\ \A i \in DOMAIN others : b[i] = Packed(e.args[others[i].name])
  BY <1>6
<1>9. PICK head, topics, data :
        head = <<e.topic0>> /\ topics = head \o a /\ data = b \o e.added
  OBVIOUS
<1>10. Encoded(e) = [topics |-> topics, data |-> data]
  BY <1>6, <1>9 DEF Encoded
<1>11. head \in Seq(Word) /\ Len(head) = 1 /\ head[1] = e.topic0
  BY <1>1, <1>9
<1>12. /\ topics \in Seq(Word) /\ Len(topics) = 1 + Len(indexed)
       /\ topics[1] = e.topic0 /\ \A i \in DOMAIN indexed : topics[i + 1] = a[i]
  <2>1. /\ topics \in Seq(Word) /\ Len(topics) = 1 + Len(indexed)
        /\ \A i \in 1..1 : topics[i] = head[i]
        /\ \A i \in 1..Len(indexed) : topics[1 + i] = a[i]
    BY <1>7, <1>9, <1>11, ConcatMeaning
  <2>2. topics[1] = e.topic0
    BY <1>11, <2>1
  <2> QED
    BY <1>5, <2>1, <2>2
<1>13. /\ data \in Seq(Word) /\ Len(data) >= Len(others)
       /\ \A i \in DOMAIN others : data[i] = b[i]
  <2>1. PICK added : added = e.added
    OBVIOUS
  <2>2. /\ data \in Seq(Word) /\ Len(data) = Len(b) + Len(added) /\ Len(added) \in Nat
        /\ \A i \in 1..Len(b) : data[i] = b[i]
    <3>1. added \in Seq(Word) /\ data = b \o added
      BY <1>1, <1>9, <2>1
    <3> QED
      BY <1>7, <3>1, ConcatMeaning
  <2>3. Len(b) = Len(others) /\ Len(others) \in Nat /\ DOMAIN others = 1..Len(others)
    BY <1>5, <1>7
  <2>4. Len(data) >= Len(others)
    BY <2>2, <2>3
  <2>5. \A i \in DOMAIN others : data[i] = b[i]
    BY <2>2, <2>3
  <2> QED
    BY <2>2, <2>4, <2>5
<1>14. Fit(e.name, topics, data)
  BY <1>5, <1>12, <1>13 DEF Fit, TopicCountFits, DataFits
<1> QED
  BY <1>8, <1>10, <1>12, <1>13, <1>14 DEF EncodedRight

LEMMA DamagedTyped ==
  ASSUME NEW topics \in Seq(Word), NEW data \in Seq(Word),
         NEW l \in Damaged([topics |-> topics, data |-> data])
  PROVE  l.topics \in Seq(Word) /\ l.data \in Seq(Word)
<1>1. 0 \in Word /\ StrayWords \subseteq Word
  BY Widths, LogsAssumption DEF Word
<1>2. ASSUME NEW s \in Seq(Word)
      PROVE  /\ Front(s) \in Seq(Word) /\ Append(s, 0) \in Seq(Word)
             /\ \A i \in DOMAIN s, word \in StrayWords : ReplaceAt(s, i, word) \in Seq(Word)
  <2>1. Front(s) \in Seq(Word)
    <3>1. \A i \in 1..Len(s) - 1 : s[i] \in Word
      BY LenProperties
    <3> QED
      BY <3>1, SubSeqProperties DEF Front
  <2>2. \A i \in DOMAIN s, word \in StrayWords : ReplaceAt(s, i, word) \in Seq(Word)
    BY <1>1, ExceptSeq DEF ReplaceAt
  <2> QED
    BY <1>1, <2>1, <2>2
<1>3. PICK record : record = [topics |-> topics, data |-> data]
  OBVIOUS
<1>4. /\ record.topics = topics /\ record.data = data
      /\ \A t : [record EXCEPT !.topics = t].topics = t /\ [record EXCEPT !.topics = t].data = data
      /\ \A d : [record EXCEPT !.data = d].topics = topics /\ [record EXCEPT !.data = d].data = d
  BY <1>3
<1>5. \/ l = [record EXCEPT !.topics = Front(record.topics)]
      \/ l = [record EXCEPT !.topics = Append(record.topics, 0)]
      \/ l = [record EXCEPT !.data = Front(record.data)]
      \/ \E i \in 2..Len(record.topics), word \in StrayWords :
           l = [record EXCEPT !.topics = ReplaceAt(record.topics, i, word)]
      \/ \E i \in DOMAIN record.data, word \in StrayWords :
           l = [record EXCEPT !.data = ReplaceAt(record.data, i, word)]
  <2>1. l \in Damaged(record)
    BY <1>3
  <2> QED
    BY <2>1 DEF Damaged
<1>6. CASE \E i \in 2..Len(record.topics), word \in StrayWords :
             l = [record EXCEPT !.topics = ReplaceAt(record.topics, i, word)]
  <2>1. PICK i \in 2..Len(topics), word \in StrayWords :
          l = [record EXCEPT !.topics = ReplaceAt(record.topics, i, word)]
    BY <1>4, <1>6
  <2>2. i \in DOMAIN topics
    BY <2>1, LenProperties
  <2>3. ReplaceAt(topics, i, word) \in Seq(Word)
    BY <1>2, <2>1, <2>2
  <2> QED
    BY <1>4, <2>1, <2>3
<1>7. CASE \E i \in DOMAIN record.data, word \in StrayWords :
             l = [record EXCEPT !.data = ReplaceAt(record.data, i, word)]
  <2>1. PICK i \in DOMAIN data, word \in StrayWords :
          l = [record EXCEPT !.data = ReplaceAt(record.data, i, word)]
    BY <1>4, <1>7
  <2>2. ReplaceAt(data, i, word) \in Seq(Word)
    BY <1>2, <2>1
  <2> QED
    BY <1>4, <2>1, <2>2
<1>8. CASE l = [record EXCEPT !.topics = Front(record.topics)]
  BY <1>2, <1>4, <1>8
<1>9. CASE l = [record EXCEPT !.topics = Append(record.topics, 0)]
  BY <1>2, <1>4, <1>9
<1>10. CASE l = [record EXCEPT !.data = Front(record.data)]
  BY <1>2, <1>4, <1>10
<1> QED
  BY <1>5, <1>6, <1>7, <1>8, <1>9, <1>10
-----------------------------------------------------------------------------
\* The table while it is built: entries looked at count, the last one of its topic if there
\* are several; the other topics are built-in ones.
Looked(t) == {e \in topic0Map \ entries : e.topic = t}
TableInv ==
  /\ topic0Map \in Topic0Maps /\ entries \subseteq topic0Map
  /\ DOMAIN topicToName \subseteq Word
  /\ \A name \in EventNames : TopicOf[name] \in DOMAIN topicToName
  /\ \A e \in topic0Map \ entries : e.topic # NoTopic => e.topic \in DOMAIN topicToName
  /\ \A t \in DOMAIN topicToName :
       /\ topicToName[t] \in EventNames
       /\ IF Looked(t) = {} THEN TopicOf[topicToName[t]] = t
          ELSE \E e \in Looked(t) : topicToName[t] = e.name
  /\ pc \in {"ready", "decoded"} => entries = {}

\* A decoded log consists of words, and what Decode returned depends on nothing else.
LogInv ==
  pc = "decoded" =>
    /\ log.of \in EmittedLogs /\ log.topics \in Seq(Word) /\ log.data \in Seq(Word)
    /\ event = DecodeLog(log)

PayloadInv == pc \in {"build", "ready", "failed", "decoded"} /\ TableInv /\ LogInv

LEMMA InitKeeps == Init => PayloadInv
<1> SUFFICES ASSUME Init PROVE PayloadInv
  OBVIOUS
<1>1. pc = "build" /\ topic0Map \in Topic0Maps /\ entries = topic0Map
  BY DEF Init
<1>2. topicToName = [t \in {TopicOf[name] : name \in EventNames} |->
                       CHOOSE name \in EventNames : TopicOf[name] = t]
  BY DEF Init
<1>3. ASSUME NEW t \in DOMAIN topicToName
      PROVE  topicToName[t] \in EventNames /\ TopicOf[topicToName[t]] = t /\ t \in Word
  <2>1. PICK name \in EventNames : TopicOf[name] = t
    BY <1>2
  <2>2. topicToName[t] = CHOOSE n \in EventNames : TopicOf[n] = t
    BY <1>2
  <2> QED
    BY <2>1, <2>2, TopicsAssumption
<1>4. \A name \in EventNames : TopicOf[name] \in DOMAIN topicToName
  BY <1>2
<1>5. \A t : Looked(t) = {}
  BY <1>1 DEF Looked
<1> QED
  BY <1>1, <1>3, <1>4, <1>5 DEF PayloadInv, TableInv, LogInv

LEMMA AddTopicKeeps ==
  ASSUME PayloadInv, AddTopic
  PROVE  PayloadInv'
<1> USE DEF PayloadInv, TableInv
<1>1. PICK e \in entries :
        /\ e.name \in EventNames
        /\ topicToName' = IF e.topic = NoTopic THEN topicToName ELSE Mapped(topicToName, e)
        /\ entries' = entries \ {e}
  BY DEF AddTopic
<1>2. pc = "build" /\ UNCHANGED <<pc, topic0Map, log, event>>
  BY DEF AddTopic
<1>3. e \in topic0Map /\ e.topic \in Word \cup {NoTopic} /\ NoTopic \notin Word
  BY <1>1, TopicsAssumption
<1>4. \A t : Looked(t)' = IF e.topic = t THEN Looked(t) \cup {e} ELSE Looked(t)
  BY <1>1, <1>2, <1>3 DEF Looked
<1>5. topic0Map' \ entries' = (topic0Map \ entries) \cup {e}
  BY <1>1, <1>2, <1>3
<1>6. CASE e.topic = NoTopic
  <2>1. topicToName' = topicToName
    BY <1>1, <1>6
  <2>2. \A t \in DOMAIN topicToName : Looked(t)' = Looked(t)
    BY <1>3, <1>4, <1>6
  <2> QED
    BY <1>1, <1>2, <1>5, <1>6, <2>1, <2>2 DEF LogInv
<1>7. CASE e.topic # NoTopic
  <2>1. /\ DOMAIN topicToName' = DOMAIN topicToName \cup {e.topic}
        /\ topicToName'[e.topic] = e.name
        /\ \A t \in DOMAIN topicToName : t # e.topic => topicToName'[t] = topicToName[t]
    BY <1>1, <1>7 DEF Mapped
  <2>2. ASSUME NEW t \in DOMAIN topicToName'
        PROVE  /\ topicToName'[t] \in EventNames
               /\ IF Looked(t)' = {} THEN TopicOf[topicToName'[t]] = t
                  ELSE \E x \in Looked(t)' : topicToName'[t] = x.name
    <3>1. CASE t = e.topic
      BY <1>1, <1>4, <2>1, <3>1
    <3>2. CASE t # e.topic
      BY <1>4, <2>1, <3>2
    <3> QED
      BY <3>1, <3>2
  <2>3. /\ DOMAIN topicToName' \subseteq Word
        /\ \A name \in EventNames : TopicOf[name] \in DOMAIN topicToName'
        /\ \A x \in topic0Map' \ entries' : x.topic # NoTopic => x.topic \in DOMAIN topicToName'
    BY <1>3, <1>5, <1>7, <2>1
  <2> QED
    BY <1>1, <1>2, <2>2, <2>3 DEF LogInv
<1> QED
  BY <1>6, <1>7

LEMMA DecodeKeeps ==
  ASSUME PayloadInv, Decode
  PROVE  PayloadInv'
<1> USE DEF PayloadInv
<1>1. pc = "ready" /\ pc' = "decoded" /\ UNCHANGED <<topicToName, topic0Map, entries>>
  BY DEF Decode
<1>2. PICK e \in EmittedLogs :
        \E l \in {Encoded(e)} \cup Damaged(Encoded(e)) :
          /\ log' = [kind |-> "log", of |-> e, topics |-> l.topics, data |-> l.data]
          /\ event' = DecodeLog(l)
  BY DEF Decode
<1>3. PICK l \in {Encoded(e)} \cup Damaged(Encoded(e)) :
        /\ log' = [kind |-> "log", of |-> e, topics |-> l.topics, data |-> l.data]
        /\ event' = DecodeLog(l)
  BY <1>2
<1>4. Encoded(e).topics \in Seq(Word) /\ Encoded(e).data \in Seq(Word)
  BY EncodedMeaning DEF EncodedRight, Fit
<1>5. l.topics \in Seq(Word) /\ l.data \in Seq(Word)
  <2>1. Encoded(e) = [topics |-> Encoded(e).topics, data |-> Encoded(e).data]
    BY DEF Encoded
  <2> QED
    BY <1>3, <1>4, <2>1, DamagedTyped
<1>6. log'.topics = l.topics /\ log'.data = l.data /\ log'.of = e
  BY <1>3
<1>7. DecodeLog(log)' = DecodeLog(l)
  BY <1>1, <1>6 DEF DecodeLog
<1>8. TableInv'
  BY <1>1 DEF TableInv, Looked
<1>9. LogInv'
  BY <1>3, <1>5, <1>6, <1>7 DEF LogInv
<1> QED
  BY <1>1, <1>8, <1>9

LEMMA PayloadInvariant == Spec => []PayloadInv
<1>1. PayloadInv /\ [Next]_vars => PayloadInv'
  <2> SUFFICES ASSUME PayloadInv, [Next]_vars PROVE PayloadInv'
    OBVIOUS
  <2>1. CASE AddTopic
    BY <2>1, AddTopicKeeps
  <2>2. CASE UnsupportedName
    BY <2>2 DEF UnsupportedName, PayloadInv, TableInv, LogInv, Looked
  <2>3. CASE DecoderBuilt
    BY <2>3 DEF DecoderBuilt, PayloadInv, TableInv, LogInv, Looked
  <2>4. CASE Decode
    BY <2>4, DecodeKeeps
  <2>5. CASE UNCHANGED vars
    BY <2>5 DEF vars, PayloadInv, TableInv, LogInv, Looked, DecodeLog
  <2> QED
    BY <2>1, <2>2, <2>3, <2>4, <2>5 DEF Next
<1> QED
  BY InitKeeps, <1>1, PTL DEF Spec
-----------------------------------------------------------------------------
\* An event Decode returns was read from words that fit its declaration.
LEMMA DecodedMeaning ==
  ASSUME PayloadInv, DecodedOk
  PROVE  /\ event.name \in EventNames /\ Fit(event.name, log.topics, log.data)
         /\ event.fields = FieldsOf(event.name, log.topics, log.data)
         /\ ReadFrom(event.name, log.topics, log.data, event.fields)
         /\ \A f \in Ticks \cap DOMAIN event.fields : FitsInt24(event.fields[f])
<1> DEFINE name == topicToName[log.topics[1]]
           fields == FieldsOf(name, log.topics, log.data)
<1>1. /\ log.topics \in Seq(Word) /\ log.data \in Seq(Word)
      /\ event = DecodeLog(log) /\ event.kind = "event"
  BY DEF DecodedOk, PayloadInv, LogInv
<1>2. Error.kind # "event"
  BY DEF Error
<1>3. /\ log.topics[1] \in DOMAIN topicToName
      /\ event = DecodePayload(name, log.topics, log.data)
  BY <1>1, <1>2 DEF DecodeLog
<1>4. name \in EventNames
  BY <1>3 DEF PayloadInv, TableInv
<1>5. /\ TopicCountFits(name, log.topics) /\ DataFits(name, log.data)
      /\ \A f \in Ticks \cap DOMAIN fields : FitsInt24(fields[f])
      /\ event = [kind |-> "event", name |-> name, fields |-> fields]
  BY <1>1, <1>2, <1>3 DEF DecodePayload
<1>6. ReadFrom(name, log.topics, log.data, fields)
  BY <1>4, FieldsMeaning
<1> HIDE DEF name, fields
<1>7. event.name = name /\ event.fields = fields
  BY <1>5
<1> QED
  BY <1>1, <1>4, <1>5, <1>6, <1>7 DEF Fit, fields

(***************************************************************************)
(* Topics map to the four event names, and a decoded event has the fields  *)
(* of its declaration: addresses, amounts and ticks in the range of their  *)
(* types, the unsigned ones any word (abi.ReadInteger does not look).      *)
(***************************************************************************)
THEOREM PayloadTyped == Spec => []TypeOK
<1>1. ASSUME PayloadInv PROVE Range(topicToName) \subseteq EventNames
  BY <1>1 DEF PayloadInv, TableInv, Range
<1>2. ASSUME PayloadInv, DecodedOk
      PROVE  /\ DOMAIN event.fields = {arg.name : arg \in ArgsOf(event.name)}
             /\ \A arg \in ArgsOf(event.name) : InType(arg.type, event.fields[arg.name])
  <2>1. /\ event.name \in EventNames /\ Fit(event.name, log.topics, log.data)
        /\ event.fields = FieldsOf(event.name, log.topics, log.data)
        /\ ReadFrom(event.name, log.topics, log.data, event.fields)
        /\ \A f \in Ticks \cap DOMAIN event.fields : FitsInt24(event.fields[f])
    BY <1>2, DecodedMeaning
  <2>2. DOMAIN event.fields = {arg.name : arg \in ArgsOf(event.name)}
    BY <2>1 DEF ReadFrom
  <2>3. ASSUME NEW arg \in ArgsOf(event.name)
        PROVE  InType(arg.type, event.fields[arg.name])
    <3>1. CASE arg.type # "int24"
      BY <2>1, <3>1, FieldsTyped
    <3>2. CASE arg.type = "int24"
      <4>1. event.fields[arg.name] \in Int /\ arg.name \in Ticks
        BY <2>1, <3>2, FieldsTyped
      <4>2. FitsInt24(event.fields[arg.name])
        BY <2>1, <2>2, <4>1
      <4> QED
        BY <3>2, <4>1, <4>2, Widths DEF InType, FitsInt24
    <3> QED
      BY <3>1, <3>2
  <2> QED
    BY <2>2, <2>3
<1>3. PayloadInv => TypeOK
  BY <1>1, <1>2 DEF PayloadInv, TableInv, TypeOK
<1> QED
  BY <1>3, PayloadInvariant, PTL

(***************************************************************************)
(* The operator's entries win over the built-in topics and leave the other *)
(* topics alone, in whatever order NewV3PoolDecoder reads the map.         *)
(***************************************************************************)
THEOREM PayloadEntriesWin == Spec => []EntriesWin
<1>1. ASSUME PayloadInv, pc \in {"ready", "decoded"}, NEW t \in DOMAIN topicToName
      PROVE  IF NamesFor(t) # {} THEN topicToName[t] \in NamesFor(t)
             ELSE TopicOf[topicToName[t]] = t
  <2>1. entries = {}
    BY <1>1 DEF PayloadInv, TableInv
  <2>2. NamesFor(t) = {e.name : e \in Looked(t)}
    BY <2>1 DEF NamesFor, Looked
  <2>3. IF Looked(t) = {} THEN TopicOf[topicToName[t]] = t
        ELSE \E e \in Looked(t) : topicToName[t] = e.name
    BY <1>1 DEF PayloadInv, TableInv
  <2> QED
    BY <2>2, <2>3
<1>2. PayloadInv => EntriesWin
  BY <1>1 DEF EntriesWin
<1> QED
  BY <1>2, PayloadInvariant, PTL

(***************************************************************************)
(* A log that lacks or adds a topic, or ends before its last value, is     *)
(* refused by parseIndexedTopics or unpackNonIndexed, and int24FromBig     *)
(* lets no tick pass that was cut down: its word is its encoding.          *)
(***************************************************************************)
THEOREM PayloadDecodedFits == Spec => []DecodedFits
<1>1. ASSUME PayloadInv, DecodedOk
      PROVE  /\ Len(log.topics) = Len(Indexed(event.name)) + 1
             /\ Len(log.data) >= Len(NonIndexed(event.name))
             /\ \A f \in Ticks \cap DOMAIN event.fields :
                  /\ event.fields[f] \in -TickBound..TickBound - 1
                  /\ Packed(event.fields[f]) \in Range(log.topics) \cup Range(log.data)
  <2>1. /\ event.name \in EventNames /\ Fit(event.name, log.topics, log.data)
        /\ event.fields = FieldsOf(event.name, log.topics, log.data)
        /\ ReadFrom(event.name, log.topics, log.data, event.fields)
        /\ \A f \in Ticks \cap DOMAIN event.fields : FitsInt24(event.fields[f])
    BY <1>1, DecodedMeaning
  <2>2. DOMAIN event.fields = {arg.name : arg \in ArgsOf(event.name)}
    BY <2>1 DEF ReadFrom
  <2>3. ASSUME NEW f \in Ticks \cap DOMAIN event.fields
        PROVE  /\ event.fields[f] \in -TickBound..TickBound - 1
               /\ Packed(event.fields[f]) \in Range(log.topics) \cup Range(log.data)
    <3>1. PICK arg \in ArgsOf(event.name) : arg.name = f
      BY <2>2
    <3>2. /\ event.fields[f] \in Int
          /\ Packed(event.fields[f]) \in Range(log.topics) \cup Range(log.data)
      BY <2>1, <3>1, FieldsTyped
    <3> QED
      BY <2>1, <3>2, Widths DEF FitsInt24
  <2> QED
    BY <2>1, <2>3 DEF Fit, TopicCountFits, DataFits
<1>2. PayloadInv => DecodedFits
  BY <1>1 DEF DecodedFits
<1> QED
  BY <1>2, PayloadInvariant, PTL

(***************************************************************************)
(* What a contract emits is what the record says, field by field, for      *)
(* words of any width: the four decode functions read every argument from  *)
(* its place and the sign of amounts and ticks survives.                   *)
(***************************************************************************)
THEOREM PayloadRoundTrip == Spec => []RoundTrip
<1>1. ASSUME PayloadInv, Intact, NamedRight(log.of)
      PROVE  event = [kind |-> "event", name |-> log.of.name, fields |-> log.of.args]
  <2> DEFINE e == log.of
             name == log.of.name
             fields == FieldsOf(name, log.topics, log.data)
  <2>1. /\ e \in EmittedLogs /\ log.topics = Encoded(e).topics /\ log.data = Encoded(e).data
        /\ event = DecodeLog(log) /\ entries = {} /\ pc = "decoded"
    BY <1>1 DEF Intact, PayloadInv, LogInv, TableInv
  <2>2. /\ name \in EventNames /\ e.topic0 \in Word
        /\ e.args \in [{arg.name : arg \in ArgsOf(name)} -> Int]
        /\ \A arg \in ArgsOf(name) : InType(arg.type, e.args[arg.name])
    BY <2>1, LogsAssumption
  <2>3. EncodedRight(e, Encoded(e))
    BY <2>1, EncodedMeaning
  <2>4. Fit(name, log.topics, log.data) /\ log.topics[1] = e.topic0
    BY <2>1, <2>3 DEF EncodedRight
  <2>5. e.topic0 \in DOMAIN topicToName /\ topicToName[e.topic0] = name
    <3>1. NamesFor(e.topic0) = {x.name : x \in Looked(e.topic0)}
      BY <2>1 DEF NamesFor, Looked
    <3>2. CASE NamesFor(e.topic0) = {name}
      <4>1. PICK x \in Looked(e.topic0) : x.name = name
        BY <3>1, <3>2
      <4>2. e.topic0 \in DOMAIN topicToName
        BY <1>1, <2>2, <4>1, TopicsAssumption DEF Looked, PayloadInv, TableInv
      <4>3. topicToName[e.topic0] \in NamesFor(e.topic0)
        BY <1>1, <3>1, <4>1, <4>2 DEF PayloadInv, TableInv
      <4> QED
        BY <3>2, <4>2, <4>3
    <3>3. CASE NamesFor(e.topic0) = {} /\ e.topic0 = TopicOf[name]
      <4>1. Looked(e.topic0) = {}
        BY <3>1, <3>3
      <4>2. e.topic0 \in DOMAIN topicToName
        BY <1>1, <2>2, <3>3 DEF PayloadInv, TableInv
      <4>3. topicToName[e.topic0] \in EventNames /\ TopicOf[topicToName[e.topic0]] = TopicOf[name]
        BY <1>1, <3>3, <4>1, <4>2 DEF PayloadInv, TableInv
      <4> QED
        BY <2>2, <4>2, <4>3, TopicsAssumption DEF IsInjective
    <3> QED
      BY <1>1, <3>2, <3>3 DEF NamedRight
  <2>6. ReadFrom(name, log.topics, log.data, fields)
    BY <2>2, FieldsMeaning
  <2>7. ASSUME NEW arg \in ArgsOf(name) PROVE fields[arg.name] = e.args[arg.name]
    <3>1. Unpacked(arg.type, Packed(e.args[arg.name])) = e.args[arg.name]
      BY <2>2, EncodingMeaning
    <3>2. CASE arg \in Range(Indexed(name))
      <4>1. PICK i \in DOMAIN Indexed(name) : arg = Indexed(name)[i]
        BY <3>2 DEF Range
      <4>2. log.topics[i + 1] = Packed(e.args[arg.name])
        BY <2>1, <2>3, <4>1 DEF EncodedRight
      <4>3. fields[arg.name] = Unpacked(arg.type, log.topics[i + 1])
        BY <2>6, <4>1 DEF ReadFrom
      <4> QED
        BY <3>1, <4>2, <4>3
    <3>3. CASE arg \in Range(NonIndexed(name))
      <4>1. PICK i \in DOMAIN NonIndexed(name) : arg = NonIndexed(name)[i]
        BY <3>3 DEF Range
      <4>2. log.data[i] = Packed(e.args[arg.name])
        BY <2>1, <2>3, <4>1 DEF EncodedRight
      <4>3. fields[arg.name] = Unpacked(arg.type, log.data[i])
        BY <2>6, <4>1 DEF ReadFrom
      <4> QED
        BY <3>1, <4>2, <4>3
    <3> QED
      BY <3>2, <3>3 DEF ArgsOf
  <2>8. fields = e.args
    <3>1. DOMAIN fields = DOMAIN e.args
      BY <2>2, <2>6 DEF ReadFrom
    <3>2. \A f \in DOMAIN fields : fields[f] = e.args[f]
      BY <2>2, <2>7, <3>1
    <3>3. fields = [f \in DOMAIN fields |-> fields[f]]
      BY <2>6 DEF ReadFrom
    <3>4. e.args = [f \in DOMAIN e.args |-> e.args[f]]
      BY <2>2
    <3> HIDE DEF fields, e
    <3> QED
      BY <3>1, <3>2, <3>3, <3>4
  <2>9. \A f \in Ticks \cap DOMAIN fields : FitsInt24(fields[f])
    <3>1. ASSUME NEW f \in Ticks \cap DOMAIN fields PROVE FitsInt24(fields[f])
      <4>1. PICK arg \in ArgsOf(name) : arg.name = f
        BY <2>2, <2>8
      <4>2. arg.type = "int24"
        BY <2>2, <2>4, <4>1, FieldsTyped
      <4>3. InType("int24", fields[f])
        BY <2>2, <2>8, <4>1, <4>2
      <4> QED
        BY <4>3, Widths DEF InType, FitsInt24
    <3> QED
      BY <3>1
  <2>10. DecodePayload(name, log.topics, log.data)
           = [kind |-> "event", name |-> name, fields |-> fields]
    BY <2>4, <2>9 DEF DecodePayload, Fit
  <2>11. log.topics # << >>
    BY <2>4, <2>2, DeclarationFacts DEF Fit, TopicCountFits, Declared
  <2> QED
    BY <2>1, <2>4, <2>5, <2>8, <2>10, <2>11 DEF DecodeLog
<1>2. PayloadInv => RoundTrip
  BY <1>1 DEF RoundTrip
<1> QED
  BY <1>2, PayloadInvariant, PTL
=============================================================================
