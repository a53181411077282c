------------------------------- MODULE Payload --------------------------------
(***************************************************************************)
(* V3PoolDecoder: the table of topics NewV3PoolDecoder builds, and Decode  *)
(* of one log with decodeSwap, decodeMint, decodeBurn and decodeCollect.   *)
(* Metadata calls that fail are in module Decode.                          *)
(*                                                                         *)
(* A topic and a word of data are numbers below Modulus (2^256 in the      *)
(* code), go-ethereum's abi package is external: it reads addresses from   *)
(* the low bits of a word, signed integers as two's complement of the      *)
(* whole word, ignores words past the last one it needs, and checks the    *)
(* range of no integer wider than 64 bits, nor of int24.                   *)
(***************************************************************************)
EXTENDS Integers, Sequences, SequencesExt

CONSTANTS
  Modulus,              \* 2^256
  AddressBound,         \* 2^160
  TickBound,            \* 2^23
  TopicOf,              \* topic0 of the four events
  Topic0Maps,           \* values of topic0-map: sets of entries with topic, spelling and name
  NoTopic,              \* an empty key
  EmittedLogs,          \* logs the contracts emit: event, arguments, topic0, words added by a fork
  StrayWords            \* words a damaged log may have in the place of an argument

ASSUME WidthAssumption ==
  /\ Modulus \in Nat /\ AddressBound \in 1..Modulus
  /\ TickBound \in Nat \ {0} /\ 2 * TickBound <= Modulus

Word == 0..Modulus - 1
Signed(word) == IF 2 * word < Modulus THEN word ELSE word - Modulus

\* The values of a type.  uint128 and uint160 may be any word: the abi package does not
\* look at their high bits, and neither does the decoder.
InType(type, value) ==
  CASE type = "address" -> value \in 0..AddressBound - 1
    [] type = "int24" -> value \in -TickBound..TickBound - 1
    [] type = "int256" -> value \in Int /\ -Modulus <= 2 * value /\ 2 * value < Modulus
    [] OTHER -> value \in Word

Arg(name, type) == [name |-> name, type |-> type]

\* The event declarations of abi.go, parted into the arguments that are indexed and the
\* others.
Inputs ==
  [Swap |-> [indexed |-> <<Arg("sender", "address"), Arg("recipient", "address")>>,
             others |-> <<Arg("amount0", "int256"), Arg("amount1", "int256"),
                          Arg("sqrtPriceX96", "uint160"), Arg("liquidity", "uint128"),
                          Arg("tick", "int24")>>],
   Mint |-> [indexed |-> <<Arg("owner", "address"), Arg("tickLower", "int24"),
                           Arg("tickUpper", "int24")>>,
             others |-> <<Arg("sender", "address"), Arg("amount", "uint128"),
                          Arg("amount0", "uint256"), Arg("amount1", "uint256")>>],
   Burn |-> [indexed |-> <<Arg("owner", "address"), Arg("tickLower", "int24"),
                           Arg("tickUpper", "int24")>>,
             others |-> <<Arg("amount", "uint128"),
                          Arg("amount0", "uint256"), Arg("amount1", "uint256")>>],
   Collect |-> [indexed |-> <<Arg("owner", "address"), Arg("tickLower", "int24"),
                              Arg("tickUpper", "int24")>>,
                others |-> <<Arg("recipient", "address"),
                             Arg("amount0", "uint128"), Arg("amount1", "uint128")>>]]

EventNames == DOMAIN Inputs
Indexed(name) == Inputs[name].indexed
NonIndexed(name) == Inputs[name].others
ArgsOf(name) == Range(Indexed(name)) \cup Range(NonIndexed(name))

ASSUME TopicsAssumption ==
  /\ TopicOf \in [EventNames -> Word] /\ IsInjective(TopicOf)
  /\ NoTopic \notin Word
  /\ \A map \in Topic0Maps : \A e \in map : e.topic \in Word \cup {NoTopic}

\* Contracts emit values of the declared types; a fork may add words of its own.
ASSUME LogsAssumption ==
  /\ StrayWords \subseteq Word
  /\ \A e \in EmittedLogs :
       /\ e.name \in EventNames /\ e.topic0 \in Word /\ e.added \in Seq(Word)
       /\ e.args \in [{arg.name : arg \in ArgsOf(e.name)} -> Int]
       /\ \A arg \in ArgsOf(e.name) : InType(arg.type, e.args[arg.name])

\* Where decodeSwap, ... put the values of the data, one after the other.
RecipientLast ==            \* mutant of Fields: values[0] of Collect is taken for the last one
  [Swap |-> <<"amount0", "amount1", "sqrtPriceX96", "liquidity", "tick">>,
   Mint |-> <<"sender", "amount", "amount0", "amount1">>,
   Burn |-> <<"amount", "amount0", "amount1">>,
   Collect |-> <<"amount0", "amount1", "recipient">>]
Fields ==
  [Swap |-> <<"amount0", "amount1", "sqrtPriceX96", "liquidity", "tick">>,
   Mint |-> <<"sender", "amount", "amount0", "amount1">>,
   Burn |-> <<"amount", "amount0", "amount1">>,
   Collect |-> <<"recipient", "amount0", "amount1">>]
-----------------------------------------------------------------------------
VARIABLES
  pc,                   \* "build", "ready", or "failed" and "decoded" at the end
  topicToName,          \* function from topics to event names
  topic0Map,            \* cfg.Topic0Map
  entries,              \* its entries not looked at yet
  log,                  \* the log in hand, with what it was emitted as
  event                 \* what Decode returns for it: an event or an error

vars == <<pc, topicToName, topic0Map, entries, log, event>>

Nothing == [kind |-> "nothing"]
Error == [kind |-> "error"]

Init ==
  /\ pc = "build"
  /\ topicToName = [t \in {TopicOf[name] : name \in EventNames} |->
                      CHOOSE name \in EventNames : TopicOf[name] = t]
  /\ topic0Map \in Topic0Maps /\ entries = topic0Map
  /\ log = Nothing /\ event = Nothing

Mapped(topics, e) ==
  [t \in DOMAIN topics \cup {e.topic} |-> IF t = e.topic THEN e.name ELSE topics[t]]

KeepsBuiltin ==             \* mutant of AddTopic: topics that are there are not renamed
  /\ pc = "build"
  /\ \E e \in entries :
       /\ e.name \in EventNames
       /\ topicToName' = IF e.topic \in DOMAIN topicToName THEN topicToName
                         ELSE Mapped(topicToName, e)
       /\ entries' = entries \ {e}
  /\ UNCHANGED <<pc, topic0Map, log, event>>

\* The map is read in any order; spellings of a topic are folded.
AddTopic ==
  /\ pc = "build"
  /\ \E e \in entries :
       /\ e.name \in EventNames
       /\ topicToName' = IF e.topic = NoTopic THEN topicToName ELSE Mapped(topicToName, e)
       /\ entries' = entries \ {e}
  /\ UNCHANGED <<pc, topic0Map, log, event>>

UnsupportedName ==
  /\ pc = "build"
  /\ \E e \in entries : e.name \notin EventNames
  /\ pc' = "failed"
  /\ UNCHANGED <<topicToName, topic0Map, entries, log, event>>

DecoderBuilt ==
  /\ pc = "build" /\ entries = {}
  /\ pc' = "ready"
  /\ UNCHANGED <<topicToName, topic0Map, entries, log, event>>
-----------------------------------------------------------------------------
\* What the abi package makes of a word, and how it came to be.
Unpacked(type, word) ==
  CASE type = "address" -> word % AddressBound
    [] type \in {"int256", "int24"} -> Signed(word)
    [] OTHER -> word

Packed(value) == value % Modulus

TakesLowBits(value) == TRUE \* mutant of FitsInt24: int32(value.Int64()) without the check
FitsInt24(value) == -TickBound <= value /\ value < TickBound

\* The fields of an event: indexed arguments by their name, values by position.
FieldsOf(name, topics, data) ==
  LET indexed == Indexed(name)
      fields == Fields[name]
      arg(field) == CHOOSE i \in DOMAIN indexed : indexed[i].name = field
      pos(field) == CHOOSE i \in DOMAIN fields : fields[i] = field
  IN  [field \in {indexed[i].name : i \in DOMAIN indexed} \cup {fields[i] : i \in DOMAIN fields} |->
         IF \E i \in DOMAIN fields : fields[i] = field
         THEN Unpacked(NonIndexed(name)[pos(field)].type, data[pos(field)])
         ELSE Unpacked(indexed[arg(field)].type, topics[arg(field) + 1])]

Ticks == {"tick", "tickLower", "tickUpper"}

TopicCountFits(name, topics) == Len(topics) = Len(Indexed(name)) + 1
DataFits(name, data) == Len(data) >= Len(NonIndexed(name))

\* decodeSwap, decodeMint, decodeBurn and decodeCollect.
DecodePayload(name, topics, data) ==
  IF ~TopicCountFits(name, topics) \/ ~DataFits(name, data) THEN Error
  ELSE LET fields == FieldsOf(name, topics, data)
       IN  IF \A f \in Ticks \cap DOMAIN fields : FitsInt24(fields[f])
           THEN [kind |-> "event", name |-> name, fields |-> fields] ELSE Error

\* Decode, once the pool's metadata is there.
DecodeLog(l) ==
  IF l.topics = << >> \/ l.topics[1] \notin DOMAIN topicToName THEN Error
  ELSE DecodePayload(topicToName[l.topics[1]], l.topics, l.data)

\* An emitted log, and what may be wrong with one.
Encoded(e) ==
  LET words(args) == [i \in DOMAIN args |-> Packed(e.args[args[i].name])]
  IN  [topics |-> <<e.topic0>> \o words(Indexed(e.name)),
       data |-> words(NonIndexed(e.name)) \o e.added]

Damaged(l) ==
  {[l EXCEPT !.topics = Front(@)], [l EXCEPT !.topics = Append(@, 0)],
   [l EXCEPT !.data = Front(@)]}
  \cup {[l EXCEPT !.topics = ReplaceAt(@, i, word)] :
          i \in 2..Len(l.topics), word \in StrayWords}
  \cup {[l EXCEPT !.data = ReplaceAt(@, i, word)] : i \in DOMAIN l.data, word \in StrayWords}

Decode ==
  /\ pc = "ready" /\ pc' = "decoded"
  /\ \E e \in EmittedLogs :
       \E l \in {Encoded(e)} \cup Damaged(Encoded(e)) :
         /\ log' = [kind |-> "log", of |-> e, topics |-> l.topics, data |-> l.data]
         /\ event' = DecodeLog(l)
  /\ UNCHANGED <<topicToName, topic0Map, entries>>

Next == AddTopic \/ UnsupportedName \/ DecoderBuilt \/ Decode

Spec == Init /\ [][Next]_vars
-----------------------------------------------------------------------------
DecodedOk == pc = "decoded" /\ event.kind = "event"
Intact == pc = "decoded" /\ log.topics = Encoded(log.of).topics /\ log.data = Encoded(log.of).data

(***************************************************************************)
(* Topics map to the four names only, whatever the operator writes, and an *)
(* event has the fields of its declaration: addresses, amounts and ticks   *)
(* in the range of their types, the unsigned ones any word.                *)
(***************************************************************************)
TypeOK ==
  /\ pc \in {"build", "ready", "failed", "decoded"}
  /\ Range(topicToName) \subseteq EventNames
  /\ entries \subseteq topic0Map
  /\ DecodedOk =>
       /\ DOMAIN event.fields = {arg.name : arg \in ArgsOf(event.name)}
       /\ \A arg \in ArgsOf(event.name) : InType(arg.type, event.fields[arg.name])

\* The topic is the one of the event, unless entries give it another or a new meaning.
NamesFor(topic) == {e.name : e \in {x \in topic0Map : x.topic = topic}}
NamedRight(e) ==
  NamesFor(e.topic0) = {e.name} \/ (NamesFor(e.topic0) = {} /\ e.topic0 = TopicOf[e.name])

(***************************************************************************)
(* What a contract emits is what the record says, field by field, for all  *)
(* four events, negative amounts and ticks included; also for a fork whose *)
(* event has a topic0 of its own, given in --topic0-map, and more words.   *)
(***************************************************************************)
RoundTrip ==
  Intact /\ NamedRight(log.of) =>
    event = [kind |-> "event", name |-> log.of.name, fields |-> log.of.args]

(***************************************************************************)
(* A log with a topic too many or too few, or whose data end before the    *)
(* last value, is refused: no field is filled up or read at another place. *)
(* A tick is never a word cut down to 24 bits, it is in range and the word *)
(* was its encoding.  (Of the unsigned values and the high bits of an      *)
(* address nothing is said: the code takes any word.)                      *)
(***************************************************************************)
DecodedFits ==
  DecodedOk =>
    /\ Len(log.topics) = Len(Indexed(event.name)) + 1
    /\ Len(log.data) >= Len(NonIndexed(event.name))
    /\ \A f \in Ticks \cap DOMAIN event.fields :
         /\ event.fields[f] \in -TickBound..TickBound - 1
         /\ Packed(event.fields[f]) \in Range(log.topics) \cup Range(log.data)

(***************************************************************************)
(* The operator's entries win over the built-in topics, and a topic none   *)
(* of them names keeps its event, in whatever order the map is read.       *)
(***************************************************************************)
EntriesWin ==
  pc \in {"ready", "decoded"} =>
    \A t \in DOMAIN topicToName :
      IF NamesFor(t) # {} THEN topicToName[t] \in NamesFor(t) ELSE TopicOf[topicToName[t]] = t
=============================================================================
