------------------------------- MODULE Settings -------------------------------
(***************************************************************************)
(* What Load, LoadDecode and LoadAggregate make of flags, environment and  *)
(* configuration file, and what the three commands then do to the files    *)
(* and to the table: the layers share one set of keys, so "out" of one     *)
(* command is "out" of another.  Viper is external: a typed flag comes     *)
(* before the environment, the file, and the default; a number it cannot   *)
(* read in the environment or in the file is 0.  (Keys are fields of       *)
(* records here, with _ for the - of the code's keys.)                     *)
(*                                                                         *)
(* A command is one step: what it does when it is interrupted is in        *)
(* modules Indexer, Decode and Aggregator.  Block b has the time stamp b,  *)
(* and one log, a swap; the files hold sets of lines.                      *)
(***************************************************************************)
EXTENDS Integers, FiniteSetsExt

CONSTANTS
  MaxBlock,             \* bound on the chain
  Modulus,              \* 2^64
  FlagChoices,          \* for each command, the flags an operator may type
  EnvChoices,           \* environments, and
  FileChoices           \* configuration files
Unreadable == -100      \* a number or duration that is none
None == -1000           \* no saved state, no recomputation

ASSUME SettingsAssumption ==
  /\ MaxBlock \in Nat /\ Modulus \in Nat \ {0} /\ 4 * MaxBlock <= Modulus
  /\ \A layer \in FlagChoices.run \cup FlagChoices.aggregate \cup EnvChoices \cup FileChoices :
       /\ \A key \in {"from", "to"} \cap DOMAIN layer : layer[key] \in Nat \cup {Unreadable}
       /\ \A key \in {"window", "recompute_from"} \cap DOMAIN layer : layer[key] \in Int

Required ==
  [run |-> {"rpc", "address"}, decode |-> {"rpc", "in", "out", "errors"},
   aggregate |-> {"rpc", "in", "pg_dsn"}]
Commands == DOMAIN Required

\* Durations are in milliseconds.
Defaults ==
  [run |-> [out |-> "logs", checkpoint |-> "checkpoint", from |-> 0, to |-> 0],
   decode |-> [out |-> "typed", errors |-> "errors"],
   aggregate |-> [window |-> 300000]]
-----------------------------------------------------------------------------
VARIABLES
  env, file,            \* functions from keys to values
  head,                 \* blocks on the chain
  disk,                 \* function from paths to sets of lines: kind and block
  checkpoint,           \* function from paths to blocks
  rows,                 \* the table: pairs of a window size and an event's block
  state,                \* function from names to time stamps
  \* history
  fetched,              \* blocks whose logs run has written
  used,                 \* pairs of a state's name and a window size
  recompute             \* the last run of aggregate: time asked for, its input, what it summed up

vars == <<env, file, head, disk, checkpoint, rows, state, fetched, used, recompute>>

Init ==
  /\ env \in EnvChoices /\ file \in FileChoices
  /\ head = 0
  /\ disk = << >> /\ checkpoint = << >>
  /\ rows = {} /\ state = << >>
  /\ fetched = {} /\ used = {}
  /\ recompute = [from |-> None, input |-> {}, events |-> {}]

\* v.Get: flags that were typed, then the environment, the file, the default; the
\* first layer that has a key wins.
Layers(command, flags, e, f) == <<flags, e, f, Defaults[command]>>
HasKey(layers, key) == \E i \in 1..4 : key \in DOMAIN layers[i]
Value(layers, key) ==
  LET first == CHOOSE i \in 1..4 :
        /\ key \in DOMAIN layers[i]
        /\ \A j \in 1..i - 1 : key \notin DOMAIN layers[j]
  IN  layers[first][key]

Given(command, flags, key) == HasKey(Layers(command, flags, env, file), key)

EnvFirst(command, flags, key) ==    \* mutant of Setting: the environment comes before the flags
  IF key \in DOMAIN env THEN env[key] ELSE Value(Layers(command, flags, env, file), key)

Setting(command, flags, key) == Value(Layers(command, flags, env, file), key)

Number(value) == IF value = Unreadable THEN 0 ELSE value

\* The checks at the start of runIndexer, runDecode and runAggregate.
Complete(command, flags) ==
  \A key \in Required[command] : Given(command, flags, key)

Put(f, x, v) == [y \in DOMAIN f \cup {x} |-> IF y = x THEN v ELSE f[y]]
Content(path) == IF path \in DOMAIN disk THEN disk[path] ELSE {}
Lines(kind, blocks) == [kind : {kind}, block : blocks]
Of(kind, lines) == {line.block : line \in {x \in lines : x.kind = kind}}
-----------------------------------------------------------------------------
ChainGrows ==
  /\ head < MaxBlock /\ head' = head + 1
  /\ UNCHANGED <<env, file, disk, checkpoint, rows, state, fetched, used, recompute>>

\* runIndexer: appends the blocks above the checkpoint.  The node has no blocks
\* above its head; a range with nothing in it changes nothing.
Run(flags) ==
  LET setting(key) == Setting("run", flags, key)
      saved == setting("checkpoint")
      from == Number(setting("from"))
      start == IF saved \in DOMAIN checkpoint /\ checkpoint[saved] >= from
               THEN checkpoint[saved] + 1 ELSE from
      to == IF Number(setting("to")) = 0 THEN head ELSE Number(setting("to"))
      blocks == {b \in start..to : b > 0}
  IN  /\ Complete("run", flags)
      /\ start <= to /\ to <= head
      /\ disk' = IF blocks = {} THEN disk
                  ELSE Put(disk, setting("out"), Content(setting("out")) \cup Lines("log", blocks))
      /\ checkpoint' = Put(checkpoint, saved, to)
      /\ fetched' = fetched \cup blocks
      /\ UNCHANGED <<env, file, head, rows, state, used, recompute>>

\* runDecode: the input is opened, then both outputs are truncated; a line without
\* topics is a failure.  (Both outputs on one path are not modelled.)
DecodeInput(flags) ==
  LET setting(key) == Setting("decode", flags, key)
      input == IF setting("in") \in {setting("out"), setting("errors")}
               THEN {} ELSE disk[setting("in")]
      events == Lines("event", Of("log", input))
      failures == {[line EXCEPT !.kind = "error"] : line \in {x \in input : x.kind # "log"}}
  IN  /\ Complete("decode", flags)
      /\ setting("in") \in DOMAIN disk
      /\ disk' = Put(Put(disk, setting("out"), events), setting("errors"), failures)
      /\ UNCHANGED <<env, file, head, checkpoint, rows, state, fetched, used, recompute>>
-----------------------------------------------------------------------------
\* windowSeconds: whole seconds, cut off.
WindowSeconds(window) == window \div 1000

\* ParseTimestamp: seconds of a time before 1970 wrap around.
Timestamp(time) == time % Modulus

OneName(flags, seconds) ==          \* mutant of StateName: the window is not in the name
  IF Given("aggregate", flags, "state_file")
  THEN <<"file", Setting("aggregate", flags, "state_file")>> ELSE <<"db", 0>>

\* The state store: a file, or a row of the state table.
StateName(flags, seconds) ==
  IF Given("aggregate", flags, "state_file")
  THEN <<"file", Setting("aggregate", flags, "state_file")>> ELSE <<"db", seconds>>

SkipsTheTime(from, name) ==         \* mutant of StartTs: the - 1 is missing
  CASE from > 0 -> from
    [] from = 0 /\ name \in DOMAIN state -> state[name]
    [] OTHER -> 0

StartTs(from, name) ==
  CASE from > 0 -> from - 1
    [] from = 0 /\ name \in DOMAIN state -> state[name]
    [] OTHER -> 0

\* The column of the state table is a signed BIGINT.
Fits(name, ts) == name[1] = "file" \/ 2 * ts < Modulus

Accepted(flags, window) ==
  Complete("aggregate", flags) /\ window # Unreadable /\ WindowSeconds(window) > 0

\* What is assumed of the operator, as in module Aggregator: a recomputation starts
\* no later than where the saved progress ends.
RecomputesThePast(asked, name) ==
  asked # None => name \in DOMAIN state /\ asked <= state[name] + 1

\* runAggregate: a raw log parses as an event of no name: it moves maxTs, and is no
\* part of a row.  Failed lines have no time stamp.
Aggregate(flags) ==
  LET setting(key) == Setting("aggregate", flags, key)
      seconds == WindowSeconds(setting("window"))
      asked == IF Given("aggregate", flags, "recompute_from") THEN setting("recompute_from") ELSE None
      name == StateName(flags, seconds)
      start == StartTs(IF asked = None THEN 0 ELSE Timestamp(asked), name)
      input == disk[setting("in")]
      events == {b \in Of("event", input) : b > start}
      times == events \cup {b \in Of("log", input) : b > start}
      maxTs == Max(times \cup {start})
  IN  /\ Accepted(flags, setting("window")) /\ RecomputesThePast(asked, name)
      /\ setting("in") \in DOMAIN disk
      /\ rows' = rows \cup {<<seconds, b>> : b \in events}
      /\ state' = IF Fits(name, maxTs) THEN Put(state, name, maxTs) ELSE state
      /\ used' = used \cup {<<name, seconds>>}
      /\ recompute' = [from |-> asked, input |-> Of("event", input), events |-> events]
      /\ UNCHANGED <<env, file, head, disk, checkpoint, fetched>>

Next ==
  \/ ChainGrows
  \/ \E flags \in FlagChoices.run : Run(flags)
  \/ \E flags \in FlagChoices.decode : DecodeInput(flags)
  \/ \E flags \in FlagChoices.aggregate : Aggregate(flags)

Spec == Init /\ [][Next]_vars
-----------------------------------------------------------------------------
(***************************************************************************)
(* What the properties rest on, whatever environment and file there are;   *)
(* the code checks none of it.  decode does not write where run does;      *)
(***************************************************************************)
LogsAreKept ==
  \A e \in EnvChoices, f \in FileChoices, r \in FlagChoices.run, d \in FlagChoices.decode :
    \A key \in {"out", "errors"} :
      Value(Layers("run", r, e, f), "out") # Value(Layers("decode", d, e, f), key)

\* every run has the same output and checkpoint, and aggregate does not read that output;
OneLog ==
  \A e \in EnvChoices, f \in FileChoices, r \in FlagChoices.run :
    LET layers == Layers("run", r, e, f)
    IN  /\ \A s \in FlagChoices.run, key \in {"out", "checkpoint"} :
             Value(Layers("run", s, e, f), key) = Value(layers, key)
        /\ \A a \in FlagChoices.aggregate :
             HasKey(Layers("aggregate", a, e, f), "in") =>
               Value(Layers("aggregate", a, e, f), "in") # Value(layers, "out")

\* a state file is used with one size of windows;
OneSizePerFile ==
  \A e \in EnvChoices, f \in FileChoices, a, b \in FlagChoices.aggregate :
    LET A == Layers("aggregate", a, e, f)
        B == Layers("aggregate", b, e, f)
    IN  /\ HasKey(A, "state_file") /\ HasKey(B, "state_file")
        /\ Value(A, "state_file") = Value(B, "state_file")
        => WindowSeconds(Value(A, "window")) = WindowSeconds(Value(B, "window"))

\* and a time to recompute from is positive.
TimesFit ==
  \A e \in EnvChoices, f \in FileChoices, a \in FlagChoices.aggregate :
    LET layers == Layers("aggregate", a, e, f)
    IN  HasKey(layers, "recompute_from") => Value(layers, "recompute_from") \in 1..Modulus - 1
-----------------------------------------------------------------------------
(***************************************************************************)
(* Files hold lines of blocks that are on the chain, windows are whole     *)
(* positive seconds, and time stamps fit 64 bits.                          *)
(***************************************************************************)
TypeOK ==
  /\ head \in 0..MaxBlock /\ fetched \subseteq 1..head
  /\ \A path \in DOMAIN disk : disk[path] \subseteq [kind : {"log", "event", "error"}, block : 1..head]
  /\ \A path \in DOMAIN checkpoint : checkpoint[path] \in 0..head
  /\ \A row \in rows : row[1] \in Nat \ {0} /\ row[2] \in fetched
  /\ \A name \in DOMAIN state : state[name] \in 0..Modulus - 1

(***************************************************************************)
(* The logs that run has fetched are in a file, to be decoded again: a     *)
(* command never takes its input for its output.                           *)
(***************************************************************************)
FetchedLogsSurvive ==
  fetched \subseteq UNION {Of("log", disk[path]) : path \in DOMAIN disk}

(***************************************************************************)
(* An event that a state has passed is in the rows of every window size    *)
(* the state was used with: neither another size nor another input file    *)
(* has moved it.                                                           *)
(***************************************************************************)
ProgressHasRows ==
  \A u \in used : \A path \in DOMAIN disk :
    u[1] \in DOMAIN state =>
      \A b \in Of("event", disk[path]) : b <= state[u[1]] => <<u[2], b>> \in rows

(***************************************************************************)
(* "--recompute-from accepts unix seconds or RFC3339": every event of the  *)
(* input from that time on is summed up again.                             *)
(***************************************************************************)
RecomputeCovers ==
  recompute.from # None =>
    {b \in recompute.input : b >= recompute.from} \subseteq recompute.events
=============================================================================
