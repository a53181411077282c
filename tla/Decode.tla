-------------------------------- MODULE Decode --------------------------------
(***************************************************************************)
(* The decode command: runDecode of cmd/indexer/decode.go, the part of     *)
(* V3PoolDecoder that has state or can fail, and the two metadata caches.  *)
(* Every line of the input ends up as an event in one file, as a failure   *)
(* in another, or nowhere.  Processes run one after the other, may be      *)
(* killed, cancelled or fail at any step, and start from the beginning.    *)
(*                                                                         *)
(* Left out: blank lines, which the loop passes over, the fragment of a    *)
(* line a killed process may leave at the end of a file, which no reader   *)
(* takes for a line, and the contents of events apart from the metadata.   *)
(***************************************************************************)
EXTENDS Integers, Sequences, Functions

CONSTANTS
  Input,                \* the lines: what kind, of which pool and block
  TokensOf,             \* the two tokens of each pool
  IncludeLiveMeta,
  MaxRuns               \* bound on the number of processes

\* "unreadable": no record, no topics or no pool address.  "foreign": a topic0 that
\* is not decoded.  "payload": topics or data that do not fit the event.
Kinds == {"event", "unreadable", "foreign", "payload"}
Pools == DOMAIN TokensOf
Tokens == UNION Range(TokensOf)

ASSUME InputAssumption ==
  /\ Input \in Seq([kind : Kinds, pool : Pools, block : Nat])
  /\ IncludeLiveMeta \in BOOLEAN /\ MaxRuns \in Nat

Lines == DOMAIN Input
None == -1              \* a live field that is not there

VARIABLES
  typed, errors,        \* the two jsonlWriters, each with its file
  pc, cancelled,
  pos,                  \* lines dealt with
  poolMeta, tokenMeta,  \* the caches
  runs, result          \* processes so far, how the last one ended

caches == <<poolMeta, tokenMeta>>
vars == <<typed, errors, pc, cancelled, pos, caches, runs, result>>

\* A jsonlWriter: lines in the file, in the buffer, and bufio's sticky error.
Opened == [file |-> << >>, buf |-> << >>, broken |-> FALSE]

\* Of the lines in the buffer the first n reach the file.
Stored(w, n, broken) ==
  [file |-> w.file \o SubSeq(w.buf, 1, n),
   buf |-> IF broken THEN << >> ELSE SubSeq(w.buf, n + 1, Len(w.buf)),
   broken |-> broken]

\* What Write may do: a full buffer is flushed, wherever that cuts, and may fail.
Writes(w, line) ==
  LET filled == [w EXCEPT !.buf = Append(w.buf, line)]
  IN  IF w.broken THEN {w}
      ELSE {Stored(filled, n, broken) : n \in 0..Len(filled.buf), broken \in BOOLEAN}

NoFlush(w) == {[w EXCEPT !.buf = << >>]}        \* mutant of Flushes: only the file is closed

\* What Flush may do: nothing after an error, else everything or an error.
Flushes(w) ==
  IF w.broken THEN {w}
  ELSE {Stored(w, Len(w.buf), FALSE)}
         \cup {Stored(w, n, TRUE) : n \in 0..Len(w.buf) - 1}

\* PoolMeta: the pool whose token addresses and fee it has, and the blocks its
\* live fields are of (0 stands for the latest block, as in the call).
Meta == [pool : Pools, liquidity : Nat \cup {None}, slot0 : Nat \cup {None}]
Immutable(p) == [pool |-> p, liquidity |-> None, slot0 |-> None]

\* getPoolMeta after the lookup: live fields that could be read replace those of m.
WithLive(m, block) ==
  IF ~IncludeLiveMeta \/ cancelled THEN {m}
  ELSE [pool : {m.pool}, liquidity : {m.liquidity, block}, slot0 : {m.slot0, block}]

\* FetchTokenMeta: "known" has decimals and perhaps a symbol and a name.
TokenOutcomes == {"known", "failed"}

Init ==
  /\ typed = Opened /\ errors = Opened
  /\ pc = "down" /\ cancelled = FALSE /\ pos = 0
  /\ poolMeta = << >> /\ tokenMeta = << >>
  /\ runs = 0 /\ result = "none"
-----------------------------------------------------------------------------
StartProcess ==
  /\ pc = "down" /\ runs < MaxRuns
  /\ runs' = runs + 1 /\ pc' = "start"
  /\ cancelled' = FALSE /\ pos' = 0 /\ result' = "none"
  /\ poolMeta' = << >> /\ tokenMeta' = << >>
  /\ UNCHANGED <<typed, errors>>

Cancel ==
  /\ pc # "down" /\ ~cancelled /\ cancelled' = TRUE
  /\ UNCHANGED <<typed, errors, pc, pos, caches, runs, result>>

\* NewClient, NewV3PoolDecoder, and the input.
OpenInput ==
  /\ pc = "start" /\ pc' = "open typed"
  /\ UNCHANGED <<typed, errors, cancelled, pos, caches, runs, result>>

\* The outputs are truncated, one after the other.
OpenTyped ==
  /\ pc = "open typed" /\ pc' = "open errors"
  /\ typed' = Opened
  /\ UNCHANGED <<errors, cancelled, pos, caches, runs, result>>

OpenErrors ==
  /\ pc = "open errors" /\ pc' = "scan"
  /\ errors' = Opened
  /\ UNCHANGED <<typed, cancelled, pos, caches, runs, result>>
-----------------------------------------------------------------------------
This == Input[pos + 1]
Due(kinds) == pos < Len(Input) /\ This.kind \in kinds

NextLine == pos' = pos + 1 /\ pc' = "scan" /\ UNCHANGED <<cancelled, runs, result>>

\* writeDecodeError drops what Write returns.
Reject(cause) ==
  /\ errors' \in Writes(errors, [line |-> pos + 1, cause |-> cause])
  /\ NextLine /\ UNCHANGED <<typed, caches>>

RejectLine ==
  /\ pc = "scan" /\ Due({"unreadable"})
  /\ Reject("unreadable")

SkipLine ==
  /\ pc = "scan" /\ Due({"foreign"})
  /\ NextLine /\ UNCHANGED <<typed, errors, caches>>

\* Decode asks for the metadata of the pool before it looks at the payload.
MetaDue == pc = "scan" /\ Due({"event", "payload"})

CachedPool ==
  /\ MetaDue /\ This.pool \in DOMAIN poolMeta
  /\ pc' = "event"
  /\ UNCHANGED <<typed, errors, cancelled, pos, caches, runs, result>>

\* Tokens not looked up before are looked up once, and cached even if that fails.
FetchPool ==
  /\ MetaDue /\ This.pool \notin DOMAIN poolMeta /\ ~cancelled
  /\ poolMeta' = [p \in DOMAIN poolMeta \cup {This.pool} |->
                    IF p = This.pool THEN Immutable(p) ELSE poolMeta[p]]
  /\ LET looked == DOMAIN tokenMeta
     IN  \E found \in [TokensOf[This.pool] \ looked -> TokenOutcomes] :
           tokenMeta' = [t \in looked \cup DOMAIN found |->
                           IF t \in looked THEN tokenMeta[t] ELSE found[t]]
  /\ pc' = "event"
  /\ UNCHANGED <<typed, errors, cancelled, pos, runs, result>>

IgnoresCache ==             \* mutant of FetchPoolFails: metadata is fetched for every line
  MetaDue /\ Reject("meta")

RetriesForever ==           \* mutant of FetchPoolFails: the line waits for a call to succeed
  /\ MetaDue /\ This.pool \notin DOMAIN poolMeta
  /\ UNCHANGED vars

\* The cache is left as it was: the next line of the pool tries again.
FetchPoolFails ==
  /\ MetaDue /\ This.pool \notin DOMAIN poolMeta
  /\ Reject("meta")

CachesLiveFields ==         \* mutant of WriteEvent: the cached metadata is updated in place
  /\ pc = "event" /\ Due({"event"})
  /\ \E m \in WithLive(poolMeta[This.pool], This.block) :
       /\ typed' \in Writes(typed, [line |-> pos + 1, meta |-> m])
       /\ poolMeta' = [poolMeta EXCEPT ![This.pool] = m]
  /\ IF typed'.broken
     THEN /\ pc' = "close errors" /\ result' = "error"
          /\ UNCHANGED <<cancelled, pos, runs>>
     ELSE NextLine
  /\ UNCHANGED <<errors, tokenMeta>>

WriteEvent ==
  /\ pc = "event" /\ Due({"event"})
  /\ \E m \in WithLive(poolMeta[This.pool], This.block) :
       typed' \in Writes(typed, [line |-> pos + 1, meta |-> m])
  /\ IF typed'.broken
     THEN /\ pc' = "close errors" /\ result' = "error"
          /\ UNCHANGED <<cancelled, pos, runs>>
     ELSE NextLine
  /\ UNCHANGED <<errors, caches>>

FallsThrough ==             \* mutant of RejectPayload: "continue" is missing
  /\ pc = "event" /\ Due({"payload"})
  /\ errors' \in Writes(errors, [line |-> pos + 1, cause |-> "payload"])
  /\ typed' \in Writes(typed, [line |-> pos + 1, meta |-> poolMeta[This.pool]])
  /\ NextLine /\ UNCHANGED caches

RejectPayload ==
  /\ pc = "event" /\ Due({"payload"})
  /\ Reject("payload")

\* The end of the input: nil is returned, then the deferred calls run.
Complete ==
  /\ pc = "scan" /\ pos = Len(Input)
  /\ pc' = "close errors" /\ result' = "ok"
  /\ UNCHANGED <<typed, errors, cancelled, pos, caches, runs>>

\* The deferred Close, whose error is dropped.
CloseErrors ==
  /\ pc = "close errors" /\ pc' = "close typed"
  /\ errors' \in Flushes(errors)
  /\ UNCHANGED <<typed, cancelled, pos, caches, runs, result>>

CloseTyped ==
  /\ pc = "close typed" /\ pc' = "down"
  /\ typed' \in Flushes(typed)
  /\ UNCHANGED <<errors, cancelled, pos, caches, runs, result>>

\* The node, a file that cannot be opened, an input line that cannot be read.
StepFails ==
  /\ \/ pc \in {"start", "open typed"} /\ pc' = "down"
     \/ pc = "open errors" /\ pc' = "close typed"
     \/ pc = "scan" /\ pc' = "close errors"
  /\ result' = "error"
  /\ UNCHANGED <<typed, errors, cancelled, pos, caches, runs>>

\* The process is killed; what is in the buffers is gone.
Crash ==
  /\ pc # "down" /\ pc' = "down" /\ result' = "crash"
  /\ typed' = [typed EXCEPT !.buf = << >>] /\ errors' = [errors EXCEPT !.buf = << >>]
  /\ UNCHANGED <<cancelled, pos, caches, runs>>
-----------------------------------------------------------------------------
RunStep ==
  \/ OpenInput \/ OpenTyped \/ OpenErrors
  \/ RejectLine \/ SkipLine \/ CachedPool \/ FetchPool \/ FetchPoolFails
  \/ WriteEvent \/ RejectPayload
  \/ Complete \/ CloseErrors \/ CloseTyped

Next == StartProcess \/ Cancel \/ RunStep \/ StepFails \/ Crash

Spec == Init /\ [][Next]_vars

\* The process is scheduled, and every call returns, with or without an error.
FairSpec == Spec /\ WF_vars(RunStep)
-----------------------------------------------------------------------------
Event == [line : Lines, meta : Meta]
Failure == [line : Lines, cause : Kinds \cup {"meta"}]
WriterOf(L) == [file : Seq(L), buf : Seq(L), broken : BOOLEAN]

\* A broken writer keeps nothing it could still store.
TypeOK ==
  /\ typed \in WriterOf(Event) /\ errors \in WriterOf(Failure)
  /\ pc \in {"down", "start", "open typed", "open errors", "scan", "event",
             "close errors", "close typed"}
  /\ cancelled \in BOOLEAN /\ pos \in 0..Len(Input)
  /\ DOMAIN poolMeta \subseteq Pools /\ \A p \in DOMAIN poolMeta : poolMeta[p] = Immutable(p)
  /\ DOMAIN tokenMeta \subseteq Tokens /\ Range(tokenMeta) \subseteq TokenOutcomes
  /\ runs \in 0..MaxRuns /\ result \in {"none", "ok", "error", "crash"}

LinesOf(file) == {file[k].line : k \in DOMAIN file}
InputOf(entry) == Input[entry.line]

(***************************************************************************)
(* Both files follow the input: no line is reported twice or out of order, *)
(* and none is both an event and a failure, in whatever state a crash, a   *)
(* full disk or the truncation of the next run leaves the two files.  They *)
(* are those of the last run: what earlier ones reported is truncated.     *)
(***************************************************************************)
EachLineOnce ==
  /\ \A f \in {typed.file, errors.file} :
       \A j, k \in DOMAIN f : j < k => f[j].line < f[k].line
  /\ LinesOf(typed.file) \cap LinesOf(errors.file) = {}

(***************************************************************************)
(* A run that reports success, cancelled or not, has every line of the     *)
(* input but the foreign ones in one of the files, unless a flush failed;  *)
(* only lines that can be decoded are events.                              *)
(***************************************************************************)
SuccessAccountsForEveryLine ==
  pc = "down" /\ result = "ok" /\ ~typed.broken /\ ~errors.broken =>
    /\ LinesOf(typed.file) \cup LinesOf(errors.file)
         = {i \in Lines : Input[i].kind # "foreign"}
    /\ \A k \in DOMAIN typed.file : InputOf(typed.file[k]).kind = "event"

(***************************************************************************)
(* Between two events of a pool no event of that pool is missing, whatever *)
(* calls failed, whenever the run was cancelled, killed or out of disk     *)
(* space: metadata that was there once is there for the rest of the run.   *)
(***************************************************************************)
PoolHistoryHasNoHole ==
  \A j, k \in DOMAIN typed.file :
    \A i \in typed.file[j].line..typed.file[k].line :
      /\ Input[i].kind = "event"
      /\ Input[i].pool = InputOf(typed.file[j]).pool
      /\ Input[i].pool = InputOf(typed.file[k]).pool
      => i \in LinesOf(typed.file)

(***************************************************************************)
(* The metadata of an event is that of its pool, and what is live in it is *)
(* of the block of the event, never left over from an earlier event of the *)
(* pool whose metadata is in the cache.                                    *)
(***************************************************************************)
MetaIsOfItsEvent ==
  \A k \in DOMAIN typed.file :
    LET e == typed.file[k]
    IN  /\ e.meta.pool = InputOf(e).pool
        /\ {e.meta.liquidity, e.meta.slot0} \subseteq {None, InputOf(e).block}

(***************************************************************************)
(* "Decode failures are appended to `decode_errors.jsonl`" (README.md:57): *)
(* what is in the error file stays there.  newJSONLWriter truncates it     *)
(* when the next run starts (decode.go:84).                                *)
(***************************************************************************)
FailuresAreAppended ==
  [][\A k \in DOMAIN errors.file :
       k \in DOMAIN errors.file' /\ errors.file'[k] = errors.file[k]]_vars

(***************************************************************************)
(* A run ends, a cancelled one too, as long as every call returns.         *)
(***************************************************************************)
RunsEnd == (pc # "down") ~> (pc = "down")
=============================================================================
