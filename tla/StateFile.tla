------------------------------ MODULE StateFile -------------------------------
(***************************************************************************)
(* The file a step keeps its progress in: CheckpointStore of               *)
(* internal/indexer/checkpoint.go and FileStateStore of                    *)
(* internal/aggregate/state.go, which save with the same protocol.  Save   *)
(* writes the whole value to path.tmp and renames it over path.  The       *)
(* process may be killed between any two steps; what it wrote stays in the *)
(* page cache (a power failure, which the missing fsync leaves open, is    *)
(* not modelled).  One process uses the file at a time.  (StoreInit and so *)
(* on are named like that so that one module can extend several.)          *)
(***************************************************************************)
CONSTANTS
  Values,       \* what is saved: block numbers or timestamps
  Absent,       \* content of a file that does not exist
  Partial       \* content of a file that is empty or ends early: not JSON
ASSUME ContentAssumption == Absent \notin Values /\ Partial \notin Values \cup {Absent}

VARIABLES path, tmp,    \* contents of the two files
          arg, pc,      \* the Save in progress
          result,       \* "none" while a Save runs, then "ok", "error" or "crash"
          loaded        \* what the last Load returned, "error" for its error returns

storeVars == <<path, tmp, arg, pc, result, loaded>>
files == <<path, tmp>>

StoreInit ==
  /\ path = Absent /\ tmp = Absent
  /\ arg = Absent /\ pc = "idle" /\ result = "none" /\ loaded = Absent

Save(v) ==
  /\ pc = "idle"
  /\ pc' = "create" /\ arg' = v /\ result' = "none"
  /\ UNCHANGED <<files, loaded>>

TruncatesPath ==        \* mutant of CreateTmp: Save rewrites path in place
  /\ pc = "create" /\ pc' = "write"
  /\ path' = Partial
  /\ UNCHANGED <<tmp, arg, result, loaded>>

\* os.WriteFile opens the file with O_CREATE and O_TRUNC ...
CreateTmp ==
  /\ pc = "create" /\ pc' = "write"
  /\ tmp' = Partial
  /\ UNCHANGED <<path, arg, result, loaded>>

\* ... and writes the value.
WriteTmp ==
  /\ pc = "write" /\ pc' = "rename"
  /\ tmp' = arg
  /\ UNCHANGED <<path, arg, result, loaded>>

Rename ==
  /\ pc = "rename" /\ pc' = "return"
  /\ path' = tmp /\ tmp' = Absent
  /\ UNCHANGED <<arg, result, loaded>>

Return ==
  /\ pc = "return" /\ pc' = "idle"
  /\ result' = "ok"
  /\ UNCHANGED <<files, arg, loaded>>

\* MkdirAll or the open, the write (a full disk) or the rename fails: Save
\* returns the error and leaves path.tmp as it is.
StepFails ==
  /\ pc \in {"create", "write", "rename"} /\ pc' = "idle"
  /\ result' = "error"
  /\ UNCHANGED <<files, arg, loaded>>

Crash ==
  /\ pc # "idle" /\ pc' = "idle"
  /\ result' = "crash"
  /\ UNCHANGED <<files, arg, loaded>>

\* json.Unmarshal of the bytes of path; a missing file is no error.
Parsed == IF path = Partial THEN "error" ELSE path

Load ==
  /\ pc = "idle"
  /\ loaded' \in {Parsed, "error"}      \* stat or read may fail
  /\ UNCHANGED <<files, arg, pc, result>>

StoreNext ==
  \/ \E v \in Values : Save(v)
  \/ CreateTmp \/ WriteTmp \/ Rename \/ Return
  \/ StepFails \/ Crash
  \/ Load

StoreSpec == StoreInit /\ [][StoreNext]_storeVars
-----------------------------------------------------------------------------
StoreTypeOK ==
  /\ path \in Values \cup {Absent, Partial} /\ tmp \in Values \cup {Absent, Partial}
  /\ arg \in Values \cup {Absent}
  /\ pc \in {"idle", "create", "write", "rename", "return"}
  /\ result \in {"none", "ok", "error", "crash"}
  /\ loaded \in Values \cup {Absent, "error"}

(***************************************************************************)
(* Save and Load implement an atomic register over path: whatever was      *)
(* interrupted, the next Load finds the value before or after the last     *)
(* Save, whole, and never fails with "parse checkpoint" or "parse state".   *)
(***************************************************************************)
Register == INSTANCE AtomicRegister WITH
  value <- path,
  pc <- CASE pc = "idle" -> "idle"
          [] pc = "return" -> "saved"
          [] OTHER -> "saving"

IsAtomicRegister == Register!Spec
=============================================================================
