--------------------------- MODULE AtomicRegister -----------------------------
(***************************************************************************)
(* What the runner and the aggregator rely on when they keep their         *)
(* progress in a file: a register that one process saves to and loads      *)
(* from.  A Save takes effect at one instant or not at all; it took effect *)
(* if it returns nil, it did not if it returns an error, and only a crash  *)
(* leaves the caller in doubt.  Load returns the value in the register.    *)
(***************************************************************************)
CONSTANTS Values, Absent

VARIABLES
  value,        \* the register: one of Values, or Absent before the first Save
  arg,          \* the argument of the last Save
  pc,           \* "idle", "saving" before the instant of effect, "saved" after it
  result,       \* how the last Save ended: "none" while it runs, "ok", "error", "crash"
  loaded        \* what the last Load returned; "error" when the file was unreadable

vars == <<value, arg, pc, result, loaded>>

Init ==
  /\ value = Absent /\ arg = Absent
  /\ pc = "idle" /\ result = "none" /\ loaded = Absent

Call(v) ==
  /\ pc = "idle" /\ pc' = "saving"
  /\ arg' = v /\ result' = "none"
  /\ UNCHANGED <<value, loaded>>

TakeEffect ==
  /\ pc = "saving" /\ pc' = "saved"
  /\ value' = arg
  /\ UNCHANGED <<arg, result, loaded>>

End(from, how) ==
  /\ pc = from /\ pc' = "idle"
  /\ result' = how
  /\ UNCHANGED <<value, arg, loaded>>

Load ==
  /\ pc = "idle"
  /\ loaded' \in {value, "error"}
  /\ UNCHANGED <<value, arg, pc, result>>

Next ==
  \/ \E v \in Values : Call(v)
  \/ TakeEffect
  \/ End("saved", "ok") \/ End("saving", "error")
  \/ End("saving", "crash") \/ End("saved", "crash")
  \/ Load

Spec == Init /\ [][Next]_vars
=============================================================================
