----------------------------- MODULE WindowTable ------------------------------
(***************************************************************************)
(* What the aggregate command promises: a table in which every row is      *)
(* exact as soon as it is there, and stays, and a progress time stamp that *)
(* never claims an event whose row is missing.  Rows may be written again, *)
(* and progress may be moved back for a recomputation, at any time.        *)
(***************************************************************************)
EXTENDS WindowFeed

VARIABLES
  rows,                 \* function from keys to rows
  progress              \* events up to this time stamp are not looked at again

Init == rows = << >> /\ progress = -1

Publish ==
  /\ DOMAIN rows \subseteq DOMAIN rows' /\ DOMAIN rows' \subseteq Keys
  /\ \A k \in DOMAIN rows' : IsExact(rows'[k], k)
  /\ UNCHANGED progress

Record ==
  /\ progress' \in {-1} \cup Nat
  /\ \A i \in Events :
       Feed[i].ts <= progress' /\ KeyOf(i) \in Keys => KeyOf(i) \in DOMAIN rows
  /\ UNCHANGED rows

Next == Publish \/ Record

Spec == Init /\ [][Next]_<<rows, progress>>
=============================================================================
