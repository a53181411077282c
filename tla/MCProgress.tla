------------------------------ MODULE MCProgress ------------------------------
(***************************************************************************)
(* The two helpers of run that share no state (runner.go:105 and 143): the *)
(* range is cut first, and the file is used afterwards.  Checked are every *)
(* call of SplitRange over a four-bit block number, 4096 triples of        *)
(* arguments with the wrap-around at 15, and every history of a state file *)
(* with three values: an old one, the one being saved and the next.        *)
(***************************************************************************)
EXTENDS SplitRange, StateFile

CONSTANTS b1, b2, b3

FourBits == 15
Blocks == {b1, b2, b3}

Init == SplitInit /\ StoreInit

Cut == SplitNext /\ UNCHANGED storeVars

UseFile == at # "loop" /\ StoreNext /\ UNCHANGED splitVars

Spec == Init /\ [][Cut \/ UseFile]_<<splitVars, storeVars>>
=============================================================================
