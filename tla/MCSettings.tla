------------------------------ MODULE MCSettings ------------------------------
(***************************************************************************)
(* Settings with the flags of the Quickstart typed in full, under          *)
(* environments and files that say something else.                         *)
(***************************************************************************)
EXTENDS Settings

\* Everything the Quickstart's commands are given on the command line.
RunFlags ==
  [rpc |-> "node", address |-> "pools", from |-> 1, out |-> "logs", checkpoint |-> "checkpoint"]
DecodeFlags == [rpc |-> "node", in |-> "logs", out |-> "typed", errors |-> "errors"]
AggregateFlags(window) == [rpc |-> "node", in |-> "typed", pg_dsn |-> "db", window |-> window]

\* Two window sizes with their progress in the database, one of them given by a
\* duration that is not whole, one too short, one in a file.
Quickstart ==
  [run |-> {RunFlags}, decode |-> {DecodeFlags},
   aggregate |->
     {AggregateFlags(window) : window \in {5000, 1500, 500}} \cup
       {[rpc |-> "node", in |-> "typed", pg_dsn |-> "db", window |-> 5000,
         state_file |-> "state"],
        [rpc |-> "node", in |-> "typed", pg_dsn |-> "db", window |-> 5000,
         state_file |-> "state", recompute_from |-> 2]}]

\* What may stand in the other layers.
Elsewhere ==
  {<< >>, [out |-> "logs", from |-> 1], [in |-> "logs", to |-> 2],
   [errors |-> "logs", to |-> Unreadable]}

\* The conditions of the properties hold of these.
ASSUME LogsAreKept /\ OneLog /\ OneSizePerFile /\ TimesFit
=============================================================================
