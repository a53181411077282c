--------------------------- MODULE MCSettingsExample --------------------------
\* Settings with the example of a configuration file and few flags.
EXTENDS Settings

Nothing == {<< >>}

\* The example configuration of the README; only the input is typed.
ExampleFile ==
  {[rpc |-> "node", address |-> "pools", from |-> 1, to |-> 2, out |-> "logs",
    checkpoint |-> "checkpoint"]}
FewFlags ==
  [run |-> {<< >>}, decode |-> {[in |-> "logs"]},
   aggregate |-> {[rpc |-> "node", in |-> "typed", pg_dsn |-> "db", window |-> 5000]}]
=============================================================================
