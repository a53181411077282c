------------------------------ MODULE WindowFeed ------------------------------
(***************************************************************************)
(* The input of the aggregate command, the typed events in file order, and *)
(* what the metrics row of a pool and window should be made of.  Amounts   *)
(* are left out: a row stands for the set of events it sums up, and for    *)
(* the block its TVL snapshot is taken at.                                 *)
(***************************************************************************)
EXTENDS Integers, Sequences

CONSTANTS
  Feed,                 \* the parsable lines: pool, ts, block, and does AddEvent accept it?
  WindowSeconds,
  NoMeta                \* pools whose records carry no token addresses
ASSUME FeedAssumption ==
  /\ \A i \in DOMAIN Feed :
       /\ Feed[i].ts \in Nat /\ Feed[i].block \in Nat
       /\ Feed[i].ok \in BOOLEAN
  /\ Feed \in Seq({Feed[i] : i \in DOMAIN Feed})
  /\ WindowSeconds \in Nat \ {0}

Events == DOMAIN Feed

\* windowStart of the code.
WindowOf(ts) == ts - (ts % WindowSeconds)

KeyOf(i) == <<Feed[i].pool, WindowOf(Feed[i].ts)>>
InWindow(k) == {i \in Events : KeyOf(i) = k}

\* The keys that get a row: flushAccumulator drops pools without metadata.
Keys == {k \in {KeyOf(i) : i \in Events} : k[1] \notin NoMeta}

\* The row of k sums up all the events of the window and nothing else, and its
\* TVL is that of the last of them.
IsExact(row, k) ==
  /\ row.events = {i \in InWindow(k) : Feed[i].ok}
  /\ \E last \in InWindow(k) :
       /\ row.tvlBlock = Feed[last].block
       /\ \A i \in InWindow(k) : i <= last

\* Events come in block order, and time stamps of blocks do not decrease.
SortedFeed ==
  \A i, j \in Events :
    i <= j => Feed[i].ts <= Feed[j].ts /\ Feed[i].block <= Feed[j].block

\* The input ends at the c-th event, and with it ends the window.
EndsWindow(c) ==
  c > 0 => /\ Feed[c].ok
           /\ \A i \in Events : i > c => WindowOf(Feed[i].ts) > Feed[c].ts

\* t separates windows: no window has events on both sides of it.
Separates(t) ==
  \A i, j \in Events : KeyOf(i) = KeyOf(j) => (Feed[i].ts <= t <=> Feed[j].ts <= t)
=============================================================================
