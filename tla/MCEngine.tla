------------------------------ MODULE MCEngine ------------------------------
(* Small inputs for TLC: rows, latencies and arguments of the native calls. *)
EXTENDS EngineRefinement

Row(seq, ets, raw, bid, ask) ==
  [source_seq |-> seq, exch_ts |-> ets, local_ts_raw |-> raw,
   bid_px |-> bid, bid_qty |-> 1, ask_px |-> ask, ask_qty |-> 1]

Pair(x, y) == [a \in {0, 1} |-> IF a = 0 THEN x ELSE y]

\* Rows that tie at a timestamp, reach the strategy out of exchange order, lock
\* or lose a side of the book, and events of both assets at one timestamp.
TiedRows == Pair(<<Row(0, 1, 2, 3, 5), Row(1, 3, 4, 2, 4), Row(2, 3, 3, 4, 6)>>,
                 <<Row(0, 1, 1, 3, 4), Row(1, 4, 4, 0, 3)>>)

\* File order that is not source order, and an asset without rows.
SwappedRows == Pair(<<Row(1, 2, 2, 3, 5), Row(0, 2, 3, 4, 5), Row(2, 4, 5, 4, 4)>>, <<>>)

MCAllInputs   == {TiedRows, SwappedRows}
MCFewRows     == {Pair(<<Row(0, 1, 2, 3, 4), Row(1, 3, 3, 2, 3)>>, <<Row(0, 2, 3, 3, 4)>>)}
MCEmptyInputs == {Pair(<<>>, <<>>), Pair(<<Row(0, 1, 2, 3, 4)>>, <<>>)}

Cfg(adjust, feed, entry, response) ==
  [local_adjustment |-> adjust, feed_offset |-> feed,
   entry_latency |-> entry, response_latency |-> response]

\* A zero latency on either leg; a negative offset shows rows to the strategy
\* before the exchange has them.
MCAllConfigs == {Pair(Cfg(0, 0, 1, 1), Cfg(1, 0, 0, 2)), Pair(Cfg(0, -1, 2, 0), Cfg(0, 1, 1, 0))}
MCOneConfig  == {Pair(Cfg(0, 0, 2, 1), Cfg(0, 0, 0, 2))}

MCMinTs    == -2
MCSides    == {BUY, SELL}
MCBuyOrBad == {BUY, 0}
MCTimeouts == {-1, 2}
=============================================================================
