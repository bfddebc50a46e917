---------------------------- MODULE CompactProps ----------------------------
(* What the compact files of a source owe the raw rows and the engine.     *)
EXTENDS CompactSymbol

\* Every variable holds a value of its type; the running sequence number is the
\* count of the rows read, over all batches and files (builder.py:57-62).
TypeOK ==
  /\ source \in DOMAIN Sources /\ path \in 1 .. Paths
  /\ scanned \in Seq(Asked.rows) /\ Len(scanned) <= Asked.most
  /\ offset = Len(scanned)
  /\ DOMAIN parts = symbols /\ DOMAIN files = symbols
  /\ phase \in {"aliases", "scan", "consolidate", "done", "failed"}

Written == {s \in symbols : files[s] # NoFile}

\* A raw spelling stands for a symbol when it is the symbol, or the symbol
\* without its leading zeros.
Denotes(name, s) == name = s \/ (name = Stripped(s) /\ name # NoName)
RowsOf(s) == {k \in DOMAIN scanned : Denotes(scanned[k].symbol, s) /\ Accepted(scanned[k])}

\* However the rows are cut into batches and files and the symbol is spelled, its
\* file holds every accepted row of it once, under its place in the source, and
\* no row lands in the files of two symbols (builder.py:53-78).
EveryRowOnce ==
  /\ \A s \in Written :
       LET rows == files[s].rows IN
       /\ {rows[i].source_seq : i \in DOMAIN rows} = {k - 1 : k \in RowsOf(s)}
       /\ Len(rows) = Cardinality(RowsOf(s))
       /\ \A i \in DOMAIN rows : rows[i].exch_ts = scanned[rows[i].source_seq + 1].exchtime
  /\ \A s, t \in Written : s # t => RowsOf(s) \cap RowsOf(t) = {}

FeedLatency(row) == row.local_ts_raw - row.exch_ts

\* A symbol whose raw rows were all stamped in time, or not stamped at all, is
\* not corrected.  Any other is moved by the one amount that makes its fastest
\* row take the base latency, so that no row of it arrives before it was sent
\* unless the base latency is negative (ordering.py:37-40, builder.py:172-173).
CorrectionIsLeast ==
  \A s \in Written :
    LET f == files[s]
        latencies == {FeedLatency(f.rows[i]) + f.metadata.adjustment : i \in DOMAIN f.rows}
        early == {k \in RowsOf(s) : /\ scanned[k].localtime # 0
                                    /\ scanned[k].localtime < scanned[k].exchtime}
    IN  IF early = {} THEN f.metadata.adjustment = 0 ELSE Min(latencies) = BaseLatency

Replayed(order, rows) == IF order = NoSidecar THEN [i \in DOMAIN rows |-> i] ELSE order
SourceOrder(rows) == Ordered(Column(rows, "source_seq"))

\* The order a file and its sidecar record never goes back in time, on either
\* clock; and as long as the raw rows spell the symbol one way, it is the very
\* order in which the engine sorts the rows, ties included (ordering.py:41-57,
\* engine.rs:25-37).
RecordedOrderReplays ==
  \A s \in Written :
    LET f == files[s]
        Agrees(order, ts) ==
          LET p == Replayed(order, f.rows) IN
          /\ Ordered([i \in DOMAIN p |-> ts[p[i]]])
          /\ Cardinality({scanned[k].symbol : k \in RowsOf(s)}) <= 1
               => SourceOrder(f.rows) /\ p \in StableOrders(Keys(ts, Column(f.rows, "source_seq")))
    IN  /\ Agrees(f.details.ordering.exchange_order, Column(f.rows, "exch_ts"))
        /\ Agrees(f.details.ordering.local_order,
                  Corrected(Column(f.rows, "local_ts_raw"), f.metadata.adjustment))

\* The quantity at a price, over all the levels that quote it.
Offered(levels, px) ==
  MapThenSumSet(LAMBDA k : Quantity(levels[k], Asked),
                {k \in DOMAIN levels : Counts(levels[k], Asked) /\ levels[k].px = px})
PricesOf(levels) == {levels[k].px : k \in {j \in DOMAIN levels : Counts(levels[j], Asked)}}

\* Whatever levels are missing, repeated, without a price or a quantity and in
\* whatever order, a row quotes the best price of each side that anything is
\* offered at, with all that is offered at it, and no side that is empty
\* (normalize.py:22-58).
BestIsTrue ==
  \A s \in Written : \A i \in DOMAIN files[s].rows :
    LET row == files[s].rows[i]
        raw == scanned[row.source_seq + 1]
        Shows(quote, levels, prices, best) ==
          quote = IF prices = {} THEN NoQuote ELSE [px |-> best, qty |-> Offered(levels, best)]
    IN  /\ Shows(row.bid, raw.bids, PricesOf(raw.bids), Max(PricesOf(raw.bids)))
        /\ Shows(row.ask, raw.asks, PricesOf(raw.asks), Min(PricesOf(raw.asks)))

\* What the builder records of a symbol, part by part or as literals when it has
\* none, is what the store computes from the file it reads back, before it
\* publishes and whenever it reads: otherwise no build of such a source could ever
\* end (builder.py:241-355, store.py:296-375).
WrittenValidates == \A s \in Written : Validates(files[s])
=============================================================================
