--------------------------- MODULE CompactSymbol ---------------------------
(***************************************************************************)
(* One source of a compact build: the scan of builder.py that routes raw   *)
(* rows to the parts of the requested symbols, with the best quotes of     *)
(* their depth, and the consolidation of a symbol's parts with the         *)
(* timestamp correction and order sidecars of ordering.py.                 *)
(*                                                                         *)
(* A symbol and its spelling in a raw row are a number of leading zeros    *)
(* and a rest.  A raw row has its exchange and local times, where 0 is     *)
(* also a null, its status and the levels of its depth; the last price     *)
(* and volume are copied and left out.  So are the facts of the manifest   *)
(* that hash or count bytes, and requires_dual_order, which two others     *)
(* determine.  A sidecar is kept with the facts that name it.              *)
(* A failing write or budget check is BuildRaises of CacheStore.           *)
(*                                                                         *)
(* An operator Mut... is a plausible mistake in the definition after it.   *)
(***************************************************************************)
EXTENDS RowOrder, TopFive, FiniteSetsExt

CONSTANTS
  Sources,                   \* the sources a build may be asked for, see CompactSource
  SessionStart, SessionEnd,  \* both bounds included
  BaseLatency,
  BatchRows,                 \* rows of a batch at most
  Paths                      \* bound: files of the source

\* A source with the rows its files may hold and, a bound, how many in all.
\* status_allow = {} lets every status pass.
CompactSource(s) ==
  /\ s.symbols # {} /\ s.price_only_depth_qty \in Int \cup {NaN} /\ s.volume_scale \in Int
  /\ \A row \in s.rows : /\ row.exchtime \in Int /\ row.localtime \in Int
                         /\ row.bids \in Seq(Level) /\ row.asks \in Seq(Level)
  /\ s.most \in Nat

ASSUME SourcesAssumption == \A n \in DOMAIN Sources : CompactSource(Sources[n])
ASSUME BatchAssumption   == BatchRows \in Nat \ {0} /\ Paths \in Nat \ {0}
ASSUME LatencyAssumption == BaseLatency \in Int

VARIABLES
  source,    \* which of the sources is built
  path,      \* the file being scanned
  scanned,   \* the raw rows read so far, in source order
  offset,    \* source_offset
  parts,     \* per symbol, its part files
  files,     \* per symbol, its consolidated file and manifest entry, or NoFile
  phase

vars == <<source, path, scanned, offset, parts, files, phase>>

Asked   == Sources[source]
symbols == Asked.symbols

NoFile == [status |-> "unwritten"]

Init ==
  /\ source \in DOMAIN Sources
  /\ path = 1 /\ scanned = <<>> /\ offset = 0
  /\ parts = [s \in symbols |-> <<>>]
  /\ files = [s \in symbols |-> NoFile]
  /\ phase = "aliases"
-----------------------------------------------------------------------------
(* symbol_aliases                                                          *)

Stripped(s) == [s EXCEPT !.zeros = 0]
NoName      == [zeros |-> 0, rest |-> ""]

\* The spellings of a symbol in the order of np.unique: zeros sort first.
MutSpellings(s) == <<s>>                                 \* zeros not stripped
Spellings(s) == IF Stripped(s) \in {s, NoName} THEN <<s>> ELSE <<s, Stripped(s)>>

Ambiguous == \E s, t \in symbols : s # t /\ Range(Spellings(s)) \cap Range(Spellings(t)) # {}

ResolveAliases ==
  /\ phase = "aliases"
  /\ phase' = IF Ambiguous THEN "failed" ELSE "scan"
  /\ UNCHANGED <<source, path, scanned, offset, parts, files>>
-----------------------------------------------------------------------------
(* The scan: every batch of every file once, every symbol of a batch.      *)

Accepted(row) ==
  /\ Asked.status_allow = {} \/ row.status \in Asked.status_allow
  /\ SessionStart <= row.exchtime /\ row.exchtime <= SessionEnd

MutLocalTime(row) == row.localtime                       \* no fallback
LocalTime(row) == IF row.localtime = 0 THEN row.exchtime ELSE row.localtime

CompactRow(seq, row) ==
  [source_seq |-> seq, exch_ts |-> row.exchtime, local_ts_raw |-> LocalTime(row),
   bid |-> Best(row.bids, Asked, TRUE), ask |-> Best(row.asks, Asked, FALSE)]

Kept(batch, spelling) ==
  InOrder({i \in DOMAIN batch : batch[i].symbol = spelling /\ Accepted(batch[i])},
          {e \in (DOMAIN batch) \X (DOMAIN batch) : e[1] < e[2]})

CompactBatch(batch, spelling) ==
  LET kept == Kept(batch, spelling)
  IN  [k \in DOMAIN kept |-> CompactRow(offset + kept[k] - 1, batch[kept[k]])]

\* One part for each spelling that has rows left.
NewParts(s, batch) ==
  LET spellings == Spellings(s)
      Part(rows) == IF rows = <<>> THEN <<>> ELSE <<rows>>
  IN  FlattenSeq([k \in DOMAIN spellings |-> Part(CompactBatch(batch, spellings[k]))])

MutAdvanced(batch) == Len(batch)                         \* counted per batch
Advanced(batch) == offset + Len(batch)

ScanBatch ==
  /\ phase = "scan"
  /\ \E n \in 1 .. Min({BatchRows, Asked.most - Len(scanned)}) :
     \E batch \in [1 .. n -> Asked.rows] :
       /\ scanned' = scanned \o batch
       /\ offset' = Advanced(batch)
       /\ parts' = [s \in symbols |-> parts[s] \o NewParts(s, batch)]
  /\ UNCHANGED <<source, path, files, phase>>

NextPath ==
  /\ phase = "scan" /\ path < Paths
  /\ path' = path + 1
  /\ UNCHANGED <<source, scanned, offset, parts, files, phase>>

EndOfScan ==
  /\ phase = "scan" /\ path = Paths
  /\ phase' = "consolidate"
  /\ UNCHANGED <<source, path, scanned, offset, parts, files>>
-----------------------------------------------------------------------------
(* timestamp_ordering_facts, which the builder asks about the columns of   *)
(* a symbol's parts, and the store about those of its file.                *)

MutOrdered(ts) == \A i \in 1 .. Len(ts) - 2 : ts[i] <= ts[i + 1]   \* last pair missed
Ordered(ts) == \A i \in 1 .. Len(ts) - 1 : ts[i] <= ts[i + 1]

NoSidecar == <<>>
Keys(ts, seqs) == [i \in DOMAIN ts |-> <<ts[i], seqs[i]>>]
Sidecar(ts, seqs) ==
  IF Ordered(ts) THEN NoSidecar ELSE CHOOSE p \in StableOrders(Keys(ts, seqs)) : TRUE

Latencies(exchange, local)   == {local[i] - exchange[i] : i \in DOMAIN exchange}
Corrected(local, adjustment) == [i \in DOMAIN local |-> local[i] + adjustment]

None == <<>>
NothingToOrder ==
  [latency |-> None, adjustment |-> 0, exchange_ordered |-> TRUE, local_ordered |-> TRUE,
   exchange_order |-> NoSidecar, local_order |-> NoSidecar]

OrderingFacts(exchange, local, seqs, base) ==
  LET minimum    == Min(Latencies(exchange, local))
      adjustment == IF minimum < 0 THEN base - minimum ELSE 0
      corrected  == Corrected(local, adjustment)
  IN  IF exchange = <<>> THEN NothingToOrder
      ELSE [latency |-> <<minimum>>, adjustment |-> adjustment,
            exchange_ordered |-> Ordered(exchange), local_ordered |-> Ordered(corrected),
            exchange_order |-> Sidecar(exchange, seqs), local_order |-> Sidecar(corrected, seqs)]
-----------------------------------------------------------------------------
(* The consolidation: what the builder records of the parts of a symbol.   *)

Column(rows, name) == [i \in DOMAIN rows |-> rows[i][name]]
Prices(rows) ==
  ({rows[i].bid.px : i \in DOMAIN rows} \cup {rows[i].ask.px : i \in DOMAIN rows}) \ {0}
Bounds(S) == IF S = {} THEN None ELSE <<Min(S), Max(S)>>

Joined(ps, name) == FlattenSeq([k \in DOMAIN ps |-> Column(ps[k], name)])
RowCount(ps) == MapThenSumSet(LAMBDA k : Len(ps[k]), DOMAIN ps)
MutPartPrices(ps) == Prices(ps[Len(ps)])                 \* of the last part only
PartPrices(ps) == UNION {Prices(ps[k]) : k \in DOMAIN ps}

ConsolidateSymbol(ps) ==
  LET exchange == Joined(ps, "exch_ts")
      ordering == OrderingFacts(exchange, Joined(ps, "local_ts_raw"), Joined(ps, "source_seq"),
                                BaseLatency)
  IN  [status |-> "valid", rows |-> FlattenSeq(ps),
       metadata |-> [adjustment |-> ordering.adjustment, base_latency |-> BaseLatency],
       details |-> [rows |-> RowCount(ps), price |-> Bounds(PartPrices(ps)), ordering |-> ordering,
                    exch_ts |-> <<Min(Range(exchange)), Max(Range(exchange))>>]]

\* All of it as literals.
WriteEmptySymbol ==
  [status |-> "valid", rows |-> <<>>,
   metadata |-> [adjustment |-> 0, base_latency |-> BaseLatency],
   details |-> [rows |-> 0, price |-> None, exch_ts |-> None,
                ordering |-> [latency |-> None, adjustment |-> 0, exchange_ordered |-> TRUE,
                              local_ordered |-> TRUE, exchange_order |-> NoSidecar,
                              local_order |-> NoSidecar]]]

FileOf(ps) == IF ps = <<>> THEN WriteEmptySymbol ELSE ConsolidateSymbol(ps)

Consolidate(s) ==
  /\ phase = "consolidate" /\ files[s] = NoFile
  /\ files' = [files EXCEPT ![s] = FileOf(parts[s])]
  /\ UNCHANGED <<source, path, scanned, offset, parts, phase>>

\* The parts directory is removed.
Finish ==
  /\ phase = "consolidate" /\ \A s \in symbols : files[s] # NoFile
  /\ parts' = [s \in symbols |-> <<>>]
  /\ phase' = "done"
  /\ UNCHANGED <<source, path, scanned, offset, files>>
-----------------------------------------------------------------------------
(* _validate_symbol: what the store reads back from the file and computes  *)
(* for itself, against the manifest.                                       *)

Validates(file) ==
  LET exchange == Column(file.rows, "exch_ts")
  IN  /\ file.details.rows = Len(file.rows)
      /\ file.details.ordering.adjustment = file.metadata.adjustment
      /\ file.details.exch_ts = Bounds(Range(exchange))
      /\ file.details.price = Bounds(Prices(file.rows))
      /\ file.details.ordering =
           OrderingFacts(exchange, Column(file.rows, "local_ts_raw"),
                         Column(file.rows, "source_seq"), file.metadata.base_latency)
-----------------------------------------------------------------------------
Next ==
  \/ ResolveAliases \/ ScanBatch \/ NextPath \/ EndOfScan
  \/ \E s \in symbols : Consolidate(s)
  \/ Finish

Spec == Init /\ [][Next]_vars
=============================================================================
