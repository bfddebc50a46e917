# A verification of hftbacktest-slim

`hftbacktest-slim` replays two assets' best-bid-offer (BBO) rows against a trading
strategy, in Python over a small Rust engine, and keeps the rows in a compact
on-disk cache built from daily Parquet files. This directory models both halves
in TLA+, checks the models with TLC and proves the main theorems about the
book, the engine, the facade, the compact build and the cache with TLAPS. Every
invariant and action property that a passing run checks is also a theorem; only
the one liveness property stays with TLC.

## 1. The system

| part | code (under `src/`) | state | operations |
|---|---|---|---|
| order book | `native/src/book.rs` | levels per side, the two bests, a search window | `apply_row` (clear, then update, each side) |
| matcher | `native/src/matcher.rs` | none | `match_immediate` |
| replay engine | `native/src/engine.rs`, `scheduler.rs` | per asset two cursors, two books, two views and two latency samples; the orders; a vector of pending order events; the clock | `new`, `submit`, `elapse`, `wait_response`; inside them `next_event`, `process_event`, `process_through` |
| C entry points | `native/src/ffi.rs` | a boxed engine behind a pointer | one function per operation |
| Python facade | `engine/replay.py`, `validation.py`, `binding.py` | the library, the handle | construction (`resolve_library_path`, the ABI check, `read_rows`, create), `advance`, `submit_order`, `wait_order_response`, `order`, `depth`, the latencies, `close` |
| Arrow reader, schema, audit | `engine/arrow_reader.py`, `market_data/schema.py`, `audit.py` | none | copy and check one file |
| cache store | `cache/store.py`, `publication.py` | the directories of a date: visible, `.tmp-`, `.superseded-` | `build_date`, `validate_date`, `read_symbol` |
| cache builder | `cache/builder.py`, `market_data/ordering.py`, `normalize.py` | the symbols' parts being written | scan, compact, consolidate |
| identity | `cache/manifest.py`, `config.py` | none | what makes a cached date reusable |
| command line | `cli/` | none | one build, timed reads |

The strategy is the only thread of the replay. It calls the facade; the facade
calls the engine through ctypes; `elapse` and `wait_response` run the engine's
loop over four row streams (two assets, each seen by the exchange and later by
the strategy) and the order events in flight. Builders and readers of the cache
are separate processes; they share the file system and no lock.

What is hard here, and where each property aims:

- **Causality.** Rows, requests and responses of both assets tie at one
  nanosecond; the match must use exactly the exchange's past and the strategy
  must see exactly its own.
- **Orders in flight.** `swap_remove` shuffles the pending vector, timestamps
  saturate, a wait's deadline races the response, a refused `elapse` leaves
  events behind.
- **A book with memory.** Levels beyond the best stay stored; a one-tick gap and
  a search window decide which of them can come back.
- **Publication without locks.** A date is replaced by two renames; builders
  race each other, the raw source, a full disk and their own death.
- **Rows kept once, in one order.** A symbol is spelled in two ways, its rows lie
  in several batches and files, and ties in time are settled by a counter that
  must run over all of them.
- **Raw depth.** Levels come unsorted, repeated, without price or quantity; the
  best of them is found by hand-written loops.
- **Two languages.** Python integers become `int64_t`; return codes become
  results and exceptions; a native object is owned by a Python one whose
  constructor may fail half way.

`PROJECT.json` lists each hazard with its line and the properties that cover it.

## 2. Modules

| module | models | lines of thought |
|---|---|---|
| `Book` | `book.rs`, `matcher.rs` as operators | `ApplyRow`, `ViewOf`, `MatchImmediate` |
| `BookReplay` | one book fed with any rows | the book's properties |
| `Engine` | `engine.rs`, `scheduler.rs` | one action per loop iteration kind and per native call |
| `EngineProps` | | causality, order and clock properties |
| `OrderDesk` | the abstract promise to an order | per asset, two FIFO legs, one decision, one answer |
| `EngineRefinement` | | the engine implements the desk |
| `Replay` | opening and the facade over `Engine` | composes the Python state with the engine's actions |
| `RowOrder` | the order by time, then `source_seq` | shared by `Engine` and `CompactSymbol` |
| `TopFive` | `normalize.py` as operators | aggregation, insertion sort, `Best` |
| `CompactSymbol` | the scan and consolidation of `builder.py`, `ordering.py`, over `TopFive` | one action per batch and per symbol consolidated |
| `CompactProps` | | what the files owe the raw rows and the engine |
| `CacheStore` | `store.py`, `publication.py`, the control of `builder.py`, the equality of identities | one action per file-system step of one process |
| `CacheProps` | | properties of the cache of one date |
| `MCEngine`, `MCReplay`, `MCCompact`, `MCCache` | | small inputs and symmetry for TLC |
| `BookLemmas`, `BookProofs` | | proofs about the book |
| `OrderLemmas` | | finite sets put in order, folds and sums over them: shared by the proofs below |
| `EngineProofs`, `EngineOrderProofs` | | proofs about the engine |
| `ReplayProofs` | | proofs about the facade, on top of the engine's |
| `CompactProofs` | | proofs about a compact build |
| `CacheProofs` | | proofs about the cache: what is published and read, where directories are, what they hold together |

### Correspondence with the code

**Book.** A side's level map is a function from ticks to quantities; `depth_below`
and `depth_above` are the greatest and least tick inside the window, with the
exclusive bounds of the code; `PriceTick` rounds as `f64::round` does on
positive numbers. Prices and quantities are naturals and price 0 stands for
every price `price_tick` rejects (NaN, zero, negative). The cache writes a quantity
with every price; the null or NaN quantity that a nullable column of a foreign
`bbo_v1` file could hand over (arrow_reader.py:71) is assumed away.

**Engine.** `next_event` picks the least key `<<ts, asset, kind, serial>>`; the
keys are distinct, so an action is enabled exactly for the picked event
(`Picks`). The row orders are the stable sorts of `AssetState::new`. The
variable `call` is the running native call: `pc` says which loop it is in
(`elapse`, `wait`, or the `drain` after an answer), `target` the time it runs
to. `pending` is a set because no result of the code depends on the vector's
order: serials make the keys distinct. Timestamps saturate in `MinTs .. MaxTs`.

**Replay.** `setup` is what opening finds: the library paths asked for by argument
and by environment, the files that exist, the ABI version each exports, and of
each partition's metadata what decides whether it is read. `Open` is the
constructor up to the handle; a constructor that raises leaves no object, and no
method is called on it (`__del__` finds no handle on it and does nothing).
`Invoke` is the Python method up to the native call, `Return` what it makes of
the return code; between them only `ProcessThrough` runs. `ToI64` keeps the low
bits, as ctypes does. The handle is dropped before the engine is freed.

**CompactSymbol.** The raw rows appear as they are scanned (`scanned`), so TLC
tries every source and every way to cut it into batches. A symbol is a count of
leading zeros and a rest, which is all that `lstrip("0")` and the order of
`np.unique` look at as long as the rest starts with a character above `0`. A
null time is 0, as `fill_null` makes it. Depth is a sequence of levels per side; a
missing or infinite number is `NaN`, a price that is not positive is 0, and
quantities are integers because only their ratio to `volume_scale` matters.
`TopFive` keeps the first-seen merge and the insertion sort of the code, and
`BestIsTrue` compares its result with the extreme price of the set of levels that
count and the sum offered there. The builder's record of a symbol and the store's
check of it are two computations here as in the code: `ConsolidateSymbol` joins the
columns of the parts, counts their rows and collects their prices part by part, or
`WriteEmptySymbol` writes literals; `Validates` takes the columns, the bounds and the
orders from the rows of the one file. They share `OrderingFacts`, which is one
function in the code too. What is hashed or counted in bytes is left out.
`RecordedOrderReplays` compares the file
order or the sidecar with the order in which `Engine` would sort the rows. It
does so fully only when the accepted rows spell the symbol one way: `0050` and
`50` in one batch become two parts (builder.py:65-76), the order tests of
ordering.py:41-42 accept equal times, and so the file keeps ties out of
`source_seq` order without a sidecar, although its metadata says
`exch_ts,source_seq` (builder.py:259). The engine sorts the rows again and is not
affected; a reader that trusts the metadata would be.

**CacheStore.** The directories are records, `os.replace` is a step that moves
one, and it fails when the source is gone or the target is a non-empty
directory. `validate_date` is two steps (the manifest with the raw sources'
identities; the files), because a rename can come between them. The scan reads
whatever version the source has at that batch. A build's last check of the budget is
`BudgetAfterConsolidate`; the removal of the parts, the source's manifest
(`SealSource`) and the date's (`SealDate`) come after it, and the two manifests have
sizes of their own. A build is of one source. `Crash` is death or an exception
that is no `Exception`: no handler runs. The names of temporary and superseded
directories are taken to be fresh (`mkdtemp`, `time_ns`), and a rewritten source
to have a new identity: its size, `mtime_ns`, rows and footer do not all return
to an earlier value while a build of that value runs.

## 3. Runs

| run | instance | shows |
|---|---|---|
| `book_cache` | 6 prices on 5 ticks of size 2, quantity 1, all rows with either side present or absent | `TypeOK`, `BestBacked`, `Uncrossed`, `SnapshotShown`, `LastSideWins`, `OneSidedPushesAway` for rows as the cache writes them |
| `book_raw` | 5 prices on 4 ticks, quantity 0 allowed | withdrawals: `BestBacked`, `WithdrawnNotShown` |
| `engine_causality` | two row sets with ties, locked and one-sided rows, rows out of file order; two configurations with zero latencies, a correction, a negative feed offset | time, matching and visibility: `NothingOverdue`, `ClockMonotone`, `ReturnsDrained`, `NoLookahead`, `MatchedOnArrival`, `StrategySeesThePast` |
| `engine_orders` | four orders on two assets, saturating clock | `TypeOK`, `OrderLifeCycle`, `WaitVerdict`, `FirstInFirstOut`, `WaitStopsAtResponse`, and the refinement `ImplementsOrderDesk` |
| `engine_returns` | empty and tiny inputs, bad arguments, under `FairSpec` | `CallReturns` |
| `replay` | opening over 12 setups (library given, from the environment, packaged, from the checkout, missing, of another ABI, broken; several candidates present; partitions legacy or foreign), then all facade calls, open and closed, arguments valid, invalid and negative, `int64` of 4 bits, durations below its maximum | `ReplayTypeOK`, `HandleOwnsEngine`, `OpenedAsAsked`; results and exceptions tell the truth: `AdvanceKeepsItsWord`, `WaitKeepsItsWord`, `ShownOrdersAreFinal`, `OnlyDuplicatesAreRefused` |
| `cache_date` | 2 builders, 1 reader, 3 calls, 2 requests, 2 batches, 1 source rewrite, 1 failing rename, 1 death | `PublishedIsFaithful`, `PredecessorsKept`, `VisibleAtRest`, `OutcomesAreTrue`, `TypeOK` |
| `compact` | 7 sources. Three with up to 3 rows out of 18 in 2 files and batches of any size: two symbols, two ambiguous ones, two of zeros only. Two with one row of any three levels over 3 prices and 3 quantities. Two with up to 2 rows of simple depth, one of them with a negative scale | `TypeOK`, `EveryRowOnce`, `CorrectionIsLeast`, `RecordedOrderReplays`, `BestIsTrue`, `WrittenValidates` |
| `cache_budget` | 2 builders, 4 calls, a cap of 8, builds of 4 at their last check, then manifests of 1 and 2, 1 death | `CheckedBytesFit`: checked directories hold up to 10 here, within the 8 + 2 * 3 allowed |
| `book_empty_side` | as `book_cache` | **violated**: an empty side is shown as quoted and valid |
| `cache_visible` | one builder, two calls | **violated**: a rebuild hides the date between two renames |
| `replay_huge` | durations past 2^63 and 2^64 | **violated**: `advance()` returns `True` without moving the clock |

`CHECK_DEADLOCK FALSE` is set where the system may stop: rows and order ids run
out, builders have no calls left.

### Why the bounds are enough

*Book*: the prices give adjacent and distant ticks and two that round to one, and
a window with a hidden level between two bests; the state is closed under more
rows, so no row count is bounded. *Engine*: the timestamps used make every
pair of event kinds tie somewhere, on one asset and across the two; two orders
per asset overtake each other in the vector. The loop has no counters besides
serials, bounded by the order ids. *Compact rows*: three rows give a tie, an
inversion on either clock or both, an early row beside two others, both
spellings in one batch and across two. *Depth*: three levels give every merge of
equal prices with a third level before, between or after, every insertion into a
sorted pair, and a level that does not count anywhere; both sides share the code
but for the direction. *Facade*: the setups take every branch of the library's
resolution, present and missing; the engine below runs a small input. *Cache*:
three calls are a published date and two builds racing to replace it, or one racing a reader; one rewrite can
fall between any two steps; one failing rename leaves the restore to succeed. A
second failure, of the restore itself, leaves the date only in its superseded
directory, so `VisibleAtRest` says nothing once two renames have failed or a
builder has died.

### Fairness

Only `CallReturns` is a liveness property. `FairSpec` is weakly fair to
`ProcessThrough`, the body and exit of a native loop that the caller's thread
executes and nothing interrupts. The strategy owes no further calls, so its
actions have no fairness.

## 4. Proofs

All are for arbitrary constants that satisfy the assumptions the modules name. The
ones with content: rows are sequences of records with integer times and prices;
latencies are non-negative; the levels of a raw row are prices and integer
quantities or `NaN`, which is no integer; there are finitely many builders, and no
process is both a builder and a reader. Numbers of rows, orders, levels, batches,
files, calls, versions, faults and deaths are unbounded.

The library's induction theorems take an operator and cannot be instantiated with
the provers at hand. `OrderLemmas` replaces induction by a least counterexample: a
non-empty set of naturals has a least member (`LeastOne`), a non-empty family of
subsets of a finite set a minimal one (`MinimalOne`). With these it shows that a
finite set has exactly one enumeration in a strict total order
(`EnumerationExists`, `EnumerationUnique`), and that the recursive function behind
a fold exists (`FoldExists`) and, for a sum, has one value whatever the order
(`SumFoldIs`). A fold in a model is then the sequence of its intermediate results,
and a statement about it holds of each of them in turn.

- **Book** (`BookProofs`). The invariant is `BestBacked`: each best is a stored
  level and lies inside the window that later searches are confined to. It is
  needed because `clear_*` recomputes a best by a search that only finds levels
  in the window. `BookLemmas` has one lemma per operator of `Book` about what it
  keeps of a book with this property. `BookShowsRows` adds, for positive
  quantities, `Uncrossed`, `SnapshotShown` and `LastSideWins`. For rows of any
  quantities, what one row does to either side (`BidWithdrawn`, `AskWithdrawn`,
  `BidPushes`, `AskPushes`) gives `WithdrawnNotShown` and `OneSidedPushesAway`.
- **Engine types and time** (`EngineProofs`). `Typed` adds to `TypeOK` the types
  of the books and that the row orders are sorted. `Clock` is the invariant
  behind the clock's theorems: nothing is overdue, the clock has not passed the
  running call's target, and each cursor has passed exactly the rows up to the
  clock as far as picked. From it follow `ClockMonotone`, `ReturnsDrained` and
  `NoLookahead`; the last needs that the exchange's kind sorts before a
  request's at equal times.
- **Orders** (`EngineOrderProofs`). `OrderLifeCycle` is inductive with the types.
  FIFO needs `Queued`: events of one leg are sent, and so due, in serial order.
  `WaitVerdict` needs `Waiting`: a call in the wait loop waits for an order that
  is not yet visible.
- **Facade** (`ReplayProofs`). `FacadeStep`: every step of `Replay` is a step of
  `Engine` or leaves its variables alone, so `FacadeImplementsEngine` says that the
  facade implements the engine, and all the engine's theorems hold behind it.
  Three layers rest on that. `Life` (types, the handle, the library) is inductive.
  `Final` needs that a visible order never changes, which is a step lemma of the
  engine. `Word` says of the running method what its native call will have
  done: the loop's target is the one Python asked for, as long as the argument
  fits `int64_t`, and the return code tells how the loop ended. From it follow
  `AdvanceKeepsItsWord`, `WaitKeepsItsWord` and `OnlyDuplicatesAreRefused`.
- **Reference books** (`EngineProofs`). `MatchedOnArrival` and `StrategySeesThePast`
  compare a running book with one to which exactly the rows stamped up to a time are
  applied in order. The invariant says that each of the four books of an engine is
  its cursor's prefix of its row order applied one by one; a step of a cursor
  appends one row, the row orders are sorted, and so the prefix passed is the set
  of rows up to the clock.
- **The order desk** (`EngineOrderProofs`). `EngineIsOrderDesk` is the refinement: the
  engine's set of pending events is mapped to two queues per asset, each the
  enumeration of its events by serial. A request or response appends the largest
  serial, the event the loop picks has the least of its leg (that is
  `FirstInFirstOut`), so the queue loses its head; every other step leaves the
  enumerations alone.
- **Compact build** (`CompactProofs`). `TypeOK`, with the sequence number equal
  to the rows read. The invariant `Placing` says where the rows are: the parts of
  a symbol, put end to end, are the compact rows of some listing, without
  repetition, of its accepted raw rows so far (`Gathered`), in source order if
  they spell it one way; and once the scan has begun no spelling stands for two
  symbols. A batch keeps it because its rows all come after those before
  (`BatchListed`, `GatheredOn`). `EveryRowOnce` follows; so does
  `CorrectionIsLeast`, the least latency of the listing being that of the rows;
  so does `RecordedOrderReplays`, for which a sidecar must exist
  (`StableOrderExists`: `CHOOSE` in the model stands for `np.lexsort`, and there
  is something to choose) and a file whose times are in order must be its own
  stable sort. `WrittenValidates` needs `Sealing`: no part is empty, and each
  file written is recorded as the store will find it. A column, the row count and
  the prices of the parts put end to end are shown to be those of the whole
  (`JoinedIs`, `RowCountIs`, `PartPricesIs`), the literals those of no rows
  (`EmptyRecorded`).
- **Depth** (`CompactProofs`). After n levels the merge has one entry or more for each
  price that counts among them and only for those, with the sum offered there
  (`ShowsLevels`); after n entries the insertion sort starts with one that precedes
  all n (`StartsWell`). Nothing more is needed of the sort, since only its first
  entry is quoted. `BestIsTrue` follows for any number of levels, five or not.
- **Cache** (`CacheProofs`). `PublishedIsFaithful` and `OutcomesAreTrue` follow
  from `CacheInv`, which says of each process what it knows at each step. A
  builder's rows come from versions between the one its build is for and the
  source's present one (`Staging`): versions only grow, so a staged directory
  that is still current holds one version. A call holds the record it began with
  (`Calling`), and what it has seen and not yet reported is published and no
  older than the call (`Seeing`). A step of one process keeps the facts of every
  other because nothing published is lost (`OthersKeep`), which is
  `PredecessorsKept`, proved step by step and true after a death too. It holds
  for any number of versions, calls, faults and deaths.
- **Places** (`CacheProofs`). `TypeOK` says that no directory is in two places. It
  is inductive only with the serial numbers: each running call has its own, larger
  than that of every directory published or left behind (`Serials`), a builder's
  temporary directory carries its call's, and until it is installed nothing
  settled does (`Stage`). `VisibleAtRest` follows from these and `SomebodyPutsBack`:
  while a date was published and none is visible, some builder that set it aside
  is still on its way to install its own or, the one failing rename behind it, to
  put it back. Each of two builders at that point leaves a visible date when it is
  done, so the invariant survives every race of them.
- **Budget** (`CacheProofs`). Between a write and its check a build does not count, and
  a check lets it count only if all the directories together fit the cap. After the
  last check come the manifests, so the invariant (`Budget`) is that the directories
  past their check hold at most the cap, two manifests for each builder, less what
  the builders between their last check and their end have still to write
  (`Remaining`, summed in `Owed`). A manifest is written off what is owed; a check
  starts from the cap with everything owed; renames and removals add nothing. The
  bytes of a set are a fold in an order `CHOOSE` picks; `BytesOfSubsets` makes it the
  sum.

Only model-checked: `CallReturns`, because it is liveness under fairness, and the
three violated properties, which are false. `CHECK_DEADLOCK` aside, no proof says
that an action is enabled.

## 5. What is not modelled

- `last_px` and `total_volume`: carried, never read by the engine.
- Quantities that are null or NaN in a file the cache did not write.
- What a caller might expect and the code does not promise: a miss may report a date
  that another request has published since, and a read may open another table, even
  an older one, than it validated; `OutcomesAreTrue` asks no more of them. And a
  published date may take the cache over its cap by its manifests, which are written
  after the last budget check (builder.py:103) and never checked: the bound proved is
  the cap and two manifests for each builder.
- `__del__` on a half-constructed `SlimEngine` (replay.py:260-266): there is no handle
  to free. A date built of several sources: the cache model builds one.
- Floating point beyond the rounding of prices to ticks; int64 overflow of the
  builder's timestamp sums.
- Arrow and Parquet encodings, column layouts and memory maps; hashes, which are
  taken to be injective; disk corruption.
- `compact_partition_audit` and the dataset contract: reports of one file that
  decide nothing. The command line: arguments and timing around calls that are
  modelled.
- The ctypes structures and signatures: layout only. A library file that changes
  between its lookup and its loading.
- The walk of `directory_bytes` is one step; the real one may miss or count twice a
  directory renamed meanwhile. Several dates share the cap in the code; the model
  has the directories of one, and an unpadded date that collides with another is
  a hazard noted in `PROJECT.json`.
- Threads that share one `SlimEngine`, which the Rust side forbids ("exclusively
  borrowed").

## 6. Plan

1. An abstract specification of a date (a register whose value only moves to another
   finished one, and may be missing for a moment) and `CacheStore` as its refinement,
   proved step by step.
2. That the scan of `CacheStore`, which counts batches, is what `CompactSymbol` does
   to one source, so that `PublishedIsFaithful` and `EveryRowOnce` speak of one file.
3. The walk of `directory_bytes` entry by entry, with the renames of other
   builders between, and the dates that share one cap.
4. The reading of a raw file by projected columns and row groups, and the report
   counters.
