-------------------------------- MODULE Book --------------------------------
(***************************************************************************)
(* The two-sided book kept for each asset, once on the strategy's side and *)
(* once on the exchange's (book.rs), and the immediate matcher that reads  *)
(* the exchange's view (matcher.rs).                                       *)
(*                                                                         *)
(* Prices and quantities are integers.  A price of 0 in a row stands for   *)
(* every price the code finds unusable (NaN, infinite, zero, negative) and *)
(* a quantity of 0 for every quantity <= 0; a NaN quantity, and a NaN      *)
(* price in a view or an order, is NaN.  Ticks are natural numbers, None   *)
(* is Rust's None.                                                         *)
(*                                                                         *)
(* An operator Mut... is a plausible mistake in the definition after it,    *)
(* which the properties of BookReplay must not survive.                    *)
(***************************************************************************)
EXTENDS Integers, FiniteSets, FiniteSetsExt, Functions

CONSTANT TickSize       \* price units in one tick

ASSUME TickSizeAssumption == TickSize \in Nat \ {0}

None == -1
NaN  == -1

NoLevels == [t \in {} |-> 0]

\* DepthState::default()
EmptyDepth ==
  [bids |-> NoLevels, asks |-> NoLevels,
   best_bid |-> None, best_ask |-> None, low_bid |-> None, high_ask |-> None]

\* BboView::default(): all zero, not valid
DefaultView ==
  [bid_px |-> 0, ask_px |-> 0, bid_qty |-> 0, ask_qty |-> 0,
   exch_ts |-> 0, local_ts |-> 0, valid |-> FALSE]

-----------------------------------------------------------------------------
\* f64::round rounds half away from zero, which for a positive price is up.
PriceTick(px) == (2 * px + TickSize) \div (2 * TickSize)

SetLevel(levels, tick, qty)  == [t \in DOMAIN levels \cup {tick} |->
                                   IF t = tick THEN qty ELSE levels[t]]
MutDropLevels(levels, gone)  == [t \in DOMAIN levels |->    \* zeroed, not removed
                                   IF t \in gone THEN 0 ELSE levels[t]]
DropLevels(levels, gone)     == Restrict(levels, DOMAIN levels \ gone)
QtyAt(levels, tick)          == IF tick \in DOMAIN levels THEN levels[tick] ELSE 0

MaxOrNone(S) == IF S = {} THEN None ELSE Max(S)
MinOrNone(S) == IF S = {} THEN None ELSE Min(S)

DepthBelow(d, start) ==
  IF d.low_bid = None THEN None
  ELSE MaxOrNone({t \in DOMAIN d.bids : d.low_bid <= t /\ t < start})

MutDepthAbove(d, start) ==                                 \* finds start itself
  IF d.high_ask = None THEN None
  ELSE MinOrNone({t \in DOMAIN d.asks : start <= t /\ t <= d.high_ask})
DepthAbove(d, start) ==
  IF d.high_ask = None THEN None
  ELSE MinOrNone({t \in DOMAIN d.asks : start < t /\ t <= d.high_ask})

\* A bid quote empties the book from its tick up to the old best, and the new
\* best is looked for strictly below clear_tick - 1: one tick is skipped.
MutClearBid(d, clear) ==                                   \* keeps best and low
  IF d.best_bid = None THEN d ELSE [d EXCEPT !.bids = DropLevels(@, clear .. d.best_bid)]
ClearBid(d, clear) ==
  LET kept == IF d.best_bid = None THEN d
              ELSE [d EXCEPT !.bids = DropLevels(@, clear .. d.best_bid)]
      best == DepthBelow(kept, clear - 1)
  IN  [kept EXCEPT !.best_bid = best,
                   !.low_bid  = IF best = None THEN None ELSE @]

MutClearAsk(d, clear) == d                                 \* no clear at all
ClearAsk(d, clear) ==
  LET kept == IF d.best_ask = None THEN d
              ELSE [d EXCEPT !.asks = DropLevels(@, d.best_ask .. clear)]
      best == DepthAbove(kept, clear + 1)
  IN  [kept EXCEPT !.best_ask = best,
                   !.high_ask = IF best = None THEN None ELSE @]

\* A quantity <= 0 withdraws the level.
WithdrawBid(d, tick) ==
  LET kept == [d EXCEPT !.bids = DropLevels(@, {tick})]
      best == DepthBelow(kept, tick)
  IN  IF d.best_bid # tick THEN kept
      ELSE [kept EXCEPT !.best_bid = best,
                        !.low_bid  = IF best = None THEN None ELSE @]

WithdrawAsk(d, tick) ==
  LET kept == [d EXCEPT !.asks = DropLevels(@, {tick})]
      best == DepthAbove(kept, tick)
  IN  IF d.best_ask # tick THEN kept
      ELSE [kept EXCEPT !.best_ask = best,
                        !.high_ask = IF best = None THEN None ELSE @]

\* A NaN quantity is neither > 0 nor <= 0: the level is removed, yet its tick
\* may become the best.
StoreLevel(levels, tick, qty) ==
  IF qty > 0 THEN SetLevel(levels, tick, qty) ELSE DropLevels(levels, {tick})

\* A new best bid at or through the best ask moves the ask above it.
QuoteBid(d, tick, qty) ==
  LET better == d.best_bid = None \/ tick > d.best_bid
      pushed == better /\ d.best_ask # None /\ tick >= d.best_ask
  IN  [d EXCEPT !.bids     = StoreLevel(@, tick, qty),
                !.best_bid = IF better THEN tick ELSE @,
                !.best_ask = IF pushed THEN DepthAbove(d, tick) ELSE @,
                !.low_bid  = IF @ = None \/ tick < @ THEN tick ELSE @]

MutQuoteAsk(d, tick, qty) ==                               \* never pushes the bid
  [d EXCEPT !.asks     = StoreLevel(@, tick, qty),
            !.best_ask = IF @ = None \/ tick < @ THEN tick ELSE @,
            !.high_ask = IF @ = None \/ tick > @ THEN tick ELSE @]
QuoteAsk(d, tick, qty) ==
  LET better == d.best_ask = None \/ tick < d.best_ask
      pushed == better /\ d.best_bid # None /\ d.best_bid >= tick
  IN  [d EXCEPT !.asks     = StoreLevel(@, tick, qty),
                !.best_ask = IF better THEN tick ELSE @,
                !.best_bid = IF pushed THEN DepthBelow(d, tick) ELSE @,
                !.high_ask = IF @ = None \/ tick > @ THEN tick ELSE @]

MutUpdateBid(d, tick, qty) == QuoteBid(d, tick, qty)       \* zero is quoted
UpdateBid(d, tick, qty) == IF qty = 0 THEN WithdrawBid(d, tick)
                                      ELSE QuoteBid(d, tick, qty)
UpdateAsk(d, tick, qty) == IF qty = 0 THEN WithdrawAsk(d, tick)
                                      ELSE QuoteAsk(d, tick, qty)

\* apply_row: the bid side first, then the ask side; a side whose price is
\* unusable leaves the book as it is.
ApplyBid(d, row) ==
  IF row.bid_px <= 0 THEN d
  ELSE LET tick == PriceTick(row.bid_px)
       IN  UpdateBid(ClearBid(d, tick), tick, row.bid_qty)

ApplyAsk(d, row) ==
  IF row.ask_px <= 0 THEN d
  ELSE LET tick == PriceTick(row.ask_px)
       IN  UpdateAsk(ClearAsk(d, tick), tick, row.ask_qty)

MutApplyRow(d, row) == ApplyBid(ApplyAsk(d, row), row)     \* ask side first
ApplyRow(d, row) == ApplyAsk(ApplyBid(d, row), row)

ViewOf(d, row, ts) ==
  [bid_px   |-> IF d.best_bid = None THEN NaN ELSE d.best_bid * TickSize,
   ask_px   |-> IF d.best_ask = None THEN NaN ELSE d.best_ask * TickSize,
   bid_qty  |-> QtyAt(d.bids, d.best_bid),
   ask_qty  |-> QtyAt(d.asks, d.best_ask),
   exch_ts  |-> row.exch_ts,
   local_ts |-> ts,
   valid    |-> d.best_bid # None /\ d.best_ask # None]

-----------------------------------------------------------------------------
STATUS_NEW     == "NEW"
STATUS_EXPIRED == "EXPIRED"
STATUS_FILLED  == "FILLED"
BUY     == 1
SELL    == -1
TIF_FOK == 2
TIF_IOC == 3

CrossingPrice(side, view) == IF side = BUY THEN view.ask_px ELSE view.bid_px

Crosses(side, px, view) ==
  LET touch == CrossingPrice(side, view)
  IN  /\ view.valid
      /\ touch > 0
      /\ px # NaN
      /\ IF side = BUY THEN px >= touch ELSE px <= touch

\* match_immediate: all or nothing at the opposite best, whatever quantity the
\* book shows and whichever of FOK and IOC was asked for.
MatchImmediate(side, px, qty, view) ==
  IF Crosses(side, px, view)
  THEN [status |-> STATUS_FILLED, exec_price |-> CrossingPrice(side, view),
        exec_qty |-> qty, leaves_qty |-> 0]
  ELSE [status |-> STATUS_EXPIRED, exec_price |-> 0, exec_qty |-> 0, leaves_qty |-> 0]

-----------------------------------------------------------------------------
(* What a book looks like.                                                 *)
Levels(f) == DOMAIN f \subseteq Nat /\ \A t \in DOMAIN f : f[t] \in Nat \ {0}

DepthOK(d) == /\ d = [bids |-> d.bids, asks |-> d.asks,
                      best_bid |-> d.best_bid, best_ask |-> d.best_ask,
                      low_bid |-> d.low_bid, high_ask |-> d.high_ask]
              /\ d.bids = [t \in DOMAIN d.bids |-> d.bids[t]]
              /\ d.asks = [t \in DOMAIN d.asks |-> d.asks[t]]
              /\ Levels(d.bids) /\ Levels(d.asks)
              /\ {d.best_bid, d.best_ask, d.low_bid, d.high_ask} \subseteq Nat \cup {None}

BidBacked(d) == d.best_bid # None => /\ d.best_bid \in DOMAIN d.bids
                                     /\ d.low_bid # None
                                     /\ d.low_bid <= d.best_bid
AskBacked(d) == d.best_ask # None => /\ d.best_ask \in DOMAIN d.asks
                                     /\ d.high_ask # None
                                     /\ d.best_ask <= d.high_ask

BookUncrossed(d) == d.best_bid # None /\ d.best_ask # None => d.best_bid < d.best_ask
=============================================================================
