----------------------------- MODULE BookReplay -----------------------------
(***************************************************************************)
(* One DepthState fed with any sequence of BBO rows: the history-dependent *)
(* part of book.rs on its own.  Rows come from a compact partition; each   *)
(* side is quoted (a usable price with a quantity of Quantities) or absent *)
(* (price 0, which stands for the NaN the cache writes).                   *)
(***************************************************************************)
EXTENDS Book

CONSTANTS
  Prices,       \* the usable prices rows quote
  Quantities    \* the quantities they quote with them

ASSUME PricesAssumption     == Prices \subseteq Nat \ {0}
ASSUME QuantitiesAssumption == Quantities \subseteq Nat

VARIABLES
  depth,        \* the DepthState
  row,          \* the last row applied, NoRow before the first
  view          \* the BboView apply_row returned for it

vars == <<depth, row, view>>

BboRows == [exch_ts : {0}, bid_px : Prices \cup {0}, bid_qty : Quantities,
            ask_px : Prices \cup {0}, ask_qty : Quantities]

NoRow == [exch_ts |-> 0, bid_px |-> 0, bid_qty |-> 0, ask_px |-> 0, ask_qty |-> 0]

Init == /\ depth = EmptyDepth
        /\ row = NoRow
        /\ view = DefaultView

Apply(r) == /\ row' = r
            /\ depth' = ApplyRow(depth, r)
            /\ view' = ViewOf(depth', r, 0)

Next == \E r \in BboRows : Apply(r)

Spec == Init /\ [][Next]_vars

-----------------------------------------------------------------------------
\* Types of the book, the row and the view.
TypeOK == /\ DepthOK(depth)
          /\ row \in BboRows \cup {NoRow}
          /\ view.valid \in BOOLEAN

\* A best is a level of its side and lies in the window [low_bid, high_ask]
\* that every later search is confined to; it is what a quote, a push from the
\* other side and a withdrawal, in any order, must leave behind.
BestBacked == BidBacked(depth) /\ AskBacked(depth)

\* The two bests never lock or cross, whatever locked, crossed or one-sided
\* rows the book has seen (update_bid and update_ask push the other side).
Uncrossed == BookUncrossed(depth)

BidTick == PriceTick(row.bid_px)
AskTick == PriceTick(row.ask_px)
TwoSided == row.bid_px > 0 /\ row.ask_px > 0

\* A two-sided row whose rounded prices do not lock is shown exactly as it
\* came, however stale the levels left by earlier rows.
SnapshotShown ==
  TwoSided /\ BidTick < AskTick =>
    /\ view.valid
    /\ view.bid_px = BidTick * TickSize /\ view.bid_qty = row.bid_qty
    /\ view.ask_px = AskTick * TickSize /\ view.ask_qty = row.ask_qty

\* In a locked or crossed row the ask, applied last, wins: it is shown, and the
\* row's own bid is not.
LastSideWins ==
  TwoSided /\ BidTick >= AskTick =>
    /\ view.ask_px = AskTick * TickSize /\ view.ask_qty = row.ask_qty
    /\ view.bid_px < AskTick * TickSize

\* A row that quotes one side changes the other best only by pushing it away
\* from the quote, never towards it, and never leaves it locked.
OneSidedPushesAway ==
  [][/\ row'.bid_px > 0 /\ row'.ask_px = 0 =>
          \/ depth'.best_ask = depth.best_ask
          \/ /\ depth.best_ask # None
             /\ depth.best_ask <= BidTick'
             /\ depth'.best_ask = None \/ depth'.best_ask > BidTick'
     /\ row'.ask_px > 0 /\ row'.bid_px = 0 =>
          \/ depth'.best_bid = depth.best_bid
          \/ /\ depth.best_bid # None
             /\ depth.best_bid >= AskTick'
             /\ depth'.best_bid = None \/ depth'.best_bid < AskTick']_vars

\* A quantity of zero takes the quote off the book: its level is gone and the
\* best bid lies below it, the best ask above.
WithdrawnNotShown ==
  /\ row.bid_px > 0 /\ row.bid_qty = 0 =>
       /\ BidTick \notin DOMAIN depth.bids
       /\ depth.best_bid < BidTick
  /\ row.ask_px > 0 /\ row.ask_qty = 0 =>
       /\ AskTick \notin DOMAIN depth.asks
       /\ depth.best_ask = None \/ depth.best_ask > AskTick

\* normalize.py:71-72 calls NaN the representation of an empty side, and
\* models.py:14-15 a valid view a usable two-sided quote: after a row with an
\* empty side no view is valid.
EmptySideNotValid ==
  row # NoRow /\ (row.bid_px = 0 \/ row.ask_px = 0) => ~view.valid
=============================================================================
