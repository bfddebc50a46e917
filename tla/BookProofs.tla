----------------------------- MODULE BookProofs -----------------------------
(***************************************************************************)
(* The properties of BookReplay, for every tick size, prices, quantities   *)
(* and history of rows.                                                    *)
(***************************************************************************)
EXTENDS BookReplay, BookLemmas

\* Well-formed and backed, whatever the rows: the inductive invariant.
Sound == SoundDepth(depth) /\ row \in BboRows \cup {NoRow} /\ view.valid \in BOOLEAN

LEMMA RowFields ==
  ASSUME NEW r \in BboRows
  PROVE  /\ r.bid_px \in Nat /\ r.bid_qty \in Nat
         /\ r.ask_px \in Nat /\ r.ask_qty \in Nat
  <1>1. /\ r.bid_px \in Prices \cup {0} /\ r.ask_px \in Prices \cup {0}
        /\ r.bid_qty \in Quantities /\ r.ask_qty \in Quantities
    BY DEF BboRows
  <1>2. Prices \cup {0} \subseteq Nat /\ Quantities \subseteq Nat
    BY PricesAssumption, QuantitiesAssumption
  <1> HIDE DEF BboRows
  <1> QED BY <1>1, <1>2

LEMMA SoundInit == Init => Sound
  BY EmptyDepthSound DEF Init, Sound, DefaultView

LEMMA SoundNext == Sound /\ [Next]_vars => Sound'
  <1> SUFFICES ASSUME Sound, [Next]_vars PROVE Sound'
    OBVIOUS
  <1>1. CASE UNCHANGED vars
    BY <1>1 DEF vars, Sound
  <1>2. ASSUME NEW r \in BboRows, Apply(r) PROVE Sound'
    <2>1. SoundDepth(ApplyRow(depth, r))
      BY RowFields, ApplyRowSound DEF Sound
    <2>2. view'.valid \in BOOLEAN
      BY <1>2 DEF Apply, ViewOf
    <2> QED BY <1>2, <2>1, <2>2 DEF Apply, Sound
  <1> QED BY <1>1, <1>2 DEF Next

\* The types hold and both bests are always levels inside their windows, even
\* with rows that withdraw prices.  Quantities are naturals: the null or NaN one
\* that a nullable column of a foreign file could hand over (arrow_reader.py:71)
\* is assumed away.
THEOREM BookSound == Spec => [](TypeOK /\ BestBacked)
  <1>1. Sound => TypeOK /\ BestBacked
    BY DEF Sound, TypeOK, BestBacked, SoundDepth
  <1> QED BY <1>1, SoundInit, SoundNext, PTL DEF Spec

-----------------------------------------------------------------------------
\* What one row of positive quantities leaves behind, with the view taken of it.
Shown == /\ Uncrossed
         /\ SnapshotShown
         /\ LastSideWins

LEMMA RowShown ==
  ASSUME 0 \notin Quantities, Sound, Uncrossed, NEW r \in BboRows, Apply(r)
  PROVE  Shown'
  <1> DEFINE b == ApplyBid(depth, r)
             e == ApplyAsk(b, r)
             bt == PriceTick(r.bid_px)
             at == PriceTick(r.ask_px)
  <1>1. /\ r.bid_px \in Nat /\ r.bid_qty \in Nat \ {0}
        /\ r.ask_px \in Nat /\ r.ask_qty \in Nat \ {0}
        /\ bt \in Nat /\ at \in Nat
    <2>1. r.bid_qty # 0 /\ r.ask_qty # 0
      BY DEF BboRows
    <2> QED BY <2>1, RowFields, PriceTickType
  <1>2. row' = r /\ depth' = e /\ view' = ViewOf(e, r, 0)
    BY DEF Apply, ApplyRow
  <1>3. /\ SoundDepth(b)
        /\ r.bid_px > 0 => /\ b.best_bid = bt
                           /\ b.bids[bt] = r.bid_qty
                           /\ b.best_ask = None \/ b.best_ask > bt
    BY <1>1, ApplyBidSound DEF Sound
  <1>4. r.bid_px = 0 => b = depth
    BY DEF ApplyBid
  <1> HIDE DEF b
  <1>5. /\ SoundDepth(e)
        /\ r.ask_px > 0 => /\ e.best_ask = at
                           /\ e.asks[at] = r.ask_qty
                           /\ e.bids = b.bids
                           /\ e.best_bid = None \/ e.best_bid < at
                           /\ \/ e.best_bid = b.best_bid
                              \/ b.best_bid # None /\ b.best_bid >= at
    BY <1>1, <1>3, ApplyAskSound
  <1>6. r.ask_px = 0 => e = b
    BY DEF ApplyAsk
  <1> HIDE DEF e, bt, at
  <1>7. /\ {b.best_bid, b.best_ask, e.best_bid, e.best_ask} \subseteq Tick
        /\ e.best_bid # None => e.best_bid \in DOMAIN e.bids
        /\ e.best_ask # None => e.best_ask \in DOMAIN e.asks
    BY <1>3, <1>5 DEF SoundDepth, DepthOK, Tick, BidBacked, AskBacked
  <1>8. BookUncrossed(e)
    <2>1. BookUncrossed(b)
      BY <1>1, <1>3, <1>4, <1>7 DEF Uncrossed, BookUncrossed, Tick, None
    <2> QED BY <1>1, <1>5, <1>6, <1>7, <2>1 DEF BookUncrossed, Tick, None
  <1>9. ASSUME r.bid_px > 0, r.ask_px > 0
        PROVE  /\ view'.ask_px = at * TickSize /\ view'.ask_qty = r.ask_qty
               /\ bt < at => /\ view'.valid
                             /\ view'.bid_px = bt * TickSize
                             /\ view'.bid_qty = r.bid_qty
               /\ view'.bid_px < at * TickSize
    <2>1. /\ e.best_ask = at /\ e.best_ask # None /\ at \in DOMAIN e.asks
          /\ e.asks[at] = r.ask_qty
      BY <1>1, <1>5, <1>7, <1>9 DEF None
    <2>2. view'.ask_px = at * TickSize /\ view'.ask_qty = r.ask_qty
      BY <1>2, <2>1 DEF ViewOf, QtyAt
    <2>3. ASSUME bt < at
          PROVE  view'.valid /\ view'.bid_px = bt * TickSize /\ view'.bid_qty = r.bid_qty
      <3>1. e.best_bid = bt /\ bt # None
        BY <1>1, <1>3, <1>5, <1>9, <2>3 DEF None
      <3>2. bt \in DOMAIN e.bids /\ e.bids[bt] = r.bid_qty
        BY <1>3, <1>5, <1>7, <1>9, <3>1
      <3> QED BY <1>2, <2>1, <3>1, <3>2 DEF ViewOf, QtyAt
    <2>4. view'.bid_px < at * TickSize
      <3>1. view'.bid_px = IF e.best_bid = None THEN NaN ELSE e.best_bid * TickSize
        BY <1>2 DEF ViewOf
      <3>2. 0 <= at * TickSize
        BY <1>1, TickSizeAssumption
      <3>3. e.best_bid # None => e.best_bid * TickSize < at * TickSize
        BY <1>1, <1>5, <1>7, <1>9, TickSizeAssumption DEF Tick, None
      <3> QED BY <3>1, <3>2, <3>3, <1>1, <1>7, TickSizeAssumption DEF NaN, Tick, None
    <2> QED BY <2>2, <2>3, <2>4
  <1>10. Uncrossed'
    BY <1>2, <1>8 DEF Uncrossed
  <1>11. row'.bid_px = r.bid_px /\ row'.ask_px = r.ask_px
         /\ row'.bid_qty = r.bid_qty /\ row'.ask_qty = r.ask_qty
         /\ BidTick' = bt /\ AskTick' = at
    BY <1>2 DEF BidTick, AskTick, bt, at
  <1>12. SnapshotShown'
    BY <1>9, <1>11 DEF SnapshotShown, TwoSided
  <1>13. LastSideWins'
    BY <1>9, <1>11 DEF LastSideWins, TwoSided
  <1> QED BY <1>10, <1>12, <1>13 DEF Shown

\* With positive quantities, as in every compact partition, the book is never
\* locked or crossed, a proper snapshot is shown as it came, and in a locked or
\* crossed one the ask wins.
THEOREM BookShowsRows ==
  ASSUME 0 \notin Quantities
  PROVE  Spec => [](Uncrossed /\ SnapshotShown /\ LastSideWins)
  <1>1. Init => Shown
    BY DEF Init, Shown, Uncrossed, BookUncrossed, SnapshotShown, LastSideWins,
           TwoSided, EmptyDepth, NoRow
  <1>2. Sound /\ Shown /\ [Next]_vars => Shown'
    <2> SUFFICES ASSUME Sound, Shown, [Next]_vars PROVE Shown'
      OBVIOUS
    <2>1. CASE UNCHANGED vars
      BY <2>1 DEF vars, Shown, Uncrossed, SnapshotShown, LastSideWins, TwoSided, BidTick, AskTick
    <2>2. ASSUME NEW r \in BboRows, Apply(r) PROVE Shown'
      BY <2>2, RowShown DEF Shown
    <2> QED BY <2>1, <2>2 DEF Next
  <1>3. Shown => Uncrossed /\ SnapshotShown /\ LastSideWins
    BY DEF Shown
  <1> QED BY <1>1, <1>2, <1>3, SoundInit, SoundNext, PTL DEF Spec

\* The parts of it, each under its own name.
THEOREM BookTypes == Spec => []TypeOK
  BY BookSound, PTL

\* A proper snapshot is shown as it came.
THEOREM BookShowsSnapshots ==
  ASSUME 0 \notin Quantities
  PROVE  Spec => []SnapshotShown
  BY BookShowsRows, PTL

\* In a locked or crossed row the ask wins.
THEOREM BookLastSideWins ==
  ASSUME 0 \notin Quantities
  PROVE  Spec => []LastSideWins
  BY BookShowsRows, PTL
-----------------------------------------------------------------------------
\* Any row's effect on the bids: a withdrawn one is gone before the asks come.
LEMMA BidWithdrawn ==
  ASSUME Sound, NEW r \in BboRows, r.bid_px > 0, r.bid_qty = 0
  PROVE  LET b == ApplyBid(depth, r)
             tick == PriceTick(r.bid_px)
         IN  /\ SoundDepth(b) /\ tick \notin DOMAIN b.bids
             /\ b.best_bid # None => b.best_bid < tick
  <1> DEFINE tick == PriceTick(r.bid_px)
             c == ClearBid(depth, tick)
  <1>1. r.bid_px \in Nat /\ tick \in Nat
    BY RowFields, PriceTickType
  <1>2. ApplyBid(depth, r) = WithdrawBid(c, tick)
    BY <1>1 DEF ApplyBid, UpdateBid
  <1> HIDE DEF tick
  <1>3. SoundDepth(c) /\ (c.best_bid # None => c.best_bid < tick)
    BY <1>1, ClearBidSound DEF Sound
  <1> HIDE DEF c
  <1>4. c.best_bid # tick
    BY <1>1, <1>3 DEF None, SoundDepth, DepthOK
  <1>5. SoundDepth(WithdrawBid(c, tick)) /\ WithdrawBid(c, tick).best_bid = c.best_bid
    BY <1>1, <1>3, <1>4, WithdrawBidSound
  <1>6. tick \notin DOMAIN WithdrawBid(c, tick).bids
    BY <1>3, <1>4 DEF WithdrawBid, DropLevels, Restrict, SoundDepth, DepthOK
  <1> QED BY <1>2, <1>3, <1>5, <1>6 DEF tick

\* The ask side never adds a bid nor raises the best one, and withdraws alike.
LEMMA AskWithdrawn ==
  ASSUME NEW b, SoundDepth(b), NEW r \in BboRows
  PROVE  LET e == ApplyAsk(b, r)
             tick == PriceTick(r.ask_px)
         IN  /\ SoundDepth(e) /\ e.bids = b.bids
             /\ e.best_bid = b.best_bid \/ e.best_bid = None
                \/ (b.best_bid # None /\ e.best_bid < b.best_bid)
             /\ r.ask_px > 0 /\ r.ask_qty = 0 => /\ tick \notin DOMAIN e.asks
                                                 /\ e.best_ask # None => e.best_ask > tick
  <1> DEFINE tick == PriceTick(r.ask_px)
             a == ClearAsk(b, tick)
             e == ApplyAsk(b, r)
             Goal == /\ SoundDepth(e) /\ e.bids = b.bids
                     /\ e.best_bid = b.best_bid \/ e.best_bid = None
                        \/ (b.best_bid # None /\ e.best_bid < b.best_bid)
                     /\ r.ask_px > 0 /\ r.ask_qty = 0 =>
                          /\ tick \notin DOMAIN e.asks
                          /\ e.best_ask # None => e.best_ask > tick
  <1> SUFFICES Goal
    OBVIOUS
  <1>1. r.ask_px \in Nat /\ r.ask_qty \in Nat /\ tick \in Nat
    BY RowFields, PriceTickType
  <1>2. CASE r.ask_px = 0
    BY <1>2 DEF ApplyAsk
  <1>3. CASE r.ask_px > 0
    <2>1. e = UpdateAsk(a, tick, r.ask_qty)
      BY <1>1, <1>3 DEF ApplyAsk
    <2> HIDE DEF tick, e
    <2>2. /\ SoundDepth(a) /\ (a.best_ask # None => tick < a.best_ask)
          /\ a.best_bid = b.best_bid /\ a.bids = b.bids
      BY <1>1, ClearAskSound
    <2> HIDE DEF a
    <2>3. CASE r.ask_qty = 0
      <3>1. e = WithdrawAsk(a, tick) /\ a.best_ask # tick
        BY <1>1, <2>1, <2>2, <2>3 DEF UpdateAsk, None, SoundDepth, DepthOK
      <3>2. SoundDepth(e) /\ e.best_bid = a.best_bid /\ e.best_ask = a.best_ask
        BY <1>1, <2>2, <3>1, WithdrawAskSound
      <3>3. tick \notin DOMAIN e.asks /\ e.bids = a.bids
        BY <2>2, <3>1 DEF WithdrawAsk, DropLevels, Restrict, SoundDepth, DepthOK
      <3> QED BY <1>1, <2>2, <2>3, <3>2, <3>3
    <2>4. CASE r.ask_qty > 0
      <3>1. e = QuoteAsk(a, tick, r.ask_qty)
        BY <1>1, <2>1, <2>4 DEF UpdateAsk
      <3>2. /\ SoundDepth(e) /\ e.bids = a.bids
            /\ e.best_bid = None \/ e.best_bid < tick
            /\ \/ e.best_bid = a.best_bid
               \/ a.best_bid # None /\ a.best_bid >= tick
        BY <1>1, <2>2, <2>4, <3>1, QuoteAskSound
      <3>3. e.best_bid \in Int /\ a.best_bid \in Int
        BY <2>2, <3>2 DEF SoundDepth, DepthOK, None
      <3> QED BY <1>1, <2>2, <2>4, <3>2, <3>3
    <2> QED BY <1>1, <2>3, <2>4
  <1> QED BY <1>1, <1>2, <1>3

\* A quote that is taken off the book is not shown, whatever was on it before
\* and whatever the other side of the row does.
THEOREM BookShowsNoWithdrawn == Spec => []WithdrawnNotShown
  <1>1. Init => WithdrawnNotShown
    BY DEF Init, WithdrawnNotShown, NoRow
  <1>2. Sound /\ WithdrawnNotShown /\ [Next]_vars => WithdrawnNotShown'
    <2> SUFFICES ASSUME Sound, WithdrawnNotShown, [Next]_vars PROVE WithdrawnNotShown'
      OBVIOUS
    <2>1. CASE UNCHANGED vars
      BY <2>1 DEF vars, WithdrawnNotShown, BidTick, AskTick
    <2>2. ASSUME NEW r \in BboRows, Apply(r) PROVE WithdrawnNotShown'
      <3> DEFINE b == ApplyBid(depth, r)
                 e == ApplyAsk(b, r)
                 bt == PriceTick(r.bid_px)
                 at == PriceTick(r.ask_px)
      <3>1. row' = r /\ depth' = e
        BY <2>2 DEF Apply, ApplyRow
      <3>2. bt \in Nat /\ at \in Nat
        BY RowFields, PriceTickType
      <3>3. /\ SoundDepth(b)
            /\ r.bid_px > 0 /\ r.bid_qty = 0 => /\ bt \notin DOMAIN b.bids
                                                /\ b.best_bid # None => b.best_bid < bt
        <4>1. SoundDepth(b)
          BY RowFields, ApplyBidSound DEF Sound
        <4> QED BY <4>1, BidWithdrawn
      <3>4. BidTick' = bt /\ AskTick' = at
        BY <3>1 DEF BidTick, AskTick
      <3> HIDE DEF b
      <3>5. /\ e.bids = b.bids
            /\ e.best_bid = b.best_bid \/ e.best_bid = None
               \/ (b.best_bid # None /\ e.best_bid < b.best_bid)
            /\ SoundDepth(e)
            /\ r.ask_px > 0 /\ r.ask_qty = 0 => /\ at \notin DOMAIN e.asks
                                                /\ e.best_ask # None => e.best_ask > at
        BY <3>3, AskWithdrawn
      <3> HIDE DEF e, bt, at
      <3>6. b.best_bid \in Int /\ e.best_bid \in Int
        BY <3>3, <3>5 DEF SoundDepth, DepthOK, None
      <3>7. r.bid_px > 0 /\ r.bid_qty = 0 => bt \notin DOMAIN e.bids /\ e.best_bid < bt
        BY <3>2, <3>3, <3>5, <3>6 DEF None
      <3> QED BY <3>1, <3>4, <3>5, <3>7 DEF WithdrawnNotShown
    <2> QED BY <2>1, <2>2 DEF Next
  <1> QED BY <1>1, <1>2, SoundInit, SoundNext, PTL DEF Spec
-----------------------------------------------------------------------------
\* What a row of one side does to the other.
LEMMA BidPushes ==
  ASSUME NEW b, SoundDepth(b), NEW r \in BboRows
  PROVE  LET e    == ApplyBid(b, r)
             tick == PriceTick(r.bid_px)
         IN  /\ SoundDepth(e)
             /\ r.bid_px = 0 => e = b
             /\ r.bid_px > 0 => \/ e.best_ask = b.best_ask
                                \/ /\ b.best_ask # None
                                   /\ b.best_ask <= tick
                                   /\ e.best_ask = None \/ e.best_ask > tick
  <1> DEFINE tick == PriceTick(r.bid_px)
             a == ClearBid(b, tick)
             e == ApplyBid(b, r)
  <1>1. r.bid_px \in Nat /\ r.bid_qty \in Nat /\ tick \in Nat
    BY RowFields, PriceTickType
  <1>2. SoundDepth(e)
    BY RowFields, ApplyBidSound
  <1>3. r.bid_px = 0 => e = b
    BY DEF ApplyBid
  <1>4. ASSUME r.bid_px > 0
        PROVE  \/ e.best_ask = b.best_ask
               \/ /\ b.best_ask # None /\ b.best_ask <= tick
                  /\ e.best_ask = None \/ e.best_ask > tick
    <2>1. e = UpdateBid(a, tick, r.bid_qty)
      BY <1>1, <1>4 DEF ApplyBid
    <2> HIDE DEF tick, e
    <2>2. /\ SoundDepth(a) /\ (a.best_bid # None => a.best_bid < tick)
          /\ a.best_ask = b.best_ask
      BY <1>1, ClearBidSound
    <2> HIDE DEF a
    <2>3. CASE r.bid_qty = 0
      <3>1. e = WithdrawBid(a, tick) /\ a.best_bid # tick
        BY <1>1, <2>1, <2>2, <2>3 DEF UpdateBid, None, SoundDepth, DepthOK
      <3> QED BY <1>1, <2>2, <3>1, WithdrawBidSound
    <2>4. CASE r.bid_qty > 0
      <3>1. e = QuoteBid(a, tick, r.bid_qty)
        BY <1>1, <2>1, <2>4 DEF UpdateBid
      <3>2. /\ e.best_ask = None \/ e.best_ask > tick
            /\ \/ e.best_ask = a.best_ask
               \/ a.best_ask # None /\ a.best_ask <= tick
        BY <1>1, <2>2, <2>4, <3>1, QuoteBidSound
      <3> QED BY <2>2, <3>2
    <2> QED BY <1>1, <2>3, <2>4
  <1> QED BY <1>2, <1>3, <1>4

LEMMA AskPushes ==
  ASSUME NEW b, SoundDepth(b), NEW r \in BboRows
  PROVE  LET e    == ApplyAsk(b, r)
             tick == PriceTick(r.ask_px)
         IN  /\ SoundDepth(e)
             /\ r.ask_px = 0 => e = b
             /\ r.ask_px > 0 => \/ e.best_bid = b.best_bid
                                \/ /\ b.best_bid # None
                                   /\ b.best_bid >= tick
                                   /\ e.best_bid = None \/ e.best_bid < tick
  <1> DEFINE tick == PriceTick(r.ask_px)
             a == ClearAsk(b, tick)
             e == ApplyAsk(b, r)
  <1>1. r.ask_px \in Nat /\ r.ask_qty \in Nat /\ tick \in Nat
    BY RowFields, PriceTickType
  <1>2. SoundDepth(e)
    BY RowFields, ApplyAskSound
  <1>3. r.ask_px = 0 => e = b
    BY DEF ApplyAsk
  <1>4. ASSUME r.ask_px > 0
        PROVE  \/ e.best_bid = b.best_bid
               \/ /\ b.best_bid # None /\ b.best_bid >= tick
                  /\ e.best_bid = None \/ e.best_bid < tick
    <2>1. e = UpdateAsk(a, tick, r.ask_qty)
      BY <1>1, <1>4 DEF ApplyAsk
    <2> HIDE DEF tick, e
    <2>2. /\ SoundDepth(a) /\ (a.best_ask # None => a.best_ask > tick)
          /\ a.best_bid = b.best_bid
      BY <1>1, ClearAskSound
    <2> HIDE DEF a
    <2>3. CASE r.ask_qty = 0
      <3>1. e = WithdrawAsk(a, tick) /\ a.best_ask # tick
        BY <1>1, <2>1, <2>2, <2>3 DEF UpdateAsk, None, SoundDepth, DepthOK
      <3> QED BY <1>1, <2>2, <3>1, WithdrawAskSound
    <2>4. CASE r.ask_qty > 0
      <3>1. e = QuoteAsk(a, tick, r.ask_qty)
        BY <1>1, <2>1, <2>4 DEF UpdateAsk
      <3>2. /\ e.best_bid = None \/ e.best_bid < tick
            /\ \/ e.best_bid = a.best_bid
               \/ a.best_bid # None /\ a.best_bid >= tick
        BY <1>1, <2>2, <2>4, <3>1, QuoteAskSound
      <3> QED BY <2>2, <3>2
    <2> QED BY <1>1, <2>3, <2>4
  <1> QED BY <1>2, <1>3, <1>4

\* A one-sided row, a withdrawal too, leaves the other best alone or pushes it
\* beyond the quote: it never draws it nearer, whatever levels lie behind.
THEOREM BookPushesAway == Spec => OneSidedPushesAway
  <1> DEFINE Pushed ==
        /\ row'.bid_px > 0 /\ row'.ask_px = 0 =>
              \/ depth'.best_ask = depth.best_ask
              \/ /\ depth.best_ask # None
                 /\ depth.best_ask <= BidTick'
                 /\ depth'.best_ask = None \/ depth'.best_ask > BidTick'
        /\ row'.ask_px > 0 /\ row'.bid_px = 0 =>
              \/ depth'.best_bid = depth.best_bid
              \/ /\ depth.best_bid # None
                 /\ depth.best_bid >= AskTick'
                 /\ depth'.best_bid = None \/ depth'.best_bid < AskTick'
  <1>1. Sound /\ [Next]_vars => [Pushed]_vars
    <2> SUFFICES ASSUME Sound, NEW r \in BboRows, Apply(r) PROVE Pushed
      BY DEF Next
    <2> DEFINE b == ApplyBid(depth, r)
               e == ApplyAsk(b, r)
               bt == PriceTick(r.bid_px)
               at == PriceTick(r.ask_px)
    <2>1. row' = r /\ depth' = e /\ BidTick' = bt /\ AskTick' = at
      BY DEF Apply, ApplyRow, BidTick, AskTick
    <2>2. /\ SoundDepth(b)
          /\ r.bid_px = 0 => b = depth
          /\ r.bid_px > 0 => \/ b.best_ask = depth.best_ask
                             \/ /\ depth.best_ask # None /\ depth.best_ask <= bt
                                /\ b.best_ask = None \/ b.best_ask > bt
      BY BidPushes DEF Sound
    <2> HIDE DEF b
    <2>3. /\ r.ask_px = 0 => e = b
          /\ r.ask_px > 0 => \/ e.best_bid = b.best_bid
                             \/ /\ b.best_bid # None /\ b.best_bid >= at
                                /\ e.best_bid = None \/ e.best_bid < at
      BY <2>2, AskPushes
    <2> HIDE DEF e, bt, at
    <2> QED BY <2>1, <2>2, <2>3
  <1> QED BY <1>1, SoundInit, SoundNext, PTL DEF Spec, OneSidedPushesAway
=============================================================================
