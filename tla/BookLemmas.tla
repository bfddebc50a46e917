----------------------------- MODULE BookLemmas -----------------------------
(***************************************************************************)
(* Facts about the operators of Book, for every tick size, price and       *)
(* quantity: searches find levels of the book, and applying a row keeps    *)
(* the book well-formed, its bests backed and, for positive quantities,    *)
(* uncrossed.                                                              *)
(***************************************************************************)
EXTENDS Book, FiniteSetTheorems, TLAPS

\* A non-empty set of integers in an interval has a greatest element.
LEMMA GreatestExists ==
  ASSUME NEW lo \in Int, NEW hi \in Int, NEW S, S \subseteq lo .. hi, S # {}
  PROVE  \E m \in S : \A n \in S : n <= m
  <1> DEFINE Above(m) == {n \in S : n > m}
             T == {Above(m) : m \in S}
  <1>1. S \subseteq Int
    OBVIOUS
  <1>2. IsWellFoundedOn(StrictSubsetOrdering(S), SUBSET S)
    <2>1. IsFiniteSet(S)
      BY FS_Interval, FS_Subset
    <2> QED BY <2>1, FS_StrictSubsetOrderingWellFounded, FS_FiniteSubsetsOfFinite
  <1>3. T \subseteq SUBSET S /\ T # {}
    OBVIOUS
  <1>4. \E x \in T : \A y \in T : <<y, x>> \notin StrictSubsetOrdering(S)
    <2> HIDE DEF T
    <2> QED BY <1>2, <1>3, WFMin
  <1>5. PICK m \in S : \A y \in T : <<y, Above(m)>> \notin StrictSubsetOrdering(S)
    BY <1>4
  <1>6. ASSUME NEW n \in S, n > m PROVE FALSE
    <2>1. Above(n) \subseteq Above(m)
      <3> SUFFICES ASSUME NEW x \in S, x > n PROVE x > m
        OBVIOUS
      <3> QED BY <1>1, <1>6
    <2>2. Above(n) # Above(m)
      BY <1>1, <1>6
    <2>3. <<Above(n), Above(m)>> \in StrictSubsetOrdering(S)
      <3>1. Above(n) \in SUBSET S /\ Above(m) \in SUBSET S
        OBVIOUS
      <3> HIDE DEF Above
      <3> QED BY <2>1, <2>2, <3>1 DEF StrictSubsetOrdering
    <2> QED BY <2>3, <1>5
  <1> QED BY <1>1, <1>6

\* Max of the community modules, on such a set.
LEMMA MaxIsGreatest ==
  ASSUME NEW lo \in Int, NEW hi \in Int, NEW S, S \subseteq lo .. hi, S # {}
  PROVE  Max(S) \in S /\ \A n \in S : n <= Max(S)
  <1>1. PICK m \in S : \A n \in S : n <= m
    BY GreatestExists
  <1>2. \A n \in S : m >= n
    BY <1>1
  <1>3. Max(S) \in S /\ \A n \in S : Max(S) >= n
    BY <1>2 DEF Max
  <1> QED BY <1>3

\* Min likewise.
LEMMA MinIsLeast ==
  ASSUME NEW lo \in Int, NEW hi \in Int, NEW S, S \subseteq lo .. hi, S # {}
  PROVE  Min(S) \in S /\ \A n \in S : Min(S) <= n
  <1> DEFINE N == {-n : n \in S}
  <1>1. S \subseteq Int
    OBVIOUS
  <1>2. N \subseteq (-hi) .. (-lo) /\ N # {}
    OBVIOUS
  <1>3. PICK m \in N : \A n \in N : n <= m
    <2> HIDE DEF N
    <2>1. -hi \in Int /\ -lo \in Int
      OBVIOUS
    <2> QED BY <1>2, <2>1, GreatestExists
  <1>4. PICK k \in S : m = -k
    OBVIOUS
  <1>5. \A n \in S : k =< n
    <2> SUFFICES ASSUME NEW n \in S PROVE k =< n
      OBVIOUS
    <2>1. -n <= m
      BY <1>3
    <2> QED BY <2>1, <1>1, <1>4
  <1>6. Min(S) \in S /\ \A n \in S : Min(S) =< n
    BY <1>5 DEF Min
  <1> QED BY <1>6

-----------------------------------------------------------------------------
Tick == Nat \cup {None}

\* depth_below finds a level of the window strictly below start, or nothing.
LEMMA DepthBelowFinds ==
  ASSUME NEW d, DepthOK(d), NEW start \in Int
  PROVE  /\ DepthBelow(d, start) \in Tick
         /\ DepthBelow(d, start) # None =>
              /\ DepthBelow(d, start) \in DOMAIN d.bids
              /\ d.low_bid # None
              /\ d.low_bid <= DepthBelow(d, start)
              /\ DepthBelow(d, start) < start
  <1> DEFINE S == {t \in DOMAIN d.bids : d.low_bid <= t /\ t < start}
  <1>1. DOMAIN d.bids \subseteq Nat /\ d.low_bid \in Tick
    BY DEF DepthOK, Levels, Tick
  <1>2. CASE d.low_bid = None \/ S = {}
    BY <1>2 DEF DepthBelow, MaxOrNone, Tick
  <1>3. CASE d.low_bid # None /\ S # {}
    <2>1. S \subseteq d.low_bid .. start /\ d.low_bid \in Int
      BY <1>1, <1>3 DEF Tick, None
    <2>2. Max(S) \in S
      <3> HIDE DEF S
      <3> QED BY <2>1, <1>3, MaxIsGreatest
    <2>3. DepthBelow(d, start) = Max(S)
      BY <1>3 DEF DepthBelow, MaxOrNone
    <2> QED BY <2>2, <2>3, <1>1, <1>3 DEF Tick
  <1> QED BY <1>2, <1>3

\* depth_above finds a level of the window strictly above start, or nothing.
LEMMA DepthAboveFinds ==
  ASSUME NEW d, DepthOK(d), NEW start \in Int
  PROVE  /\ DepthAbove(d, start) \in Tick
         /\ DepthAbove(d, start) # None =>
              /\ DepthAbove(d, start) \in DOMAIN d.asks
              /\ d.high_ask # None
              /\ DepthAbove(d, start) <= d.high_ask
              /\ start < DepthAbove(d, start)
  <1> DEFINE S == {t \in DOMAIN d.asks : start < t /\ t <= d.high_ask}
  <1>1. DOMAIN d.asks \subseteq Nat /\ d.high_ask \in Tick
    BY DEF DepthOK, Levels, Tick
  <1>2. CASE d.high_ask = None \/ S = {}
    BY <1>2 DEF DepthAbove, MinOrNone, Tick
  <1>3. CASE d.high_ask # None /\ S # {}
    <2>1. S \subseteq start .. d.high_ask /\ d.high_ask \in Int
      BY <1>1, <1>3 DEF Tick, None
    <2>2. Min(S) \in S
      <3> HIDE DEF S
      <3> QED BY <2>1, <1>3, MinIsLeast
    <2>3. DepthAbove(d, start) = Min(S)
      BY <1>3 DEF DepthAbove, MinOrNone
    <2> QED BY <2>2, <2>3, <1>1, <1>3 DEF Tick
  <1> QED BY <1>2, <1>3

\* The books the engine builds: well-formed, both bests backed by levels.
SoundDepth(d) == DepthOK(d) /\ BidBacked(d) /\ AskBacked(d)

LEMMA ClearBidSound ==
  ASSUME NEW d, SoundDepth(d), NEW tick \in Nat
  PROVE  /\ SoundDepth(ClearBid(d, tick))
         /\ ClearBid(d, tick).best_bid # None => ClearBid(d, tick).best_bid < tick
         /\ ClearBid(d, tick).best_ask = d.best_ask
  <1> DEFINE kept == IF d.best_bid = None THEN d
                     ELSE [d EXCEPT !.bids = DropLevels(@, tick .. d.best_bid)]
             best == DepthBelow(kept, tick - 1)
  <1>1. /\ DepthOK(kept)
        /\ kept.asks = d.asks /\ kept.best_ask = d.best_ask /\ kept.high_ask = d.high_ask
    BY DEF SoundDepth, DepthOK, DropLevels, Restrict, Levels
  <1>2. /\ best \in Tick
        /\ best # None => /\ best \in DOMAIN kept.bids
                          /\ kept.low_bid # None /\ kept.low_bid <= best /\ best < tick - 1
    <2>1. tick - 1 \in Int
      OBVIOUS
    <2> HIDE DEF kept
    <2> QED BY <1>1, <2>1, DepthBelowFinds
  <1>3. ClearBid(d, tick) = [kept EXCEPT !.best_bid = best,
                                         !.low_bid  = IF best = None THEN None ELSE @]
    BY DEF ClearBid
  <1> DEFINE c == ClearBid(d, tick)
  <1>4. /\ c.bids = kept.bids /\ c.asks = kept.asks /\ c.best_bid = best
        /\ c.best_ask = kept.best_ask /\ c.high_ask = kept.high_ask
        /\ c.low_bid = IF best = None THEN None ELSE kept.low_bid
        /\ c = [bids |-> c.bids, asks |-> c.asks, best_bid |-> c.best_bid,
                best_ask |-> c.best_ask, low_bid |-> c.low_bid, high_ask |-> c.high_ask]
    <2> HIDE DEF kept, best
    <2> QED BY <1>1, <1>3 DEF DepthOK
  <1> HIDE DEF c, kept, best
  <1>5. DepthOK(c)
    BY <1>1, <1>2, <1>4 DEF DepthOK, Tick
  <1>6. BidBacked(c) /\ AskBacked(c)
    BY <1>1, <1>2, <1>4 DEF SoundDepth, BidBacked, AskBacked, Tick
  <1>7. c.best_bid # None => c.best_bid < tick
    BY <1>2, <1>4 DEF Tick, None
  <1> QED BY <1>1, <1>4, <1>5, <1>6, <1>7 DEF SoundDepth, c

LEMMA ClearAskSound ==
  ASSUME NEW d, SoundDepth(d), NEW tick \in Nat
  PROVE  /\ SoundDepth(ClearAsk(d, tick))
         /\ ClearAsk(d, tick).best_ask # None => tick < ClearAsk(d, tick).best_ask
         /\ ClearAsk(d, tick).best_bid = d.best_bid
         /\ ClearAsk(d, tick).bids = d.bids
  <1> DEFINE kept == IF d.best_ask = None THEN d
                     ELSE [d EXCEPT !.asks = DropLevels(@, d.best_ask .. tick)]
             best == DepthAbove(kept, tick + 1)
  <1>1. /\ DepthOK(kept)
        /\ kept.bids = d.bids /\ kept.best_bid = d.best_bid /\ kept.low_bid = d.low_bid
    BY DEF SoundDepth, DepthOK, DropLevels, Restrict, Levels
  <1>2. /\ best \in Tick
        /\ best # None => /\ best \in DOMAIN kept.asks
                          /\ kept.high_ask # None /\ best <= kept.high_ask /\ tick + 1 < best
    <2>1. tick + 1 \in Int
      OBVIOUS
    <2> HIDE DEF kept
    <2> QED BY <1>1, <2>1, DepthAboveFinds
  <1>3. ClearAsk(d, tick) = [kept EXCEPT !.best_ask = best,
                                         !.high_ask = IF best = None THEN None ELSE @]
    BY DEF ClearAsk
  <1> DEFINE c == ClearAsk(d, tick)
  <1>4. /\ c.bids = kept.bids /\ c.asks = kept.asks /\ c.best_ask = best
        /\ c.best_bid = kept.best_bid /\ c.low_bid = kept.low_bid
        /\ c.high_ask = IF best = None THEN None ELSE kept.high_ask
        /\ c = [bids |-> c.bids, asks |-> c.asks, best_bid |-> c.best_bid,
                best_ask |-> c.best_ask, low_bid |-> c.low_bid, high_ask |-> c.high_ask]
    <2> HIDE DEF kept, best
    <2> QED BY <1>1, <1>3 DEF DepthOK
  <1> HIDE DEF c, kept, best
  <1>5. DepthOK(c)
    BY <1>1, <1>2, <1>4 DEF DepthOK, Tick
  <1>6. BidBacked(c) /\ AskBacked(c)
    BY <1>1, <1>2, <1>4 DEF SoundDepth, BidBacked, AskBacked, Tick
  <1>7. c.best_ask # None => tick < c.best_ask
    BY <1>2, <1>4 DEF Tick, None
  <1> QED BY <1>1, <1>4, <1>5, <1>6, <1>7 DEF SoundDepth, c

\* Quoting a bid above the best makes it the best and clears the ask side up to it.
LEMMA QuoteBidSound ==
  ASSUME NEW d, SoundDepth(d), NEW tick \in Nat, NEW qty \in Nat \ {0},
         d.best_bid # None => d.best_bid < tick
  PROVE  LET e == QuoteBid(d, tick, qty)
         IN  /\ SoundDepth(e)
             /\ e.best_bid = tick
             /\ e.bids[tick] = qty
             /\ e.best_ask = None \/ e.best_ask > tick
             /\ \/ e.best_ask = d.best_ask
                \/ d.best_ask # None /\ d.best_ask <= tick
  <1> DEFINE e == QuoteBid(d, tick, qty)
             pushed == d.best_ask # None /\ tick >= d.best_ask
             ask == IF pushed THEN DepthAbove(d, tick) ELSE d.best_ask
             low == IF d.low_bid = None \/ tick < d.low_bid THEN tick ELSE d.low_bid
  <1>1. d.best_bid = None \/ tick > d.best_bid
    BY DEF SoundDepth, DepthOK, None
  <1>2. /\ e.bids = SetLevel(d.bids, tick, qty) /\ e.asks = d.asks
        /\ e.best_bid = tick /\ e.best_ask = ask
        /\ e.low_bid = low /\ e.high_ask = d.high_ask
        /\ e = [bids |-> e.bids, asks |-> e.asks, best_bid |-> e.best_bid,
                best_ask |-> e.best_ask, low_bid |-> e.low_bid, high_ask |-> e.high_ask]
    <2>1. qty > 0
      OBVIOUS
    <2>2. StoreLevel(d.bids, tick, qty) = SetLevel(d.bids, tick, qty)
      BY <2>1 DEF StoreLevel
    <2>3. e = [d EXCEPT !.bids = SetLevel(d.bids, tick, qty), !.best_bid = tick,
                        !.best_ask = ask, !.low_bid = low]
      BY <1>1, <2>2 DEF QuoteBid
    <2>4. DepthOK(d)
      BY DEF SoundDepth
    <2> HIDE DEF e, ask, low
    <2> QED BY <2>3, <2>4 DEF DepthOK
  <1>3. /\ e.bids = [t \in DOMAIN e.bids |-> e.bids[t]]
        /\ Levels(e.bids) /\ tick \in DOMAIN e.bids /\ e.bids[tick] = qty
    <2> HIDE DEF e
    <2> QED BY <1>2 DEF SetLevel, SoundDepth, DepthOK, Levels
  <1>4. /\ ask \in Tick
        /\ ask = None \/ ask > tick
        /\ ask # None => /\ ask \in DOMAIN d.asks
                         /\ d.high_ask # None /\ ask <= d.high_ask
    <2>1. CASE pushed
      <3>1. tick \in Int /\ DepthOK(d)
        BY DEF SoundDepth
      <3> QED BY <2>1, <3>1, DepthAboveFinds DEF Tick, None
    <2>2. CASE ~pushed
      BY <2>2 DEF SoundDepth, DepthOK, AskBacked, Tick, None
    <2> QED BY <2>1, <2>2
  <1>5. low \in Nat /\ low <= tick
    BY DEF SoundDepth, DepthOK, None
  <1> HIDE DEF e, ask, low
  <1>6. DepthOK(e)
    BY <1>2, <1>3, <1>4, <1>5 DEF SoundDepth, DepthOK, Tick
  <1>7. BidBacked(e) /\ AskBacked(e)
    BY <1>2, <1>3, <1>4, <1>5 DEF BidBacked, AskBacked, Tick, None
  <1>8. e.best_ask = d.best_ask \/ (d.best_ask # None /\ d.best_ask <= tick)
    BY <1>2 DEF ask, SoundDepth, DepthOK, None
  <1> QED BY <1>2, <1>3, <1>4, <1>6, <1>7, <1>8 DEF SoundDepth, e

\* Quoting an ask below the best makes it the best and clears the bid side down
\* to it; a bid below it is left alone.
LEMMA QuoteAskSound ==
  ASSUME NEW d, SoundDepth(d), NEW tick \in Nat, NEW qty \in Nat \ {0},
         d.best_ask # None => tick < d.best_ask
  PROVE  LET e == QuoteAsk(d, tick, qty)
         IN  /\ SoundDepth(e)
             /\ e.best_ask = tick
             /\ e.asks[tick] = qty
             /\ e.bids = d.bids
             /\ e.best_bid = None \/ e.best_bid < tick
             /\ \/ e.best_bid = d.best_bid
                \/ d.best_bid # None /\ d.best_bid >= tick
  <1> DEFINE e == QuoteAsk(d, tick, qty)
             pushed == d.best_bid # None /\ d.best_bid >= tick
             bid == IF pushed THEN DepthBelow(d, tick) ELSE d.best_bid
             high == IF d.high_ask = None \/ tick > d.high_ask THEN tick ELSE d.high_ask
  <1>1. d.best_ask = None \/ tick < d.best_ask
    OBVIOUS
  <1>2. /\ e.asks = SetLevel(d.asks, tick, qty) /\ e.bids = d.bids
        /\ e.best_ask = tick /\ e.best_bid = bid
        /\ e.high_ask = high /\ e.low_bid = d.low_bid
        /\ e = [bids |-> e.bids, asks |-> e.asks, best_bid |-> e.best_bid,
                best_ask |-> e.best_ask, low_bid |-> e.low_bid, high_ask |-> e.high_ask]
    <2>1. qty > 0
      OBVIOUS
    <2>2. StoreLevel(d.asks, tick, qty) = SetLevel(d.asks, tick, qty)
      BY <2>1 DEF StoreLevel
    <2>3. e = [d EXCEPT !.asks = SetLevel(d.asks, tick, qty), !.best_ask = tick,
                        !.best_bid = bid, !.high_ask = high]
      BY <1>1, <2>2 DEF QuoteAsk
    <2>4. DepthOK(d)
      BY DEF SoundDepth
    <2> HIDE DEF e, bid, high
    <2> QED BY <2>3, <2>4 DEF DepthOK
  <1>3. /\ e.asks = [t \in DOMAIN e.asks |-> e.asks[t]]
        /\ Levels(e.asks) /\ tick \in DOMAIN e.asks /\ e.asks[tick] = qty
    <2> HIDE DEF e
    <2> QED BY <1>2 DEF SetLevel, SoundDepth, DepthOK, Levels
  <1>4. /\ bid \in Tick
        /\ bid = None \/ bid < tick
        /\ bid # None => /\ bid \in DOMAIN d.bids
                         /\ d.low_bid # None /\ d.low_bid <= bid
    <2>1. CASE pushed
      <3>1. tick \in Int /\ DepthOK(d)
        BY DEF SoundDepth
      <3> QED BY <2>1, <3>1, DepthBelowFinds DEF Tick, None
    <2>2. CASE ~pushed
      BY <2>2 DEF SoundDepth, DepthOK, BidBacked, Tick, None
    <2> QED BY <2>1, <2>2
  <1>5. high \in Nat /\ tick <= high
    BY DEF SoundDepth, DepthOK, None
  <1> HIDE DEF e, bid, high
  <1>6. DepthOK(e)
    BY <1>2, <1>3, <1>4, <1>5 DEF SoundDepth, DepthOK, Tick
  <1>7. BidBacked(e) /\ AskBacked(e)
    BY <1>2, <1>3, <1>4, <1>5 DEF BidBacked, AskBacked, Tick, None
  <1>8. e.best_bid = d.best_bid \/ (d.best_bid # None /\ d.best_bid >= tick)
    BY <1>2 DEF bid, SoundDepth, DepthOK, None
  <1> QED BY <1>2, <1>3, <1>4, <1>6, <1>7, <1>8 DEF SoundDepth, e

\* Withdrawing a level that is not the best leaves the rest of the book.
LEMMA WithdrawBidSound ==
  ASSUME NEW d, SoundDepth(d), NEW tick \in Nat, d.best_bid # tick
  PROVE  LET e == WithdrawBid(d, tick)
         IN  SoundDepth(e) /\ e.best_ask = d.best_ask /\ e.best_bid = d.best_bid
  <1> DEFINE e == WithdrawBid(d, tick)
  <1>1. e = [d EXCEPT !.bids = DropLevels(d.bids, {tick})]
    BY DEF WithdrawBid
  <1>2. /\ e.bids = DropLevels(d.bids, {tick}) /\ e.asks = d.asks
        /\ e.best_bid = d.best_bid /\ e.best_ask = d.best_ask
        /\ e.low_bid = d.low_bid /\ e.high_ask = d.high_ask
        /\ e = [bids |-> e.bids, asks |-> e.asks, best_bid |-> e.best_bid,
                best_ask |-> e.best_ask, low_bid |-> e.low_bid, high_ask |-> e.high_ask]
    <2> HIDE DEF e
    <2> QED BY <1>1 DEF SoundDepth, DepthOK
  <1> HIDE DEF e
  <1>3. DepthOK(e)
    BY <1>2 DEF SoundDepth, DepthOK, DropLevels, Restrict, Levels
  <1>4. BidBacked(e) /\ AskBacked(e)
    BY <1>2 DEF SoundDepth, BidBacked, AskBacked, DropLevels, Restrict
  <1> QED BY <1>2, <1>3, <1>4 DEF SoundDepth, e

LEMMA WithdrawAskSound ==
  ASSUME NEW d, SoundDepth(d), NEW tick \in Nat, d.best_ask # tick
  PROVE  LET e == WithdrawAsk(d, tick)
         IN  SoundDepth(e) /\ e.best_ask = d.best_ask /\ e.best_bid = d.best_bid
  <1> DEFINE e == WithdrawAsk(d, tick)
  <1>1. e = [d EXCEPT !.asks = DropLevels(d.asks, {tick})]
    BY DEF WithdrawAsk
  <1>2. /\ e.asks = DropLevels(d.asks, {tick}) /\ e.bids = d.bids
        /\ e.best_bid = d.best_bid /\ e.best_ask = d.best_ask
        /\ e.low_bid = d.low_bid /\ e.high_ask = d.high_ask
        /\ e = [bids |-> e.bids, asks |-> e.asks, best_bid |-> e.best_bid,
                best_ask |-> e.best_ask, low_bid |-> e.low_bid, high_ask |-> e.high_ask]
    <2> HIDE DEF e
    <2> QED BY <1>1 DEF SoundDepth, DepthOK
  <1> HIDE DEF e
  <1>3. DepthOK(e)
    BY <1>2 DEF SoundDepth, DepthOK, DropLevels, Restrict, Levels
  <1>4. BidBacked(e) /\ AskBacked(e)
    BY <1>2 DEF SoundDepth, BidBacked, AskBacked, DropLevels, Restrict
  <1> QED BY <1>2, <1>3, <1>4 DEF SoundDepth, e

\* Rounding a price to ticks gives a natural number.
LEMMA PriceTickType ==
  ASSUME NEW px \in Nat
  PROVE  PriceTick(px) \in Nat
  <1> DEFINE n == 2 * px + TickSize
             m == 2 * TickSize
  <1>1. n \in Nat /\ m \in Nat /\ m > 0
    BY TickSizeAssumption
  <1>2. PriceTick(px) = n \div m
    BY DEF PriceTick
  <1>3. n \div m \in Nat
    <2> HIDE DEF n, m
    <2> QED BY <1>1, Z3
  <1> QED BY <1>2, <1>3

-----------------------------------------------------------------------------
\* One side of a row.
LEMMA ApplyBidSound ==
  ASSUME NEW d, SoundDepth(d), NEW row, row.bid_px \in Nat, row.bid_qty \in Nat
  PROVE  LET e == ApplyBid(d, row)
             tick == PriceTick(row.bid_px)
         IN  /\ SoundDepth(e)
             /\ row.bid_px > 0 /\ row.bid_qty > 0 =>
                  /\ e.best_bid = tick
                  /\ e.bids[tick] = row.bid_qty
                  /\ e.best_ask = None \/ e.best_ask > tick
                  /\ \/ e.best_ask = d.best_ask
                     \/ d.best_ask # None /\ d.best_ask <= tick
  <1> DEFINE e == ApplyBid(d, row)
             tick == PriceTick(row.bid_px)
             c == ClearBid(d, tick)
  <1>1. CASE row.bid_px <= 0
    BY <1>1 DEF ApplyBid
  <1>2. CASE row.bid_px > 0
    <2>1. tick \in Nat
      BY PriceTickType
    <2>2. e = UpdateBid(c, tick, row.bid_qty)
      BY <1>2 DEF ApplyBid
    <2> HIDE DEF tick
    <2>3. /\ SoundDepth(c)
          /\ c.best_bid # None => c.best_bid < tick
          /\ c.best_ask = d.best_ask
      BY <2>1, ClearBidSound
    <2> HIDE DEF c, e
    <2>4. CASE row.bid_qty = 0
      <3>1. c.best_bid # tick
        BY <2>1, <2>3 DEF SoundDepth, DepthOK, None
      <3>2. e = WithdrawBid(c, tick)
        BY <2>2, <2>4 DEF UpdateBid
      <3>3. SoundDepth(e)
        BY <2>1, <2>3, <3>1, <3>2, WithdrawBidSound
      <3> QED BY <2>4, <3>3 DEF e, tick
    <2>5. CASE row.bid_qty # 0
      <3>1. row.bid_qty \in Nat \ {0}
        BY <2>5
      <3>2. e = QuoteBid(c, tick, row.bid_qty)
        BY <2>2, <2>5 DEF UpdateBid
      <3>3. /\ SoundDepth(e)
            /\ e.best_bid = tick
            /\ e.bids[tick] = row.bid_qty
            /\ e.best_ask = None \/ e.best_ask > tick
            /\ \/ e.best_ask = c.best_ask
               \/ c.best_ask # None /\ c.best_ask <= tick
        BY <2>1, <2>3, <3>1, <3>2, QuoteBidSound
      <3> QED BY <2>3, <3>3 DEF e, tick
    <2> QED BY <2>4, <2>5
  <1> QED BY <1>1, <1>2

LEMMA ApplyAskSound ==
  ASSUME NEW d, SoundDepth(d), NEW row, row.ask_px \in Nat, row.ask_qty \in Nat
  PROVE  LET e == ApplyAsk(d, row)
             tick == PriceTick(row.ask_px)
         IN  /\ SoundDepth(e)
             /\ row.ask_px > 0 /\ row.ask_qty > 0 =>
                  /\ e.best_ask = tick
                  /\ e.asks[tick] = row.ask_qty
                  /\ e.bids = d.bids
                  /\ e.best_bid = None \/ e.best_bid < tick
                  /\ \/ e.best_bid = d.best_bid
                     \/ d.best_bid # None /\ d.best_bid >= tick
  <1> DEFINE e == ApplyAsk(d, row)
             tick == PriceTick(row.ask_px)
             c == ClearAsk(d, tick)
  <1>1. CASE row.ask_px <= 0
    BY <1>1 DEF ApplyAsk
  <1>2. CASE row.ask_px > 0
    <2>1. tick \in Nat
      BY PriceTickType
    <2>2. e = UpdateAsk(c, tick, row.ask_qty)
      BY <1>2 DEF ApplyAsk
    <2> HIDE DEF tick
    <2>3. /\ SoundDepth(c)
          /\ c.best_ask # None => tick < c.best_ask
          /\ c.best_bid = d.best_bid
          /\ c.bids = d.bids
      BY <2>1, ClearAskSound
    <2> HIDE DEF c, e
    <2>4. CASE row.ask_qty = 0
      <3>1. c.best_ask # tick
        BY <2>1, <2>3 DEF SoundDepth, DepthOK, None
      <3>2. e = WithdrawAsk(c, tick)
        BY <2>2, <2>4 DEF UpdateAsk
      <3>3. SoundDepth(e)
        BY <2>1, <2>3, <3>1, <3>2, WithdrawAskSound
      <3> QED BY <2>4, <3>3 DEF e, tick
    <2>5. CASE row.ask_qty # 0
      <3>1. row.ask_qty \in Nat \ {0}
        BY <2>5
      <3>2. e = QuoteAsk(c, tick, row.ask_qty)
        BY <2>2, <2>5 DEF UpdateAsk
      <3>3. /\ SoundDepth(e)
            /\ e.best_ask = tick
            /\ e.asks[tick] = row.ask_qty
            /\ e.bids = c.bids
            /\ e.best_bid = None \/ e.best_bid < tick
            /\ \/ e.best_bid = c.best_bid
               \/ c.best_bid # None /\ c.best_bid >= tick
        BY <2>1, <2>3, <3>1, <3>2, QuoteAskSound
      <3> QED BY <2>3, <3>3 DEF e, tick
    <2> QED BY <2>4, <2>5
  <1> QED BY <1>1, <1>2

\* A whole row keeps the book well-formed and backed.
LEMMA ApplyRowSound ==
  ASSUME NEW d, SoundDepth(d), NEW row,
         row.bid_px \in Nat, row.bid_qty \in Nat, row.ask_px \in Nat, row.ask_qty \in Nat
  PROVE  SoundDepth(ApplyRow(d, row))
  BY ApplyBidSound, ApplyAskSound DEF ApplyRow

LEMMA EmptyDepthSound == SoundDepth(EmptyDepth)
  BY DEF EmptyDepth, SoundDepth, DepthOK, Levels, BidBacked, AskBacked, NoLevels, None

\* The prices of a view are integers.
LEMMA ViewType ==
  ASSUME NEW d, SoundDepth(d), NEW row, NEW ts
  PROVE  /\ ViewOf(d, row, ts).bid_px \in Int
         /\ ViewOf(d, row, ts).ask_px \in Int
  <1>1. d.best_bid \in Int /\ d.best_ask \in Int
    BY DEF SoundDepth, DepthOK, None
  <1>2. d.best_bid * TickSize \in Int /\ d.best_ask * TickSize \in Int
    BY <1>1, TickSizeAssumption
  <1> QED BY <1>2 DEF ViewOf, NaN
=============================================================================
