---------------------------- MODULE EngineProofs ----------------------------
(***************************************************************************)
(* Time and causality in EngineProps, and what the books show, for all     *)
(* rows, latencies, arguments and bounds of the clock.                     *)
(***************************************************************************)
EXTENDS EngineProps, BookLemmas, OrderLemmas

-----------------------------------------------------------------------------
(* Saturating sums and event keys.                                         *)
LEMMA SatAddFacts ==
  ASSUME NEW x \in Int, NEW y \in Int
  PROVE  /\ SatAdd(x, y) \in I64
         /\ x \in I64 /\ y >= 0 => x <= SatAdd(x, y)
         /\ \A z \in Int : z <= x => SatAdd(z, y) <= SatAdd(x, y)
  BY I64Assumption DEF SatAdd, I64

LEMMA AtLeastZeroFact == ASSUME NEW n \in Int PROVE AtLeastZero(n) \in Nat
  BY DEF AtLeastZero

Keys == Int \X Int \X Int \X Int

\* At or after, in the order of the scheduler, as the proofs use it.
NotBefore(k, key) ==
  /\ key[1] <= k[1]
  /\ key[1] = k[1] /\ key[2] = k[2] => /\ key[3] <= k[3]
                                       /\ key[3] = k[3] => key[4] <= k[4]

LEMMA KeyLessOrders ==
  ASSUME NEW x \in Keys, NEW y \in Keys, KeyLess(x, y)
  PROVE  NotBefore(y, x)
  <1>1. PICK n \in 1 .. 4 : /\ x[n] < y[n]
                            /\ \A m \in 1 .. (n - 1) : x[m] = y[m]
    BY DEF KeyLess
  <1>2. \A m \in 1 .. 4 : x[m] \in Int /\ y[m] \in Int
    BY DEF Keys
  <1>3. CASE n = 1
    BY <1>1, <1>2, <1>3 DEF NotBefore
  <1>4. CASE n = 2
    BY <1>1, <1>2, <1>4 DEF NotBefore
  <1>5. CASE n = 3
    BY <1>1, <1>2, <1>5 DEF NotBefore
  <1>6. CASE n = 4
    BY <1>1, <1>2, <1>6 DEF NotBefore
  <1> QED BY <1>3, <1>4, <1>5, <1>6

InputsTyped == rows \in [Assets -> Seq(BboRow)] /\ config \in [Assets -> AssetConfig]

LEMMA RowTyped ==
  ASSUME InputsTyped, NEW a \in Assets, NEW i \in 1 .. Len(rows[a])
  PROVE  /\ rows[a][i] \in BboRow
         /\ LocalTs(a, i) \in I64
         /\ ExchTs(a, i) \in I64
         /\ LocalTs(a, i) \in Int /\ ExchTs(a, i) \in Int
         /\ rows[a][i].source_seq \in Int
  <1>1. rows[a][i] \in BboRow /\ config[a] \in AssetConfig
    BY DEF InputsTyped
  <1>2. rows[a][i].local_ts_raw \in Int
    BY <1>1, I64Assumption DEF BboRow, I64
  <1>3. LocalTs(a, i) \in I64
    <2> DEFINE r == rows[a][i].local_ts_raw
               j == config[a].local_adjustment
               f == config[a].feed_offset
    <2>1. j \in Int /\ f \in Int
      BY <1>1 DEF AssetConfig
    <2>2. SatAdd(SatAdd(r, j), f) \in I64
      <3>1. r \in Int /\ I64 \subseteq Int
        BY <1>2, I64Assumption DEF I64
      <3> HIDE DEF r, j, f
      <3>2. SatAdd(r, j) \in I64
        BY <2>1, <3>1, SatAddFacts
      <3>3. SatAdd(r, j) \in Int
        BY <3>1, <3>2
      <3> QED BY <2>1, <3>3, SatAddFacts
    <2>3. SatAdd(SatAdd(r, j), f) \in I64
      BY <2>2
    <2> QED BY <2>3 DEF LocalTs, LocalTsOf
  <1>4. ExchTs(a, i) \in I64 /\ rows[a][i].source_seq \in Nat
    BY <1>1 DEF ExchTs, BboRow
  <1>5. I64 \subseteq Int
    BY I64Assumption DEF I64
  <1>6. LocalTs(a, i) \in Int /\ ExchTs(a, i) \in Int
    BY <1>3, <1>4, <1>5
  <1>7. rows[a][i].source_seq \in Int
    BY <1>4
  <1> HIDE DEF BboRow
  <1> QED BY <1>1, <1>3, <1>4, <1>6, <1>7

LEMMA RowTimesTyped ==
  ASSUME TypeOK, NEW a \in Assets, NEW i \in 1 .. Len(rows[a])
  PROVE  /\ rows[a][i] \in BboRow
         /\ LocalTs(a, i) \in I64
         /\ ExchTs(a, i) \in I64
         /\ LocalTs(a, i) \in Int /\ ExchTs(a, i) \in Int
         /\ rows[a][i].source_seq \in Int
  BY RowTyped DEF TypeOK, InputsTyped

\* A stream that is not exhausted has a next position and a next row.
LEMMA NextTyped ==
  ASSUME TypeOK, NEW a \in Assets
  PROVE  /\ Len(rows[a]) \in Nat
         /\ HasLocal(a) => /\ local_cursor[a] + 1 \in 1 .. Len(rows[a])
                           /\ NextLocal(a) \in 1 .. Len(rows[a])
         /\ HasExch(a) => /\ exch_cursor[a] + 1 \in 1 .. Len(rows[a])
                          /\ NextExch(a) \in 1 .. Len(rows[a])
  <1> DEFINE n == Len(rows[a])
  <1>1. n \in Nat
    BY DEF TypeOK
  <1>2. /\ local_cursor[a] \in 0 .. n /\ local_order[a] \in [1 .. n -> 1 .. n]
        /\ exch_cursor[a] \in 0 .. n /\ exch_order[a] \in [1 .. n -> 1 .. n]
    BY DEF TypeOK
  <1> HIDE DEF n
  <1>3. /\ local_cursor[a] < n => local_cursor[a] + 1 \in 1 .. n
        /\ exch_cursor[a] < n => exch_cursor[a] + 1 \in 1 .. n
    <2>1. \A c \in 0 .. n : c < n => c + 1 \in 1 .. n
      BY <1>1
    <2> QED BY <1>2, <2>1
  <1>4. /\ HasLocal(a) <=> local_cursor[a] < n
        /\ HasExch(a) <=> exch_cursor[a] < n
    BY DEF HasLocal, HasExch, n
  <1>5. /\ HasLocal(a) => NextLocal(a) \in 1 .. n
        /\ HasExch(a) => NextExch(a) \in 1 .. n
    BY <1>2, <1>3, <1>4 DEF NextLocal, NextExch
  <1> QED BY <1>1, <1>3, <1>4, <1>5 DEF n

LEMMA KeysTyped == TypeOK => EventKeys \subseteq Keys
  <1> SUFFICES ASSUME TypeOK, NEW k \in EventKeys PROVE k \in Keys
    OBVIOUS
  <1>1. I64 \subseteq Int
    BY I64Assumption DEF I64
  <1>2. ASSUME NEW a \in Assets, HasLocal(a) PROVE LocalKey(a) \in Keys
    <2>1. NextLocal(a) \in 1 .. Len(rows[a])
      BY <1>2, NextTyped
    <2> QED BY <2>1, RowTimesTyped DEF LocalKey, Keys, Assets, LOCAL_DATA
  <1>3. ASSUME NEW a \in Assets, HasExch(a) PROVE ExchKey(a) \in Keys
    <2>1. NextExch(a) \in 1 .. Len(rows[a])
      BY <1>3, NextTyped
    <2> QED BY <2>1, RowTimesTyped DEF ExchKey, Keys, Assets, EXCH_DATA
  <1>4. ASSUME NEW p \in pending PROVE PendingKey(p) \in Keys
    BY <1>1 DEF TypeOK, PendingEvent, PendingKey, Keys, Assets, REQUEST, RESPONSE
  <1> QED BY <1>2, <1>3, <1>4 DEF EventKeys

\* The picked event is not after any other.
LEMMA PickedIsFirst ==
  ASSUME TypeOK, NEW key, Picks(key)
  PROVE  /\ key \in Keys
         /\ Running
         /\ key[1] <= call.target
         /\ \A k \in EventKeys : k \in Keys /\ NotBefore(k, key)
  <1>1. key \in EventKeys /\ key \in Keys
    BY KeysTyped DEF Picks, IsNext
  <1>2. ASSUME NEW k \in EventKeys PROVE k \in Keys /\ NotBefore(k, key)
    <2>1. k \in Keys
      BY <1>2, KeysTyped
    <2>2. CASE k = key
      <3>1. key[1] \in Int /\ key[2] \in Int /\ key[3] \in Int /\ key[4] \in Int
        BY <1>1 DEF Keys
      <3> QED BY <2>1, <2>2, <3>1 DEF NotBefore
    <2>3. CASE k # key
      BY <1>1, <1>2, <2>1, <2>3, KeyLessOrders DEF Picks, IsNext
    <2> QED BY <2>2, <2>3
  <1> QED BY <1>1, <1>2 DEF Picks

-----------------------------------------------------------------------------
(* Types.                                                                  *)

\* The books are well-formed and the exchange's quote has integer prices.
Books ==
  /\ local_depth = [a \in Assets |-> local_depth[a]]
  /\ exch_depth = [a \in Assets |-> exch_depth[a]]
  /\ exch_view = [a \in Assets |-> exch_view[a]]
  /\ \A a \in Assets : /\ SoundDepth(local_depth[a])
                       /\ SoundDepth(exch_depth[a])
                       /\ exch_view[a].bid_px \in Int
                       /\ exch_view[a].ask_px \in Int

\* Positions of the two orders follow time.
Sorted ==
  \A a \in Assets : \A i, j \in 1 .. Len(rows[a]) : i <= j =>
    /\ LocalTs(a, local_order[a][i]) <= LocalTs(a, local_order[a][j])
    /\ ExchTs(a, exch_order[a][i]) <= ExchTs(a, exch_order[a][j])

Typed == TypeOK /\ Books /\ Sorted

LEMMA StableOrdersTyped ==
  ASSUME NEW keys, NEW p \in StableOrders(keys)
  PROVE  p \in [DOMAIN keys -> DOMAIN keys]
  BY DEF StableOrders, Bijection, Injection

LEMMA StableOrdersSorted ==
  ASSUME NEW keys, NEW p \in StableOrders(keys),
         NEW i \in DOMAIN keys, NEW j \in DOMAIN keys, i < j
  PROVE  keys[p[i]][1] < keys[p[j]][1] \/ keys[p[i]][1] = keys[p[j]][1]
  BY DEF StableOrders, PairBefore

LEMMA MatchType ==
  ASSUME NEW side, NEW px, NEW qty \in Int, NEW view,
         view.bid_px \in Int, view.ask_px \in Int
  PROVE  LET d == MatchImmediate(side, px, qty, view)
         IN  /\ d.status \in {STATUS_EXPIRED, STATUS_FILLED}
             /\ d.exec_price \in Int /\ d.exec_qty \in Int /\ d.leaves_qty \in Int
  BY DEF MatchImmediate, CrossingPrice

LEMMA TypedInit == Init => Typed
  <1> SUFFICES ASSUME Init PROVE Typed
    OBVIOUS
  <1>1. rows \in [Assets -> Seq(BboRow)] /\ config \in [Assets -> AssetConfig]
    BY InputsAssumption, ConfigsAssumption DEF Init
  <1>2. ASSUME NEW a \in Assets
        PROVE  /\ local_order[a] \in LocalOrders(a)
               /\ exch_order[a] \in ExchOrders(a)
    BY DEF Init
  <1>3. ASSUME NEW a \in Assets
        PROVE  /\ local_order[a] \in [1 .. Len(rows[a]) -> 1 .. Len(rows[a])]
               /\ exch_order[a] \in [1 .. Len(rows[a]) -> 1 .. Len(rows[a])]
    BY <1>2, StableOrdersTyped DEF LocalOrders, ExchOrders
  <1>4. ASSUME NEW a \in Assets PROVE Len(rows[a]) \in Nat
    BY <1>1
  <1>5. TypeOK
    <2>1. current_ts \in I64
      <3>1. CASE RowTimes = {}
        BY <3>1, I64Assumption DEF Init, I64
      <3>2. CASE RowTimes # {}
        <4>1. \A x \in Indices : LocalTs(x[1], x[2]) \in I64 /\ ExchTs(x[1], x[2]) \in I64
          <5>1. \A x \in Indices : x[1] \in Assets /\ x[2] \in 1 .. Len(rows[x[1]])
            BY <1>1 DEF Indices, Assets
          <5> QED BY <1>1, <5>1, RowTyped DEF InputsTyped
        <4>2. \A t \in RowTimes : t \in I64
          BY <4>1 DEF RowTimes
        <4> QED BY <3>2, <4>2 DEF Init
      <3> QED BY <3>1, <3>2
    <2>2. \A a \in Assets : /\ local_cursor[a] \in 0 .. Len(rows[a])
                            /\ exch_cursor[a] \in 0 .. Len(rows[a])
      BY <1>4 DEF Init
    <2>3. call \in [op : Ops, pc : Pcs, key : OrderKeys \cup {<<>>},
                    target : I64, rc : {-2, -1, 0, 1}]
      BY I64Assumption DEF Init, NoCall, Ops, Pcs, I64
    <2>4. /\ DOMAIN orders \subseteq Assets \X OrderIds
          /\ orders \in [DOMAIN orders -> Order]
          /\ pending \subseteq PendingEvent
          /\ next_serial \in Nat
          /\ local_cursor \in [Assets -> Nat]
          /\ exch_cursor \in [Assets -> Nat]
      BY DEF Init
    <2> QED BY <1>1, <1>3, <2>1, <2>2, <2>3, <2>4 DEF TypeOK
  <1>6. Books
    BY EmptyDepthSound DEF Init, Books, DefaultView, NaN
  <1>7. Sorted
    <2> SUFFICES ASSUME NEW a \in Assets,
                        NEW i \in 1 .. Len(rows[a]), NEW j \in 1 .. Len(rows[a]), i <= j
                 PROVE  /\ LocalTs(a, local_order[a][i]) <= LocalTs(a, local_order[a][j])
                        /\ ExchTs(a, exch_order[a][i]) <= ExchTs(a, exch_order[a][j])
      BY DEF Sorted
    <2>1. \A x \in 1 .. Len(rows[a]) : /\ LocalTs(a, x) \in Int
                                       /\ ExchTs(a, x) \in Int
      BY <1>5, RowTimesTyped
    <2>2. /\ local_order[a][i] \in 1 .. Len(rows[a]) /\ local_order[a][j] \in 1 .. Len(rows[a])
          /\ exch_order[a][i] \in 1 .. Len(rows[a]) /\ exch_order[a][j] \in 1 .. Len(rows[a])
      BY <1>3
    <2>3. i \in Int /\ j \in Int
      OBVIOUS
    <2>4. CASE i = j
      BY <2>1, <2>2, <2>4
    <2>5. CASE i < j
      <3>1. LocalTs(a, local_order[a][i]) < LocalTs(a, local_order[a][j])
            \/ LocalTs(a, local_order[a][i]) = LocalTs(a, local_order[a][j])
        <4> DEFINE keys == [k \in 1 .. Len(rows[a]) |-> <<LocalTs(a, k), rows[a][k].source_seq>>]
        <4>1. local_order[a] \in StableOrders(keys)
          BY <1>2 DEF LocalOrders
        <4>2. /\ keys[local_order[a][i]][1] = LocalTs(a, local_order[a][i])
              /\ keys[local_order[a][j]][1] = LocalTs(a, local_order[a][j])
          BY <2>2
        <4>3. DOMAIN keys = 1 .. Len(rows[a])
          OBVIOUS
        <4> HIDE DEF keys
        <4> QED
          BY <2>5, <4>1, <4>2, <4>3, StableOrdersSorted
      <3>2. ExchTs(a, exch_order[a][i]) < ExchTs(a, exch_order[a][j])
            \/ ExchTs(a, exch_order[a][i]) = ExchTs(a, exch_order[a][j])
        <4> DEFINE keys == [k \in 1 .. Len(rows[a]) |-> <<ExchTs(a, k), rows[a][k].source_seq>>]
        <4>1. exch_order[a] \in StableOrders(keys)
          BY <1>2 DEF ExchOrders
        <4>2. /\ keys[exch_order[a][i]][1] = ExchTs(a, exch_order[a][i])
              /\ keys[exch_order[a][j]][1] = ExchTs(a, exch_order[a][j])
          BY <2>2
        <4>3. DOMAIN keys = 1 .. Len(rows[a])
          OBVIOUS
        <4> HIDE DEF keys
        <4> QED
          BY <2>5, <4>1, <4>2, <4>3, StableOrdersSorted
      <3>3. /\ LocalTs(a, local_order[a][i]) \in Int /\ LocalTs(a, local_order[a][j]) \in Int
            /\ ExchTs(a, exch_order[a][i]) \in Int /\ ExchTs(a, exch_order[a][j]) \in Int
        BY <2>1, <2>2
      <3> HIDE DEF LocalTs, ExchTs
      <3> QED BY <3>1, <3>2, <3>3
    <2> QED BY <2>3, <2>4, <2>5
  <1> QED BY <1>5, <1>6, <1>7 DEF Typed

\* A valid order is submitted.
Submits == \E a \in Assets \cap AssetArgs, id \in OrderIds, side \in {BUY, SELL},
              px \in PriceArgs, qty \in QtyArgs, tif \in {TIF_FOK, TIF_IOC} :
              Submit(a, id, side, px, qty, tif)

\* Who changes what.
LEMMA Frame ==
  ASSUME [Next]_vars
  PROVE  /\ UNCHANGED inputs
         /\ UNCHANGED local \/ \E a \in Assets : ProcessLocalData(a)
         /\ UNCHANGED exch \/ \E a \in Assets : ProcessExchData(a)
         /\ \/ UNCHANGED <<orders, pending, next_serial>>
            \/ Submits
            \/ \E p \in pending : ProcessRequest(p) \/ ProcessResponse(p)
  <1> DEFINE G == /\ UNCHANGED inputs
                  /\ UNCHANGED local \/ \E a \in Assets : ProcessLocalData(a)
                  /\ UNCHANGED exch \/ \E a \in Assets : ProcessExchData(a)
                  /\ \/ UNCHANGED <<orders, pending, next_serial>>
                     \/ Submits
                     \/ \E p \in pending : ProcessRequest(p) \/ ProcessResponse(p)
  <1> SUFFICES G
    OBVIOUS
  <1>1. CASE UNCHANGED vars
    BY <1>1 DEF vars, trading
  <1>2. ASSUME NEW a \in Assets, ProcessLocalData(a) PROVE G
    BY <1>2 DEF ProcessLocalData, trading
  <1>3. ASSUME NEW a \in Assets, ProcessExchData(a) PROVE G
    BY <1>3 DEF ProcessExchData, trading
  <1>4. ASSUME NEW p \in pending, ProcessRequest(p) PROVE G
    BY <1>4 DEF ProcessRequest
  <1>5. ASSUME NEW p \in pending, ProcessResponse(p) PROVE G
    BY <1>5 DEF ProcessResponse
  <1>6. CASE ReturnFromLoop
    BY <1>6 DEF ReturnFromLoop, trading
  <1>7. ASSUME NEW a \in AssetArgs, NEW id \in OrderIds, NEW side \in SideArgs,
               NEW tif \in TifArgs, SubmitRejected(a, id, side, tif)
        PROVE  G
    BY <1>7 DEF SubmitRejected, trading
  <1>8. ASSUME NEW a \in AssetArgs, NEW id \in OrderIds, NEW side \in SideArgs,
               NEW px \in PriceArgs, NEW qty \in QtyArgs, NEW tif \in TifArgs,
               Submit(a, id, side, px, qty, tif)
        PROVE  G
    <2>1. a \in Assets \cap AssetArgs /\ side \in {BUY, SELL} /\ tif \in {TIF_FOK, TIF_IOC}
      BY <1>8 DEF Submit, BadOrder
    <2>2. UNCHANGED <<inputs, local, exch>>
      BY <1>8 DEF Submit
    <2>3. Submits
      BY <1>8, <2>1 DEF Submits
    <2> QED BY <2>2, <2>3
  <1>9. ASSUME NEW d \in DurationArgs, Elapse(d) \/ ElapseRefused(d) PROVE G
    BY <1>9 DEF Elapse, ElapseRefused, trading
  <1>10. ASSUME NEW k \in AssetArgs \X OrderIds,
                WaitAnswered(k) \/ \E timeout \in TimeoutArgs : WaitResponse(k, timeout)
         PROVE  G
    BY <1>10 DEF WaitAnswered, WaitResponse, trading
  <1> HIDE DEF G
  <1>11. CASE Strategy
    BY <1>7, <1>8, <1>9, <1>10, <1>11 DEF Strategy
  <1>12. CASE ProcessThrough
    BY <1>2, <1>3, <1>4, <1>5, <1>6, <1>12 DEF ProcessThrough
  <1> QED BY <1>1, <1>11, <1>12 DEF Next

\* The parts of TypeOK.
Streams == /\ \A a \in Assets :
                /\ local_order[a] \in [1 .. Len(rows[a]) -> 1 .. Len(rows[a])]
                /\ exch_order[a] \in [1 .. Len(rows[a]) -> 1 .. Len(rows[a])]
                /\ local_cursor[a] \in 0 .. Len(rows[a])
                /\ exch_cursor[a] \in 0 .. Len(rows[a])
           /\ local_cursor \in [Assets -> Nat]
           /\ exch_cursor \in [Assets -> Nat]

OrdersTyped == DOMAIN orders \subseteq Assets \X OrderIds /\ orders \in [DOMAIN orders -> Order]

InFlight == pending \subseteq PendingEvent /\ next_serial \in Nat

Calls == [op : Ops, pc : Pcs, key : OrderKeys \cup {<<>>}, target : I64, rc : {-2, -1, 0, 1}]

Control == current_ts \in I64 /\ call \in Calls

LEMMA TypeOKParts ==
  TypeOK <=> InputsTyped /\ Streams /\ OrdersTyped /\ InFlight /\ Control
  BY DEF TypeOK, InputsTyped, Streams, OrdersTyped, InFlight, Control, Calls

LEMMA StreamsNext ==
  ASSUME Typed, [Next]_vars
  PROVE  Streams'
  <1>1. UNCHANGED inputs /\ Streams
    BY Frame, TypeOKParts DEF Typed
  <1>2. /\ local_cursor \in [Assets -> Nat] /\ exch_cursor \in [Assets -> Nat]
        /\ \A a \in Assets : /\ local_cursor[a] \in 0 .. Len(rows[a])
                             /\ exch_cursor[a] \in 0 .. Len(rows[a])
    BY <1>1 DEF Streams
  <1>3. /\ local_cursor' \in [Assets -> Nat]
        /\ \A a \in Assets : local_cursor'[a] \in 0 .. Len(rows[a])
    <2>1. CASE UNCHANGED local
      BY <1>2, <2>1 DEF local
    <2>2. ASSUME NEW b \in Assets, ProcessLocalData(b)
          PROVE  /\ local_cursor' \in [Assets -> Nat]
                 /\ \A a \in Assets : local_cursor'[a] \in 0 .. Len(rows[a])
      <3>1. local_cursor[b] + 1 \in 1 .. Len(rows[b]) /\ Len(rows[b]) \in Nat
        BY <2>2, NextTyped DEF ProcessLocalData, Typed
      <3>2. local_cursor' = [local_cursor EXCEPT ![b] = local_cursor[b] + 1]
        BY <2>2 DEF ProcessLocalData
      <3>3. local_cursor' \in [Assets -> Nat]
        BY <1>2, <3>2
      <3>4. \A a \in Assets : local_cursor'[a] = IF a = b THEN local_cursor[b] + 1
                                                     ELSE local_cursor[a]
        BY <1>2, <3>2
      <3>5. local_cursor[b] + 1 \in 0 .. Len(rows[b])
        BY <3>1
      <3> QED BY <1>2, <3>3, <3>4, <3>5
    <2> QED BY <2>1, <2>2, Frame
  <1>4. /\ exch_cursor' \in [Assets -> Nat]
        /\ \A a \in Assets : exch_cursor'[a] \in 0 .. Len(rows[a])
    <2>1. CASE UNCHANGED exch
      BY <1>2, <2>1 DEF exch
    <2>2. ASSUME NEW b \in Assets, ProcessExchData(b)
          PROVE  /\ exch_cursor' \in [Assets -> Nat]
                 /\ \A a \in Assets : exch_cursor'[a] \in 0 .. Len(rows[a])
      <3>1. exch_cursor[b] + 1 \in 1 .. Len(rows[b]) /\ Len(rows[b]) \in Nat
        BY <2>2, NextTyped DEF ProcessExchData, Typed
      <3>2. exch_cursor' = [exch_cursor EXCEPT ![b] = exch_cursor[b] + 1]
        BY <2>2 DEF ProcessExchData
      <3>3. exch_cursor' \in [Assets -> Nat]
        BY <1>2, <3>2
      <3>4. \A a \in Assets : exch_cursor'[a] = IF a = b THEN exch_cursor[b] + 1
                                                     ELSE exch_cursor[a]
        BY <1>2, <3>2
      <3>5. exch_cursor[b] + 1 \in 0 .. Len(rows[b])
        BY <3>1
      <3> QED BY <1>2, <3>3, <3>4, <3>5
    <2> QED BY <2>1, <2>2, Frame
  <1> QED BY <1>1, <1>3, <1>4 DEF Streams, inputs

\* The order a request event turns o into, on the exchange's quote.
Decided(o, ts, d) == [o EXCEPT !.exch_ts    = ts,
                               !.status     = d.status,
                               !.exec_price = d.exec_price,
                               !.exec_qty   = d.exec_qty,
                               !.leaves_qty = d.leaves_qty]

Shown(o, ts) == [o EXCEPT !.resp_local_ts = ts, !.response_visible = TRUE]

LEMMA DecidedType ==
  ASSUME NEW o \in Order, NEW ts \in I64, NEW view, view.bid_px \in Int, view.ask_px \in Int
  PROVE  LET d == MatchImmediate(o.side, o.requested_price, o.requested_qty, view)
         IN  /\ Decided(o, ts, d) \in Order
             /\ Decided(o, ts, d).status \in {STATUS_EXPIRED, STATUS_FILLED}
  <1> DEFINE d == MatchImmediate(o.side, o.requested_price, o.requested_qty, view)
  <1>1. /\ d.status \in {STATUS_EXPIRED, STATUS_FILLED}
        /\ d.exec_price \in Int /\ d.exec_qty \in Int /\ d.leaves_qty \in Int
    BY MatchType DEF Order
  <1> HIDE DEF d
  <1>2. /\ Decided(o, ts, d) \in Order
        /\ Decided(o, ts, d).status \in {STATUS_EXPIRED, STATUS_FILLED}
    BY <1>1 DEF Decided, Order
  <1> QED BY <1>2 DEF d

LEMMA ShownType ==
  ASSUME NEW o \in Order, NEW ts \in I64
  PROVE  /\ Shown(o, ts) \in Order
         /\ Shown(o, ts).resp_local_ts = ts /\ Shown(o, ts).response_visible = TRUE
         /\ Shown(o, ts).status = o.status /\ Shown(o, ts).exch_ts = o.exch_ts
         /\ Shown(o, ts).req_local_ts = o.req_local_ts
  BY DEF Shown, Order

LEMMA DecidedFields ==
  ASSUME NEW o \in Order, NEW ts, NEW d
  PROVE  /\ Decided(o, ts, d).exch_ts = ts /\ Decided(o, ts, d).status = d.status
         /\ Decided(o, ts, d).response_visible = o.response_visible
         /\ Decided(o, ts, d).req_local_ts = o.req_local_ts
         /\ Decided(o, ts, d).resp_local_ts = o.resp_local_ts
  BY DEF Decided, Order

\* What a request and a response do to the orders.
LEMMA RequestEffect ==
  ASSUME Typed, NEW p \in pending, ProcessRequest(p)
  PROVE  LET k == <<p.asset_no, p.order_id>>
             d == MatchImmediate(orders[k].side, orders[k].requested_price,
                                 orders[k].requested_qty, exch_view[p.asset_no])
         IN  orders' = [orders EXCEPT ![k] = Decided(orders[k], p.ts, d)]
  BY DEF ProcessRequest, Decided, QuoteAtExchange

LEMMA ResponseEffect ==
  ASSUME Typed, NEW p \in pending, ProcessResponse(p)
  PROVE  LET k == <<p.asset_no, p.order_id>>
         IN  orders' = [orders EXCEPT ![k] = Shown(orders[k], p.ts)]
  BY DEF ProcessResponse, Shown

LEMMA OrdersTypedNext ==
  ASSUME Typed, [Next]_vars
  PROVE  OrdersTyped'
  <1>1. /\ OrdersTyped /\ InFlight /\ Control /\ InputsTyped
    BY TypeOKParts DEF Typed
  <1>2. CASE UNCHANGED orders
    BY <1>1, <1>2 DEF OrdersTyped
  <1>3. CASE Submits
    <2>1. PICK a \in Assets, id \in OrderIds, side \in {BUY, SELL},
               px \in PriceArgs, qty \in QtyArgs, tif \in {TIF_FOK, TIF_IOC} :
               Submit(a, id, side, px, qty, tif)
      BY <1>3 DEF Submits
    <2>2. NewOrder(side, px, qty, tif) \in Order
      BY <1>1, ArgsAssumption, I64Assumption DEF NewOrder, Order, Control, I64
    <2>3. orders' = [k \in DOMAIN orders \cup {<<a, id>>} |->
                       IF k = <<a, id>> THEN NewOrder(side, px, qty, tif) ELSE orders[k]]
      BY <2>1 DEF Submit
    <2> HIDE DEF Order
    <2> QED BY <1>1, <2>2, <2>3 DEF OrdersTyped
  <1>4. ASSUME NEW k, NEW o \in Order, orders' = [orders EXCEPT ![k] = o]
        PROVE  OrdersTyped'
    BY <1>1, <1>4 DEF OrdersTyped
  <1>5. ASSUME NEW p \in pending, ProcessRequest(p) PROVE OrdersTyped'
    <2> DEFINE k == <<p.asset_no, p.order_id>>
               d == MatchImmediate(orders[k].side, orders[k].requested_price,
                                   orders[k].requested_qty, exch_view[p.asset_no])
    <2>1. orders' = [orders EXCEPT ![k] = Decided(orders[k], p.ts, d)]
      BY <1>5, RequestEffect
    <2>2. CASE k \in DOMAIN orders
      <3>1. orders[k] \in Order /\ p.ts \in I64 /\ p.asset_no \in Assets
        BY <1>1, <2>2 DEF OrdersTyped, InFlight, PendingEvent
      <3>2. exch_view[p.asset_no].bid_px \in Int /\ exch_view[p.asset_no].ask_px \in Int
        BY <3>1 DEF Typed, Books
      <3>3. Decided(orders[k], p.ts, d) \in Order
        BY <3>1, <3>2, DecidedType
      <3> QED BY <1>4, <2>1, <3>3
    <2>3. CASE k \notin DOMAIN orders
      BY <1>1, <2>1, <2>3 DEF OrdersTyped
    <2> QED BY <2>2, <2>3
  <1>6. ASSUME NEW p \in pending, ProcessResponse(p) PROVE OrdersTyped'
    <2> DEFINE k == <<p.asset_no, p.order_id>>
    <2>1. orders' = [orders EXCEPT ![k] = Shown(orders[k], p.ts)]
      BY <1>6, ResponseEffect
    <2>2. CASE k \in DOMAIN orders
      <3>1. orders[k] \in Order /\ p.ts \in I64
        BY <1>1, <2>2 DEF OrdersTyped, InFlight, PendingEvent
      <3> QED BY <1>4, <2>1, <3>1, ShownType
    <2>3. CASE k \notin DOMAIN orders
      BY <1>1, <2>1, <2>3 DEF OrdersTyped
    <2> QED BY <2>2, <2>3
  <1> QED BY <1>2, <1>3, <1>5, <1>6, Frame

\* What happens to the events in flight: one is added, or a request is replaced
\* by its response.
LEMMA SubmitSends ==
  ASSUME Typed, NEW a \in Assets, NEW id \in OrderIds, NEW side, NEW px, NEW qty, NEW tif,
         Submit(a, id, side, px, qty, tif)
  PROVE  LET new == [ts |-> SatAdd(current_ts, config[a].entry_latency), asset_no |-> a,
                     order_id |-> id, kind |-> REQUEST, serial |-> next_serial + 1]
         IN  /\ pending' = pending \cup {new}
             /\ new \in PendingEvent
             /\ next_serial' = next_serial + 1
             /\ current_ts <= new.ts
  <1>1. current_ts \in Int /\ current_ts \in I64 /\ next_serial \in Nat
    BY I64Assumption, TypeOKParts DEF Typed, Control, InFlight, I64
  <1>2. config[a].entry_latency \in Nat
    BY TypeOKParts DEF Typed, InputsTyped, AssetConfig
  <1>3. SatAdd(current_ts, config[a].entry_latency) \in I64
        /\ current_ts <= SatAdd(current_ts, config[a].entry_latency)
    BY <1>1, <1>2, SatAddFacts
  <1>4. next_serial + 1 \in Nat
    BY <1>1
  <1> QED BY <1>3, <1>4 DEF Submit, PendingEvent

LEMMA RequestAnswers ==
  ASSUME Typed, NEW p \in pending, ProcessRequest(p)
  PROVE  LET new == [ts |-> SatAdd(p.ts, config[p.asset_no].response_latency),
                     asset_no |-> p.asset_no, order_id |-> p.order_id,
                     kind |-> RESPONSE, serial |-> next_serial + 1]
         IN  /\ pending' = (pending \ {p}) \cup {new}
             /\ new \in PendingEvent
             /\ next_serial' = next_serial + 1
             /\ p.ts <= new.ts
  <1>1. p.ts \in Int /\ p.ts \in I64 /\ next_serial \in Nat /\ p.asset_no \in Assets
        /\ p.order_id \in OrderIds
    BY I64Assumption, TypeOKParts DEF Typed, InFlight, PendingEvent, I64
  <1>2. config[p.asset_no].response_latency \in Nat
    BY <1>1, TypeOKParts DEF Typed, InputsTyped, AssetConfig
  <1>3. SatAdd(p.ts, config[p.asset_no].response_latency) \in I64
        /\ p.ts <= SatAdd(p.ts, config[p.asset_no].response_latency)
    BY <1>1, <1>2, SatAddFacts
  <1>4. next_serial + 1 \in Nat
    BY <1>1
  <1> QED BY <1>1, <1>3, <1>4 DEF ProcessRequest, PendingEvent

LEMMA InFlightNext ==
  ASSUME Typed, [Next]_vars
  PROVE  InFlight'
  <1>1. InFlight
    BY TypeOKParts DEF Typed
  <1>2. CASE UNCHANGED <<pending, next_serial>>
    BY <1>1, <1>2 DEF InFlight
  <1>3. ASSUME NEW new \in PendingEvent, pending' \subseteq pending \cup {new},
               next_serial' = next_serial + 1
        PROVE  InFlight'
    BY <1>1, <1>3 DEF InFlight
  <1>4. CASE Submits
    <2>1. PICK a \in Assets, id \in OrderIds, side \in {BUY, SELL},
               px \in PriceArgs, qty \in QtyArgs, tif \in {TIF_FOK, TIF_IOC} :
               Submit(a, id, side, px, qty, tif)
      BY <1>4 DEF Submits
    <2> QED BY <1>3, <2>1, SubmitSends
  <1>5. ASSUME NEW p \in pending, ProcessRequest(p) PROVE InFlight'
    BY <1>3, <1>5, RequestAnswers
  <1>6. ASSUME NEW p \in pending, ProcessResponse(p) PROVE InFlight'
    BY <1>1, <1>6 DEF ProcessResponse, InFlight
  <1> QED BY <1>2, <1>4, <1>5, <1>6, Frame

LEMMA BooksNext ==
  ASSUME Typed, [Next]_vars
  PROVE  Books'
  <1>1. Books /\ TypeOK
    BY DEF Typed
  <1>2. ASSUME NEW row \in BboRow, NEW d, SoundDepth(d)
        PROVE  SoundDepth(ApplyRow(d, row))
    <2>1. /\ row.bid_px \in Nat /\ row.bid_qty \in Nat
          /\ row.ask_px \in Nat /\ row.ask_qty \in Nat
      BY DEF BboRow
    <2> QED BY <1>2, <2>1, ApplyRowSound
  <1>3. /\ local_depth' = [a \in Assets |-> local_depth'[a]]
        /\ \A a \in Assets : SoundDepth(local_depth'[a])
    <2>1. CASE UNCHANGED local
      BY <1>1, <2>1 DEF local, Books
    <2>2. ASSUME NEW b \in Assets, ProcessLocalData(b)
          PROVE  /\ local_depth' = [a \in Assets |-> local_depth'[a]]
                 /\ \A a \in Assets : SoundDepth(local_depth'[a])
      <3> DEFINE d == ApplyRow(local_depth[b], rows[b][NextLocal(b)])
      <3>1. rows[b][NextLocal(b)] \in BboRow
        BY <1>1, <2>2, NextTyped, RowTimesTyped DEF ProcessLocalData
      <3>2. SoundDepth(d)
        BY <1>1, <1>2, <3>1 DEF Books
      <3>3. local_depth' = [local_depth EXCEPT ![b] = d]
        BY <2>2 DEF ProcessLocalData
      <3> HIDE DEF d
      <3> QED BY <1>1, <3>2, <3>3 DEF Books
    <2> QED BY <2>1, <2>2, Frame
  <1>4. /\ exch_depth' = [a \in Assets |-> exch_depth'[a]]
        /\ exch_view' = [a \in Assets |-> exch_view'[a]]
        /\ \A a \in Assets : /\ SoundDepth(exch_depth'[a])
                             /\ exch_view'[a].bid_px \in Int
                             /\ exch_view'[a].ask_px \in Int
    <2>1. CASE UNCHANGED exch
      BY <1>1, <2>1 DEF exch, Books
    <2>2. ASSUME NEW b \in Assets, ProcessExchData(b)
          PROVE  /\ exch_depth' = [a \in Assets |-> exch_depth'[a]]
                 /\ exch_view' = [a \in Assets |-> exch_view'[a]]
                 /\ \A a \in Assets : /\ SoundDepth(exch_depth'[a])
                                      /\ exch_view'[a].bid_px \in Int
                                      /\ exch_view'[a].ask_px \in Int
      <3> DEFINE row == rows[b][NextExch(b)]
                 d == ApplyRow(exch_depth[b], row)
                 v == ViewOf(d, row, row.exch_ts)
      <3>1. row \in BboRow
        BY <1>1, <2>2, NextTyped, RowTimesTyped DEF ProcessExchData
      <3>2. SoundDepth(d)
        BY <1>1, <1>2, <3>1 DEF Books
      <3>3. v.bid_px \in Int /\ v.ask_px \in Int
        BY <3>2, ViewType
      <3>4. /\ exch_depth' = [exch_depth EXCEPT ![b] = d]
            /\ exch_view' = [exch_view EXCEPT ![b] = v]
        BY <2>2 DEF ProcessExchData
      <3> HIDE DEF d, v
      <3> QED BY <1>1, <3>2, <3>3, <3>4 DEF Books
    <2> QED BY <2>1, <2>2, Frame
  <1> QED BY <1>3, <1>4 DEF Books

\* The timestamp of every event that can be picked is on the clock's scale.
LEMMA EventTimes ==
  ASSUME TypeOK
  PROVE  /\ \A a \in Assets : HasLocal(a) => LocalKey(a)[1] \in I64
         /\ \A a \in Assets : HasExch(a) => ExchKey(a)[1] \in I64
         /\ \A p \in pending : PendingKey(p)[1] = p.ts /\ p.ts \in I64
  <1>1. ASSUME NEW p \in pending PROVE PendingKey(p)[1] = p.ts /\ p.ts \in I64
    BY DEF TypeOK, PendingEvent, PendingKey
  <1> QED BY <1>1, NextTyped, RowTimesTyped DEF LocalKey, ExchKey

LEMMA ReturnType ==
  ASSUME Typed, NEW op \in Ops, NEW key \in OrderKeys \cup {<<>>},
         NEW rc \in {-2, -1, 0, 1}, ReturnAtOnce(op, key, rc)
  PROVE  call' \in Calls
  <1>1. current_ts \in I64
    BY TypeOKParts DEF Typed, Control
  <1> QED BY <1>1 DEF ReturnAtOnce, Calls, Pcs

LEMMA TargetType ==
  ASSUME Typed, NEW d \in Int
  PROVE  /\ SatAdd(current_ts, AtLeastZero(d)) \in I64
         /\ current_ts <= SatAdd(current_ts, AtLeastZero(d))
  <1>1. current_ts \in Int /\ current_ts \in I64
    BY I64Assumption, TypeOKParts DEF Typed, Control, I64
  <1>2. AtLeastZero(d) \in Int /\ AtLeastZero(d) >= 0
    BY AtLeastZeroFact
  <1> QED BY <1>1, <1>2, SatAddFacts

LEMMA ControlNext ==
  ASSUME Typed, [Next]_vars
  PROVE  Control'
  <1>1. TypeOK /\ Control /\ InFlight
    BY TypeOKParts DEF Typed
  <1>2. CASE UNCHANGED vars
    BY <1>1, <1>2 DEF vars, Control
  <1>3. ASSUME NEW a \in Assets, ProcessLocalData(a) PROVE Control'
    BY <1>1, <1>3, EventTimes DEF ProcessLocalData, Control
  <1>4. ASSUME NEW a \in Assets, ProcessExchData(a) PROVE Control'
    BY <1>1, <1>4, EventTimes DEF ProcessExchData, Control
  <1>5. ASSUME NEW p \in pending, ProcessRequest(p) PROVE Control'
    BY <1>1, <1>5, EventTimes DEF ProcessRequest, Control
  <1>6. ASSUME NEW p \in pending, ProcessResponse(p) PROVE Control'
    BY <1>1, <1>6, EventTimes DEF ProcessResponse, Control, DrainAfter, Calls, Pcs
  <1>7. CASE ReturnFromLoop
    BY <1>1, <1>7 DEF ReturnFromLoop, Control, Calls, Pcs
  <1>8. ASSUME NEW a \in AssetArgs, NEW id \in OrderIds, NEW side \in SideArgs,
               NEW tif \in TifArgs
        PROVE  /\ SubmitRejected(a, id, side, tif) => Control'
               /\ \A px, qty : Submit(a, id, side, px, qty, tif) => Control'
    <2>1. <<a, id>> \in OrderKeys \cup {<<>>} /\ "submit" \in Ops
      BY DEF OrderKeys, Ops
    <2> QED BY <1>1, <2>1, ReturnType DEF SubmitRejected, Submit, Control
  <1>9. ASSUME NEW d \in DurationArgs, Elapse(d) \/ ElapseRefused(d) PROVE Control'
    <2>1. d \in Int
      BY ArgsAssumption
    <2>2. CASE Elapse(d)
      BY <1>1, <2>1, <2>2, TargetType DEF Elapse, Control, Calls, Ops, Pcs
    <2>3. CASE ElapseRefused(d)
      BY <1>1, <2>3, ReturnType DEF ElapseRefused, Control, Ops
    <2> QED BY <1>9, <2>2, <2>3
  <1>10. ASSUME NEW k \in AssetArgs \X OrderIds, WaitAnswered(k) PROVE Control'
    BY <1>1, <1>10, ReturnType DEF WaitAnswered, Control, Ops, OrderKeys
  <1>11. ASSUME NEW k \in AssetArgs \X OrderIds, NEW timeout \in TimeoutArgs,
                WaitResponse(k, timeout)
         PROVE  Control'
    <2>1. timeout \in Int /\ k \in OrderKeys
      BY ArgsAssumption DEF OrderKeys
    <2> QED BY <1>1, <1>11, <2>1, TargetType DEF WaitResponse, Control, Calls, Ops, Pcs
  <1>12. CASE Strategy
    BY <1>8, <1>9, <1>10, <1>11, <1>12 DEF Strategy
  <1>13. CASE ProcessThrough
    BY <1>3, <1>4, <1>5, <1>6, <1>7, <1>13 DEF ProcessThrough
  <1> QED BY <1>2, <1>12, <1>13 DEF Next

LEMMA TypedNext == Typed /\ [Next]_vars => Typed'
  <1> SUFFICES ASSUME Typed, [Next]_vars PROVE Typed'
    OBVIOUS
  <1>1. UNCHANGED inputs /\ Sorted /\ InputsTyped
    BY Frame, TypeOKParts DEF Typed
  <1>2. InputsTyped' /\ Sorted'
    BY <1>1 DEF inputs, InputsTyped, Sorted, LocalTs, ExchTs
  <1>3. TypeOK'
    BY <1>2, StreamsNext, OrdersTypedNext, InFlightNext, ControlNext
       DEF TypeOK, InputsTyped, Streams, OrdersTyped, InFlight, Control, Calls
  <1> QED BY <1>2, <1>3, BooksNext DEF Typed

LEMMA AlwaysTyped == Spec => []Typed
  BY TypedInit, TypedNext, PTL DEF Spec

\* Cursors stay inside their arrays, every timestamp stays in i64, and orders,
\* events and calls keep their types, for all inputs and arguments.
THEOREM EngineTypes == Spec => []TypeOK
  <1>1. Typed => TypeOK
    BY DEF Typed
  <1> QED BY <1>1, AlwaysTyped, PTL

-----------------------------------------------------------------------------
(* Time.                                                                   *)

\* Everything left to handle is stamped t or later.
AllFrom(t) == /\ \A a \in Assets : HasLocal(a) => t <= LocalTs(a, NextLocal(a))
              /\ \A a \in Assets : HasExch(a) => t <= ExchTs(a, NextExch(a))
              /\ \A p \in pending : t <= p.ts

LEMMA EventKeysAre ==
  /\ \A a \in Assets : HasLocal(a) => LocalKey(a) \in EventKeys
  /\ \A a \in Assets : HasExch(a) => ExchKey(a) \in EventKeys
  /\ \A p \in pending : PendingKey(p) \in EventKeys
  /\ \A k \in EventKeys : \/ \E a \in Assets : HasLocal(a) /\ k = LocalKey(a)
                          \/ \E a \in Assets : HasExch(a) /\ k = ExchKey(a)
                          \/ \E p \in pending : k = PendingKey(p)
  BY DEF EventKeys

LEMMA AllFromKeys ==
  ASSUME NEW t
  PROVE  AllFrom(t) <=> \A k \in EventKeys : t <= k[1]
  <1>1. /\ \A a : LocalKey(a)[1] = LocalTs(a, NextLocal(a))
        /\ \A a : ExchKey(a)[1] = ExchTs(a, NextExch(a))
        /\ \A p : PendingKey(p)[1] = p.ts
    BY DEF LocalKey, ExchKey, PendingKey
  <1>2. ASSUME AllFrom(t), NEW k \in EventKeys PROVE t <= k[1]
    BY <1>1, <1>2, EventKeysAre DEF AllFrom
  <1>3. ASSUME \A k \in EventKeys : t <= k[1] PROVE AllFrom(t)
    BY <1>1, <1>3, EventKeysAre DEF AllFrom
  <1> QED BY <1>2, <1>3

\* No step puts an event before t, if t is not after the clock.
LEMMA LaterNext ==
  ASSUME Typed, [Next]_vars, NEW t \in Int, AllFrom(t), t <= current_ts \/ Running
  PROVE  AllFrom(t)'
  <1>1. TypeOK /\ Sorted /\ UNCHANGED inputs /\ Streams /\ Streams'
    BY Frame, TypeOKParts, StreamsNext DEF Typed
  <1>2. ASSUME NEW a \in Assets, HasLocal(a)' PROVE (t <= LocalTs(a, NextLocal(a)))'
    <2>1. CASE UNCHANGED local
      BY <1>1, <1>2, <2>1 DEF local, inputs, AllFrom, HasLocal, NextLocal, LocalTs
    <2>2. ASSUME NEW b \in Assets, ProcessLocalData(b)
          PROVE  (t <= LocalTs(a, NextLocal(a)))'
      <3>1. local_cursor' = [local_cursor EXCEPT ![b] = local_cursor[b] + 1]
        BY <2>2 DEF ProcessLocalData
      <3>2. CASE a # b
        <4>1. local_cursor'[a] = local_cursor[a]
          BY <1>1, <3>1, <3>2 DEF Streams
        <4> QED BY <1>1, <1>2, <4>1 DEF inputs, AllFrom, HasLocal, NextLocal, LocalTs
      <3>3. CASE a = b
        <4> DEFINE c == local_cursor[a]
                   o == local_order[a]
                   n == Len(rows[a])
        <4>1. HasLocal(a) /\ c \in Nat /\ n \in Nat /\ local_cursor'[a] = c + 1
          BY <1>1, <2>2, <3>1, <3>3, NextTyped DEF Streams, ProcessLocalData
        <4>2. c + 1 < n
          BY <1>1, <1>2, <4>1 DEF HasLocal, inputs
        <4>3. c + 1 \in 1 .. n /\ c + 2 \in 1 .. n /\ c + 1 <= c + 2
          BY <4>1, <4>2
        <4>4. LocalTs(a, o[c + 1]) <= LocalTs(a, o[c + 2])
          BY <1>1, <4>3 DEF Sorted
        <4>5. t <= LocalTs(a, o[c + 1])
          BY <4>1 DEF AllFrom, NextLocal
        <4>6. o[c + 1] \in 1 .. n /\ o[c + 2] \in 1 .. n
          BY <1>1, <4>3 DEF Streams
        <4>7. LocalTs(a, o[c + 1]) \in Int /\ LocalTs(a, o[c + 2]) \in Int
          BY <1>1, <4>6, RowTimesTyped
        <4>8. t <= LocalTs(a, o[c + 2])
          BY <4>4, <4>5, <4>7
        <4>9. NextLocal(a)' = o[c + 2]
          <5>1. (c + 1) + 1 = c + 2
            BY <4>1
          <5> QED BY <1>1, <4>1, <5>1 DEF NextLocal, inputs
        <4> QED BY <1>1, <4>8, <4>9 DEF inputs, LocalTs
      <3> QED BY <3>2, <3>3
    <2> QED BY <2>1, <2>2, Frame
  <1>3. ASSUME NEW a \in Assets, HasExch(a)' PROVE (t <= ExchTs(a, NextExch(a)))'
    <2>1. CASE UNCHANGED exch
      BY <1>1, <1>3, <2>1 DEF exch, inputs, AllFrom, HasExch, NextExch, ExchTs
    <2>2. ASSUME NEW b \in Assets, ProcessExchData(b)
          PROVE  (t <= ExchTs(a, NextExch(a)))'
      <3>1. exch_cursor' = [exch_cursor EXCEPT ![b] = exch_cursor[b] + 1]
        BY <2>2 DEF ProcessExchData
      <3>2. CASE a # b
        <4>1. exch_cursor'[a] = exch_cursor[a]
          BY <1>1, <3>1, <3>2 DEF Streams
        <4> QED BY <1>1, <1>3, <4>1 DEF inputs, AllFrom, HasExch, NextExch, ExchTs
      <3>3. CASE a = b
        <4> DEFINE c == exch_cursor[a]
                   o == exch_order[a]
                   n == Len(rows[a])
        <4>1. HasExch(a) /\ c \in Nat /\ n \in Nat /\ exch_cursor'[a] = c + 1
          BY <1>1, <2>2, <3>1, <3>3, NextTyped DEF Streams, ProcessExchData
        <4>2. c + 1 < n
          BY <1>1, <1>3, <4>1 DEF HasExch, inputs
        <4>3. c + 1 \in 1 .. n /\ c + 2 \in 1 .. n /\ c + 1 <= c + 2
          BY <4>1, <4>2
        <4>4. ExchTs(a, o[c + 1]) <= ExchTs(a, o[c + 2])
          BY <1>1, <4>3 DEF Sorted
        <4>5. t <= ExchTs(a, o[c + 1])
          BY <4>1 DEF AllFrom, NextExch
        <4>6. o[c + 1] \in 1 .. n /\ o[c + 2] \in 1 .. n
          BY <1>1, <4>3 DEF Streams
        <4>7. ExchTs(a, o[c + 1]) \in Int /\ ExchTs(a, o[c + 2]) \in Int
          BY <1>1, <4>6, RowTimesTyped
        <4>8. t <= ExchTs(a, o[c + 2])
          BY <4>4, <4>5, <4>7
        <4>9. NextExch(a)' = o[c + 2]
          <5>1. (c + 1) + 1 = c + 2
            BY <4>1
          <5> QED BY <1>1, <4>1, <5>1 DEF NextExch, inputs
        <4> QED BY <1>1, <4>8, <4>9 DEF inputs, ExchTs
      <3> QED BY <3>2, <3>3
    <2> QED BY <2>1, <2>2, Frame
  <1>4. \A p \in pending' : t <= p.ts
    <2>1. \A p \in pending : t <= p.ts
      BY DEF AllFrom
    <2>2. ASSUME NEW new, pending' \subseteq pending \cup {new}, t <= new.ts
          PROVE  \A p \in pending' : t <= p.ts
      BY <2>1, <2>2
    <2>3. CASE UNCHANGED pending
      BY <2>1, <2>3
    <2>4. CASE Submits
      <3>1. PICK a \in Assets, id \in OrderIds, side \in {BUY, SELL},
                 px \in PriceArgs, qty \in QtyArgs, tif \in {TIF_FOK, TIF_IOC} :
                 Submit(a, id, side, px, qty, tif)
        BY <2>4 DEF Submits
      <3> DEFINE new == [ts |-> SatAdd(current_ts, config[a].entry_latency), asset_no |-> a,
                         order_id |-> id, kind |-> REQUEST, serial |-> next_serial + 1]
      <3>2. /\ pending' = pending \cup {new} /\ new \in PendingEvent
            /\ current_ts <= new.ts
        BY <3>1, SubmitSends
      <3>3. new.ts \in Int /\ current_ts \in Int /\ ~Running
        BY <3>1, <3>2, TypeOKParts, I64Assumption
           DEF PendingEvent, Submit, Typed, Control, I64
      <3> HIDE DEF new
      <3>4. t <= new.ts
        BY <3>2, <3>3
      <3> QED BY <2>2, <3>2, <3>4
    <2>5. ASSUME NEW p \in pending, ProcessRequest(p) PROVE \A q \in pending' : t <= q.ts
      <3> DEFINE new == [ts |-> SatAdd(p.ts, config[p.asset_no].response_latency),
                         asset_no |-> p.asset_no, order_id |-> p.order_id,
                         kind |-> RESPONSE, serial |-> next_serial + 1]
      <3>1. /\ pending' = (pending \ {p}) \cup {new} /\ new \in PendingEvent
            /\ p.ts <= new.ts
        BY <2>5, RequestAnswers
      <3>2. new.ts \in Int /\ p.ts \in Int /\ t <= p.ts
        BY <2>1, <3>1, TypeOKParts, I64Assumption DEF PendingEvent, Typed, InFlight, I64
      <3> HIDE DEF new
      <3>3. t <= new.ts
        BY <3>1, <3>2
      <3> QED BY <2>2, <3>1, <3>3
    <2>6. ASSUME NEW p \in pending, ProcessResponse(p) PROVE \A q \in pending' : t <= q.ts
      BY <2>1, <2>6 DEF ProcessResponse
    <2> QED BY <2>3, <2>4, <2>5, <2>6, Frame
  <1> QED BY <1>2, <1>3, <1>4 DEF AllFrom

\* The exchange has received nothing stamped after t.
ReceivedBy(t) == \A a \in Assets : \A i \in 1 .. exch_cursor[a] : ExchTs(a, exch_order[a][i]) <= t

Clock == /\ NothingOverdue
         /\ Running => current_ts <= call.target
         /\ ReceivedBy(current_ts)

\* What handling the picked event does to the clock.
LEMMA PickAdvances ==
  ASSUME Typed, Clock, [Next]_vars, NEW key, Picks(key), current_ts' = key[1]
  PROVE  /\ current_ts <= current_ts' /\ current_ts' <= call.target
         /\ AllFrom(current_ts)'
  <1>1. /\ key \in EventKeys /\ Running /\ key[1] <= call.target /\ key[1] \in Int
        /\ \A k \in EventKeys : key[1] <= k[1]
    BY PickedIsFirst DEF Typed, NotBefore, Picks, IsNext, Keys
  <1>2. current_ts <= key[1]
    BY <1>1 DEF Clock, NothingOverdue
  <1>3. PICK t \in Int : t = key[1]
    BY <1>1
  <1>4. AllFrom(t)
    BY <1>1, <1>3, AllFromKeys
  <1>5. AllFrom(t)'
    BY <1>1, <1>4, LaterNext
  <1>6. current_ts' = t
    BY <1>3
  <1>7. AllFrom(current_ts)'
    BY <1>5, <1>6 DEF AllFrom
  <1> QED BY <1>1, <1>2, <1>7

LEMMA ClockInit == Init => Clock
  <1> SUFFICES ASSUME Init PROVE Clock
    OBVIOUS
  <1>1. TypeOK
    BY TypedInit DEF Typed
  <1>2. \A a \in Assets : \A i \in 1 .. Len(rows[a]) :
          current_ts <= LocalTs(a, i) /\ current_ts <= ExchTs(a, i)
    <2> SUFFICES ASSUME NEW a \in Assets, NEW i \in 1 .. Len(rows[a])
                 PROVE  current_ts <= LocalTs(a, i) /\ current_ts <= ExchTs(a, i)
      OBVIOUS
    <2>1. <<a, i>> \in Indices
      BY <1>1 DEF TypeOK, Indices, Assets
    <2>2. {LocalTs(a, i), ExchTs(a, i)} \subseteq RowTimes
      BY <2>1 DEF RowTimes
    <2> QED BY <2>2 DEF Init
  <1>3. AllFrom(current_ts)
    BY <1>1, <1>2, NextTyped DEF AllFrom, Init
  <1>4. ReceivedBy(current_ts) /\ ~Running
    BY DEF Init, ReceivedBy, Running, NoCall
  <1> QED BY <1>3, <1>4, AllFromKeys DEF Clock, NothingOverdue

\* What the exchange has received stays in the past.
LEMMA ReceivedNext ==
  ASSUME Typed, Clock, [Next]_vars, current_ts <= current_ts'
  PROVE  ReceivedBy(current_ts)'
  <1>1. UNCHANGED inputs /\ TypeOK /\ Streams /\ Streams' /\ ReceivedBy(current_ts)
    BY Frame, TypeOKParts, StreamsNext DEF Typed, Clock
  <1>2. current_ts \in Int /\ current_ts' \in Int
    BY TypeOKParts, ControlNext, I64Assumption DEF Typed, Control, I64
  <1>3. \A a \in Assets : \A i \in 1 .. Len(rows[a]) : ExchTs(a, exch_order[a][i]) \in Int
    BY <1>1, RowTimesTyped DEF Streams
  <1>4. \A a \in Assets : exch_cursor[a] \in 0 .. Len(rows[a]) /\ Len(rows[a]) \in Nat
    BY <1>1, NextTyped DEF Streams
  <1>5. \A a \in Assets : \A i \in 1 .. exch_cursor[a] : ExchTs(a, exch_order[a][i]) <= current_ts'
    <2> SUFFICES ASSUME NEW a \in Assets, NEW i \in 1 .. exch_cursor[a]
                 PROVE  ExchTs(a, exch_order[a][i]) <= current_ts'
      OBVIOUS
    <2>1. i \in 1 .. Len(rows[a])
      BY <1>4
    <2>2. ExchTs(a, exch_order[a][i]) <= current_ts
      BY <1>1 DEF ReceivedBy
    <2>3. ExchTs(a, exch_order[a][i]) \in Int
      BY <1>3, <2>1
    <2> QED BY <1>2, <2>2, <2>3
  <1>6. \A a \in Assets : \A i \in 1 .. exch_cursor'[a] : ExchTs(a, exch_order[a][i]) <= current_ts'
    <2>1. CASE UNCHANGED exch
      BY <1>5, <2>1 DEF exch
    <2>2. ASSUME NEW b \in Assets, ProcessExchData(b)
          PROVE  \A a \in Assets : \A i \in 1 .. exch_cursor'[a] :
                   ExchTs(a, exch_order[a][i]) <= current_ts'
      <3> SUFFICES ASSUME NEW a \in Assets, NEW i \in 1 .. exch_cursor'[a]
                   PROVE  ExchTs(a, exch_order[a][i]) <= current_ts'
        OBVIOUS
      <3>1. /\ exch_cursor' = [exch_cursor EXCEPT ![b] = exch_cursor[b] + 1]
            /\ current_ts' = ExchTs(b, exch_order[b][exch_cursor[b] + 1])
        BY <2>2 DEF ProcessExchData, ExchKey, NextExch
      <3>2. exch_cursor'[a] = IF a = b THEN exch_cursor[b] + 1 ELSE exch_cursor[a]
        BY <1>1, <3>1 DEF Streams
      <3>3. CASE a = b /\ i = exch_cursor[b] + 1
        BY <1>2, <3>1, <3>3
      <3>4. CASE ~(a = b /\ i = exch_cursor[b] + 1)
        <4>1. i \in 1 .. exch_cursor[a]
          BY <1>4, <3>2, <3>4
        <4> QED BY <1>5, <4>1
      <3> QED BY <3>3, <3>4
    <2> QED BY <2>1, <2>2, Frame
  <1> QED BY <1>1, <1>6 DEF ReceivedBy, inputs, ExchTs

\* The clock never runs past the target of the call or over an event.
Advances == /\ AllFrom(current_ts)' /\ current_ts <= current_ts'
            /\ Running' => current_ts' <= call'.target

LEMMA ClockAdvances ==
  ASSUME Typed, Clock, [Next]_vars
  PROVE  Advances
  <1>1. TypeOK /\ Control /\ AllFrom(current_ts) /\ current_ts \in Int /\ call.target \in Int
    BY TypeOKParts, AllFromKeys, I64Assumption
       DEF Typed, Control, Clock, NothingOverdue, I64, Calls
  <1>2. ASSUME UNCHANGED current_ts,
               Running' => \/ Running /\ UNCHANGED call
                           \/ current_ts <= call'.target
        PROVE  Advances
    <2>1. AllFrom(current_ts)'
      <3>1. PICK t \in Int : t = current_ts
        BY <1>1
      <3>2. AllFrom(t)'
        BY <1>1, <3>1, LaterNext
      <3>3. current_ts' = t
        BY <1>2, <3>1
      <3> QED BY <3>2, <3>3 DEF AllFrom
    <2> QED BY <1>1, <1>2, <2>1 DEF Clock, Advances
  <1>3. ASSUME NEW key, Picks(key), current_ts' = key[1],
               call' = call \/ call'.target = current_ts'
        PROVE  Advances
    <2>1. current_ts' \in Int
      BY ControlNext, I64Assumption DEF Control, I64
    <2> QED BY <1>3, <2>1, PickAdvances DEF Advances
  <1>4. CASE UNCHANGED vars
    BY <1>2, <1>4 DEF vars, Running
  <1>5. ASSUME NEW a \in Assets, ProcessLocalData(a) PROVE Advances
    BY <1>3, <1>5 DEF ProcessLocalData
  <1>6. ASSUME NEW a \in Assets, ProcessExchData(a) PROVE Advances
    BY <1>3, <1>6 DEF ProcessExchData
  <1>7. ASSUME NEW p \in pending, ProcessRequest(p) PROVE Advances
    BY <1>1, <1>3, <1>7, EventTimes DEF ProcessRequest
  <1>8. ASSUME NEW p \in pending, ProcessResponse(p) PROVE Advances
    <2>1. current_ts' = PendingKey(p)[1] /\ Picks(PendingKey(p))
      BY <1>1, <1>8, EventTimes DEF ProcessResponse
    <2>2. call' = call \/ call'.target = current_ts'
      BY <1>1, <1>8 DEF ProcessResponse, DrainAfter, Control, Calls
    <2> QED BY <1>3, <2>1, <2>2
  <1>9. CASE ReturnFromLoop
    <2>1. PICK t \in Int : t = call.target
      BY <1>1
    <2>2. \A k \in EventKeys : t <= k[1]
      BY <1>1, <1>9, <2>1, KeysTyped DEF ReturnFromLoop, NothingDue, Keys
    <2>3. AllFrom(t)' /\ current_ts' = t /\ current_ts <= t
      BY <1>9, <2>1, <2>2, AllFromKeys, LaterNext DEF ReturnFromLoop, Clock
    <2>4. ~Running'
      BY <1>1, <1>9 DEF ReturnFromLoop, Running, Control, Calls
    <2> QED BY <2>3, <2>4 DEF Advances, AllFrom
  <1>10. ASSUME NEW op, NEW key, NEW rc, ReturnAtOnce(op, key, rc), UNCHANGED current_ts
         PROVE  Advances
    BY <1>2, <1>10 DEF ReturnAtOnce, Running
  <1>11. CASE Strategy
    <2>1. ASSUME NEW a \in AssetArgs, NEW id \in OrderIds, NEW side \in SideArgs,
                 NEW tif \in TifArgs
          PROVE  /\ SubmitRejected(a, id, side, tif) => Advances
                 /\ \A px, qty : Submit(a, id, side, px, qty, tif) => Advances
      BY <1>10 DEF SubmitRejected, Submit
    <2>2. ASSUME NEW d \in DurationArgs, Elapse(d) PROVE Advances
      BY <1>2, <2>2, TargetType, ArgsAssumption DEF Elapse
    <2>3. ASSUME NEW d \in DurationArgs, ElapseRefused(d) PROVE Advances
      BY <1>10, <2>3 DEF ElapseRefused
    <2>4. ASSUME NEW k \in AssetArgs \X OrderIds, WaitAnswered(k) PROVE Advances
      BY <1>10, <2>4 DEF WaitAnswered
    <2>5. ASSUME NEW k \in AssetArgs \X OrderIds, NEW timeout \in TimeoutArgs,
                 WaitResponse(k, timeout)
          PROVE  Advances
      BY <1>2, <2>5, TargetType, ArgsAssumption DEF WaitResponse
    <2> QED BY <1>11, <2>1, <2>2, <2>3, <2>4, <2>5 DEF Strategy
  <1>12. CASE ProcessThrough
    BY <1>5, <1>6, <1>7, <1>8, <1>9, <1>12 DEF ProcessThrough
  <1> QED BY <1>4, <1>11, <1>12 DEF Next

LEMMA OverdueKeys == NothingOverdue <=> AllFrom(current_ts)
  BY AllFromKeys DEF NothingOverdue

LEMMA ClockNext ==
  ASSUME Typed, Clock, [Next]_vars
  PROVE  Clock' /\ current_ts <= current_ts'
  <1>1. AllFrom(current_ts)' /\ current_ts <= current_ts'
        /\ (Running' => current_ts' <= call'.target)
    BY ClockAdvances DEF Advances
  <1>2. (NothingOverdue <=> AllFrom(current_ts))'
    BY OverdueKeys, PTL
  <1> QED BY <1>1, <1>2, ReceivedNext DEF Clock

LEMMA AlwaysClock == Spec => [](Typed /\ Clock)
  <1>1. Init => Typed /\ Clock
    BY TypedInit, ClockInit
  <1>2. (Typed /\ Clock) /\ [Next]_vars => (Typed /\ Clock)'
    BY TypedNext, ClockNext
  <1> QED BY <1>1, <1>2, PTL DEF Spec

\* No event is ever left behind the clock.
THEOREM NeverOverdue == Spec => []NothingOverdue
  <1>1. Clock => NothingOverdue
    BY DEF Clock
  <1> QED BY <1>1, AlwaysClock, PTL

\* The clock never goes back.
THEOREM EngineClock == Spec => ClockMonotone
  <1>1. Typed /\ Clock /\ [Next]_vars => [current_ts' >= current_ts]_vars
    <2> SUFFICES ASSUME Typed, Clock, [Next]_vars PROVE current_ts' >= current_ts
      OBVIOUS
    <2> QED BY ClockNext
  <1> QED BY <1>1, AlwaysClock, PTL DEF Spec, ClockMonotone

\* Only the loop's end returns from a call that ran the loop.
LEMMA LoopEnds ==
  ASSUME Typed, [Next]_vars, Running, ~Running'
  PROVE  ReturnFromLoop
  <1>1. call \in Calls
    BY TypeOKParts DEF Typed, Control
  <1>2. CASE UNCHANGED vars
    BY <1>2 DEF vars, Running
  <1>3. CASE Strategy
    BY <1>3 DEF Strategy, SubmitRejected, Submit, Elapse, ElapseRefused, WaitAnswered,
                WaitResponse
  <1>4. ASSUME NEW a \in Assets, ProcessLocalData(a) \/ ProcessExchData(a) PROVE FALSE
    BY <1>4 DEF ProcessLocalData, ProcessExchData, Running
  <1>5. ASSUME NEW p \in pending, ProcessRequest(p) PROVE FALSE
    BY <1>5 DEF ProcessRequest, Running
  <1>6. ASSUME NEW p \in pending, ProcessResponse(p) PROVE FALSE
    BY <1>1, <1>6 DEF ProcessResponse, DrainAfter, Running, Calls
  <1> QED BY <1>2, <1>3, <1>4, <1>5, <1>6 DEF Next, ProcessThrough

\* A call that ran the loop returns at its target with nothing due left.
THEOREM EngineReturns == Spec => ReturnsDrained
  <1> DEFINE D == Running /\ ~Running' => /\ current_ts' = call'.target
                                          /\ \A k \in EventKeys' : k[1] > current_ts'
  <1>1. Typed /\ [Next]_vars => [D]_vars
    <2> SUFFICES ASSUME Typed, [Next]_vars, Running, ~Running'
                 PROVE  /\ current_ts' = call'.target
                        /\ \A k \in EventKeys' : k[1] > current_ts'
      OBVIOUS
    <2>1. call \in Calls
      BY TypeOKParts DEF Typed, Control
    <2>2. ReturnFromLoop
      BY LoopEnds
    <2>3. current_ts' = call.target /\ call'.target = call.target
      BY <2>1, <2>2 DEF ReturnFromLoop, Calls
    <2>4. EventKeys' = EventKeys
      BY <2>2 DEF ReturnFromLoop, EventKeys, inputs, local, exch, trading, HasLocal, HasExch,
                  LocalKey, ExchKey, NextLocal, NextExch, LocalTs, ExchTs
    <2> QED BY <2>2, <2>3, <2>4 DEF ReturnFromLoop, NothingDue
  <1> QED BY <1>1, AlwaysTyped, PTL DEF Spec, ReturnsDrained

\* What the exchange has when it handles a request.
LEMMA ReceivedExactly ==
  ASSUME Typed, Clock, [Next]_vars, NEW p \in pending, ProcessRequest(p), NEW a, a = p.asset_no
  PROVE  \A i \in 1 .. Len(rows[a]) :
           i <= exch_cursor[a] <=> ExchTs(a, exch_order[a][i]) <= p.ts
<1> DEFINE n == Len(rows[a])
           c == exch_cursor[a]
           T(i) == ExchTs(a, exch_order[a][i])
<1>1. TypeOK /\ InFlight /\ Control /\ Streams /\ Sorted
  BY TypeOKParts DEF Typed
<1>2. a \in Assets /\ p.ts \in Int /\ p.kind = REQUEST
  BY <1>1, I64Assumption DEF InFlight, PendingEvent, I64, ProcessRequest
<1>3. Picks(PendingKey(p)) /\ current_ts' = p.ts
  BY DEF ProcessRequest
<1>4. c \in Nat /\ n \in Nat /\ c <= n
  BY <1>1, <1>2, NextTyped DEF Streams
<1>5. \A i \in 1 .. n : T(i) \in Int
  BY <1>1, <1>2, RowTimesTyped DEF Streams
<1>6. current_ts <= p.ts /\ current_ts \in Int
  BY <1>1, <1>3, ClockNext, I64Assumption DEF Control, I64
<1>7. ASSUME NEW i \in 1 .. n, i <= c PROVE T(i) <= p.ts
  <2>1. T(i) <= current_ts
    BY <1>2, <1>4, <1>7 DEF Clock, ReceivedBy
  <2>2. T(i) \in Int
    BY <1>5
  <2> HIDE DEF T
  <2> QED
    BY <1>2, <1>6, <2>1, <2>2
<1>8. ASSUME NEW i \in 1 .. n, i > c PROVE T(i) > p.ts
  <2>1. HasExch(a) /\ c + 1 \in 1 .. n /\ c + 1 <= i
    BY <1>4, <1>8 DEF HasExch
  <2>2. NotBefore(ExchKey(a), PendingKey(p))
    BY <1>1, <1>2, <1>3, <2>1, PickedIsFirst, EventKeysAre
  <2>3. /\ PendingKey(p)[1] = p.ts /\ PendingKey(p)[2] = a /\ PendingKey(p)[3] = 3
        /\ ExchKey(a)[1] = T(c + 1) /\ ExchKey(a)[2] = a /\ ExchKey(a)[3] = 2
    BY <1>2 DEF PendingKey, ExchKey, NextExch, REQUEST, EXCH_DATA
  <2>4. T(c + 1) \in Int /\ T(i) \in Int
    BY <1>5, <2>1
  <2>5. T(c + 1) <= T(i)
    BY <1>1, <1>2, <2>1 DEF Sorted
  <2> HIDE DEF T
  <2>6. T(c + 1) > p.ts
    BY <1>2, <2>2, <2>3, <2>4 DEF NotBefore
  <2> QED
    BY <1>2, <2>4, <2>5, <2>6
<1>9. ASSUME NEW i \in 1 .. n PROVE i <= c <=> T(i) <= p.ts
  <2>1. T(i) \in Int /\ (i <= c \/ i > c)
    BY <1>4, <1>5
  <2> HIDE DEF T
  <2> QED
    BY <1>2, <1>4, <1>7, <1>8, <2>1
<1> QED
  BY <1>9

\* An order is matched on every row the exchange has by its arrival and no other.
THEOREM EngineNoLookahead == Spec => NoLookahead
  <1> DEFINE N == \A k \in DOMAIN orders :
                    orders[k].status = STATUS_NEW /\ orders'[k].status # STATUS_NEW =>
                      LET a == k[1]
                      IN \A i \in 1 .. Len(rows[a]) :
                           i <= exch_cursor[a] <=> ExchTs(a, exch_order[a][i]) <= orders'[k].exch_ts
  <1>1. Typed /\ Clock /\ [Next]_vars => [N]_vars
    <2> SUFFICES ASSUME Typed, Clock, [Next]_vars,
                        NEW k \in DOMAIN orders,
                        orders[k].status = STATUS_NEW, orders'[k].status # STATUS_NEW
                 PROVE  \A i \in 1 .. Len(rows[k[1]]) :
                          i <= exch_cursor[k[1]]
                            <=> ExchTs(k[1], exch_order[k[1]][i]) <= orders'[k].exch_ts
      OBVIOUS
    <2>1. TypeOK /\ OrdersTyped /\ InFlight /\ Control /\ Streams /\ Sorted
      BY TypeOKParts DEF Typed
    <2>2. PICK p \in pending : ProcessRequest(p) /\ k = <<p.asset_no, p.order_id>>
      <3>1. CASE UNCHANGED orders
        BY <3>1
      <3>2. CASE Submits
        BY <3>2 DEF Submits, Submit, Duplicate
      <3>3. ASSUME NEW p \in pending, ProcessResponse(p) PROVE FALSE
        <4> DEFINE q == <<p.asset_no, p.order_id>>
        <4>1. orders' = [orders EXCEPT ![q] = Shown(orders[q], p.ts)]
          BY <3>3, ResponseEffect
        <4>2. orders[k] \in Order /\ p.ts \in I64
          BY <2>1 DEF OrdersTyped, InFlight, PendingEvent
        <4>3. orders'[k].status = orders[k].status
          <5>1. CASE k = q
            <6>1. orders'[k] = Shown(orders[k], p.ts)
              BY <4>1, <5>1
            <6>2. Shown(orders[k], p.ts).status = orders[k].status
              BY <4>2, ShownType
            <6> QED BY <6>1, <6>2
          <5>2. CASE k # q
            BY <4>1, <5>2
          <5> QED BY <5>1, <5>2
        <4> QED BY <4>3
      <3>4. ASSUME NEW p \in pending, ProcessRequest(p) PROVE k = <<p.asset_no, p.order_id>>
        BY <2>1, <3>4, RequestEffect DEF OrdersTyped
      <3> QED BY <3>1, <3>2, <3>3, <3>4, Frame
    <2>3. k[1] = p.asset_no /\ p.ts \in I64
      BY <2>1, <2>2 DEF InFlight, PendingEvent
    <2>4. orders'[k].exch_ts = p.ts
      <3>1. orders[k] \in Order
        BY <2>1 DEF OrdersTyped
      <3>2. PICK d : orders' = [orders EXCEPT ![k] = Decided(orders[k], p.ts, d)]
        BY <2>2, RequestEffect
      <3> QED BY <2>1, <3>1, <3>2, DecidedFields DEF OrdersTyped
    <2>5. \A i \in 1 .. Len(rows[k[1]]) :
            i <= exch_cursor[k[1]] <=> ExchTs(k[1], exch_order[k[1]][i]) <= p.ts
      BY <2>2, <2>3, ReceivedExactly
    <2> QED BY <2>4, <2>5
  <1> QED BY <1>1, AlwaysClock, PTL DEF Spec, NoLookahead

-----------------------------------------------------------------------------
(* What the books show.                                                    *)

\* f are the books after 0 .. m rows.
BooksOf(f, rs, order, m) ==
  f = [n \in 0 .. m |-> IF n = 0 THEN EmptyDepth ELSE ApplyRow(f[n - 1], rs[order[n]])]

\* They exist: a least number of rows without them would be one row past a
\* number with them.
LEMMA BooksExist ==
  ASSUME NEW rs, NEW order, NEW n \in Nat
  PROVE  \E f : BooksOf(f, rs, order, n)
<1> DEFINE Bad == {m \in Nat : ~\E f : BooksOf(f, rs, order, m)}
<1>1. SUFFICES ASSUME Bad # {} PROVE FALSE
  OBVIOUS
<1>2. PICK m \in Bad : \A k \in Bad : m <= k
  <2>1. Bad \subseteq Nat
    OBVIOUS
  <2> HIDE DEF Bad
  <2> QED
    BY <1>1, <2>1, LeastOne
<1>3. m \in Nat /\ ~\E f : BooksOf(f, rs, order, m)
  OBVIOUS
<1>4. CASE m = 0
  <2>1. BooksOf([i \in 0 .. 0 |-> EmptyDepth], rs, order, 0)
    BY DEF BooksOf
  <2> QED
    BY <1>3, <1>4, <2>1
<1>5. CASE m # 0
  <2>1. m - 1 \in Nat /\ m - 1 \notin Bad
    BY <1>2, <1>3, <1>5
  <2>2. PICK f : BooksOf(f, rs, order, m - 1)
    BY <2>1
  <2> DEFINE g == [i \in 0 .. m |-> IF i = 0 THEN EmptyDepth
                                    ELSE ApplyRow(f[i - 1], rs[order[i]])]
  <2>3. \A i \in 0 .. m - 1 : g[i] = f[i]
    BY <1>3, <2>1, <2>2 DEF BooksOf
  <2>4. \A i \in 1 .. m : i - 1 \in 0 .. m - 1
    BY <1>3
  <2>5. \A i \in 0 .. m : i # 0 => i \in 1 .. m
    BY <1>3
  <2>6. g = [i \in 0 .. m |-> IF i = 0 THEN EmptyDepth
                              ELSE ApplyRow(f[i - 1], rs[order[i]])]
    OBVIOUS
  <2> HIDE DEF g
  <2>7. BooksOf(g, rs, order, m)
    BY <2>3, <2>4, <2>5, <2>6 DEF BooksOf
  <2> QED
    BY <1>3, <2>7
<1> QED
  BY <1>4, <1>5

LEMMA DepthsStep ==
  ASSUME NEW rs, Len(rs) \in Nat, NEW order
  PROVE  /\ DepthsAlong(rs, order)[0] = EmptyDepth
         /\ \A n \in 1 .. Len(rs) :
              DepthsAlong(rs, order)[n] = ApplyRow(DepthsAlong(rs, order)[n - 1], rs[order[n]])
<1> DEFINE D == DepthsAlong(rs, order)
<1>1. D = CHOOSE f : BooksOf(f, rs, order, Len(rs))
  BY Zenon DEF DepthsAlong, BooksOf
<1>2. BooksOf(D, rs, order, Len(rs))
  BY <1>1, BooksExist
<1> HIDE DEF D
<1>3. D[0] = EmptyDepth /\ \A n \in 1 .. Len(rs) : D[n] = ApplyRow(D[n - 1], rs[order[n]])
  BY <1>2 DEF BooksOf
<1> QED
  BY <1>3 DEF D

\* Timestamps of the rows.
Times(rs, ts) == /\ rs \in Seq(BboRow)
                 /\ \A i \in DOMAIN rs : ts[i] \in Int

LEMMA RowsOrdered ==
  ASSUME NEW rs, NEW ts, Times(rs, ts)
  PROVE  Orders(RowBefore(rs, ts), DOMAIN rs)
<1>1. \A i \in DOMAIN rs : ts[i] \in Int /\ rs[i].source_seq \in Int /\ i \in Int
  <2>1. \A i \in DOMAIN rs : rs[i] \in BboRow /\ i \in Int /\ ts[i] \in Int
    BY DEF Times
  <2> QED
    BY <2>1 DEF BboRow
<1>2. ASSUME NEW i \in DOMAIN rs PROVE <<i, i>> \notin RowBefore(rs, ts)
  BY <1>1 DEF RowBefore
<1>3. ASSUME NEW i \in DOMAIN rs, NEW j \in DOMAIN rs, NEW k \in DOMAIN rs,
             <<i, j>> \in RowBefore(rs, ts), <<j, k>> \in RowBefore(rs, ts)
      PROVE  <<i, k>> \in RowBefore(rs, ts)
  BY <1>1, <1>3 DEF RowBefore
<1> QED
  BY <1>2, <1>3 DEF Orders

LEMMA SortIsEnumeration ==
  ASSUME NEW rs, NEW ts, Times(rs, ts),
         NEW p \in StableOrders([i \in DOMAIN rs |-> <<ts[i], rs[i].source_seq>>])
  PROVE  p \in Enumerations(DOMAIN rs, RowBefore(rs, ts))
<1> DEFINE keys == [i \in DOMAIN rs |-> <<ts[i], rs[i].source_seq>>]
           n == Len(rs)
<1>1. n \in Nat /\ DOMAIN rs = 1 .. n /\ Cardinality(1 .. n) = n
  BY FS_Interval DEF Times
<1>2. p \in [1 .. n -> 1 .. n]
  BY <1>1, StableOrdersTyped
<1>3. \A i, j \in 1 .. n : i < j => PairBefore(keys[p[i]], keys[p[j]])
                                     \/ (keys[p[i]] = keys[p[j]] /\ p[i] < p[j])
  BY <1>1 DEF StableOrders
<1>4. \A x \in 1 .. n : keys[x] = <<ts[x], rs[x].source_seq>>
  BY <1>1
<1> HIDE DEF keys, n
<1>5. ASSUME NEW i \in 1 .. n, NEW j \in 1 .. n, i < j PROVE <<p[i], p[j]>> \in RowBefore(rs, ts)
  <2>1. p[i] \in 1 .. n /\ p[j] \in 1 .. n
    BY <1>2
  <2>2. PairBefore(keys[p[i]], keys[p[j]]) \/ (keys[p[i]] = keys[p[j]] /\ p[i] < p[j])
    BY <1>3, <1>5
  <2> QED
    BY <1>1, <1>4, <2>1, <2>2 DEF RowBefore, PairBefore
<1>6. DOMAIN p = 1 .. n
  BY <1>2
<1> QED
  BY <1>1, <1>2, <1>5, <1>6 DEF Enumerations

\* The reference is what the replay shows after the rows stamped up to t.
LEMMA ReferenceIs ==
  ASSUME NEW rs, NEW ts, Times(rs, ts), NEW order \in Enumerations(DOMAIN rs, RowBefore(rs, ts)),
         NEW t, NEW c \in 0 .. Len(rs), \A i \in 1 .. Len(rs) : i <= c <=> ts[order[i]] <= t
  PROVE  Reference(rs, t, ts) = ViewAfter(rs, order, c, ts)
<1> DEFINE n == Len(rs)
           D == {i \in DOMAIN rs : ts[i] <= t}
           first == [i \in 1 .. c |-> order[i]]
<1>1. /\ n \in Nat /\ DOMAIN rs = 1 .. n /\ c \in Nat /\ c <= n
      /\ IsFiniteSet(1 .. n) /\ Cardinality(1 .. n) = n
      /\ IsFiniteSet(1 .. c) /\ Cardinality(1 .. c) = c
  <2>1. n \in Nat /\ DOMAIN rs = 1 .. n
    BY DEF Times
  <2>2. c \in Nat /\ c <= n
    BY <2>1
  <2> HIDE DEF n
  <2>3. \A m \in Nat : IsFiniteSet(1 .. m) /\ Cardinality(1 .. m) = m
    BY FS_Interval
  <2> QED
    BY <2>1, <2>2, <2>3
<1>2. /\ order \in [1 .. n -> 1 .. n]
      /\ \A i, j \in 1 .. n : order[i] = order[j] => i = j
      /\ \A x \in 1 .. n : \E i \in 1 .. n : order[i] = x
  BY <1>1, RowsOrdered, EnumerationFacts
<1>3. InOrder(DOMAIN rs, RowBefore(rs, ts)) = order
  BY <1>1, RowsOrdered, InOrderIs
<1>4. \A i \in 1 .. n : i <= c <=> ts[order[i]] <= t
  OBVIOUS
<1>5. first \in Bijection(1 .. c, D)
  <2> HIDE DEF n
  <2>1. \A i \in 1 .. c : i \in 1 .. n
    BY <1>1
  <2>2. ASSUME NEW i \in 1 .. c PROVE order[i] \in D
    <3>1. i \in 1 .. n /\ i <= c
      BY <1>1, <2>1
    <3>2. ts[order[i]] <= t
      BY <1>4, <3>1
    <3> QED
      BY <1>1, <1>2, <3>1, <3>2
  <2>3. ASSUME NEW x \in D PROVE \E i \in 1 .. c : order[i] = x
    <3>1. x \in 1 .. n /\ ts[x] <= t
      BY <1>1
    <3>2. PICK i \in 1 .. n : order[i] = x
      BY <1>2, <3>1
    <3>3. i <= c
      BY <1>4, <3>1, <3>2
    <3> QED
      BY <1>1, <3>2, <3>3
  <2> HIDE DEF D
  <2>4. first \in [1 .. c -> D]
    BY <2>2
  <2>5. \A i, j \in 1 .. c : first[i] = first[j] => i = j
    BY <1>2, <2>1
  <2>6. \A x \in D : \E i \in 1 .. c : first[i] = x
    BY <2>3
  <2> HIDE DEF first
  <2> QED
    BY <2>4, <2>5, <2>6 DEF Bijection, Injection, Surjection, IsInjective
<1>6. Cardinality(D) = c
  <2> HIDE DEF D, first
  <2> QED
    BY <1>1, <1>5, FS_Bijection DEF ExistsBijection
<1> QED
  BY <1>3, <1>6 DEF Reference

\* A view that has been read off a book is not the one before the first row.
LEMMA ViewIsNew ==
  ASSUME NEW d, NEW row, NEW ts
  PROVE  ViewOf(d, row, ts) # DefaultView
<1>1. CASE d.best_bid = None
  BY <1>1 DEF ViewOf, DefaultView, NaN, None
<1>2. CASE d.best_ask = None
  BY <1>2 DEF ViewOf, DefaultView, NaN, None
<1>3. CASE d.best_bid # None /\ d.best_ask # None
  BY <1>3 DEF ViewOf, DefaultView
<1> QED
  BY <1>1, <1>2, <1>3

\* depth and view are those after the first c rows of the reference order.
Shows(rs, ts, order, c, depth, view) ==
  /\ order \in Enumerations(DOMAIN rs, RowBefore(rs, ts))
  /\ depth = DepthsAlong(rs, order)[c]
  /\ view = ViewAfter(rs, order, c, ts)

LEMMA ShowsFirst ==
  ASSUME NEW rs, NEW ts, Times(rs, ts),
         NEW order \in StableOrders([i \in DOMAIN rs |-> <<ts[i], rs[i].source_seq>>])
  PROVE  Shows(rs, ts, order, 0, EmptyDepth, DefaultView)
<1>1. Len(rs) \in Nat
  BY DEF Times
<1> QED
  BY <1>1, SortIsEnumeration, DepthsStep DEF Shows, ViewAfter

LEMMA ShowsNext ==
  ASSUME NEW rs, NEW ts, Times(rs, ts), NEW order, NEW c \in Nat, c + 1 \in 1 .. Len(rs),
         NEW depth, NEW view, Shows(rs, ts, order, c, depth, view)
  PROVE  LET row == rs[order[c + 1]]
         IN  Shows(rs, ts, order, c + 1, ApplyRow(depth, row),
                   ViewOf(ApplyRow(depth, row), row, ts[order[c + 1]]))
<1> DEFINE row == rs[order[c + 1]]
<1>1. Len(rs) \in Nat
  BY DEF Times
<1>2. (c + 1) - 1 = c /\ c + 1 # 0
  OBVIOUS
<1>3. DepthsAlong(rs, order)[c + 1] = ApplyRow(depth, row)
  BY <1>1, <1>2, DepthsStep DEF Shows
<1>4. ViewAfter(rs, order, c + 1, ts) = ViewOf(ApplyRow(depth, row), row, ts[order[c + 1]])
  BY <1>2, <1>3 DEF ViewAfter
<1> QED
  BY <1>3, <1>4 DEF Shows

\* On both sides, what has been applied is the start of the reference order,
\* and the strategy has read nothing stamped after the clock.
LocalShown(a) ==
  /\ Shows(rows[a], LocalTimes(a), local_order[a], local_cursor[a], local_depth[a], local_view[a])
  /\ feed_latency[a] = IF local_cursor[a] = 0 THEN <<>>
                       ELSE <<local_view[a].exch_ts, local_view[a].local_ts>>

ExchShown(a) ==
  Shows(rows[a], ExchTimes(a), exch_order[a], exch_cursor[a], exch_depth[a], exch_view[a])

ReadBy(t) == \A a \in Assets : \A i \in 1 .. local_cursor[a] : LocalTs(a, local_order[a][i]) <= t

Reading ==
  /\ local_view = [a \in Assets |-> local_view[a]]
  /\ feed_latency = [a \in Assets |-> feed_latency[a]]
  /\ \A a \in Assets : LocalShown(a) /\ ExchShown(a)
  /\ ReadBy(current_ts)

LEMMA TimesTyped ==
  ASSUME TypeOK, NEW a \in Assets
  PROVE  /\ DOMAIN rows[a] = 1 .. Len(rows[a])
         /\ Times(rows[a], ExchTimes(a)) /\ Times(rows[a], LocalTimes(a))
         /\ \A i \in 1 .. Len(rows[a]) : ExchTimes(a)[i] = ExchTs(a, i)
                                         /\ LocalTimes(a)[i] = LocalTs(a, i)
<1>1. rows[a] \in Seq(BboRow) /\ DOMAIN rows[a] = 1 .. Len(rows[a])
  BY DEF TypeOK
<1>2. \A i \in 1 .. Len(rows[a]) : ExchTs(a, i) \in Int /\ LocalTs(a, i) \in Int
  BY RowTimesTyped
<1> QED
  BY <1>1, <1>2 DEF Times, ExchTimes, LocalTimes

LEMMA ReadingInit == Init => Reading
<1> SUFFICES ASSUME Init PROVE Reading
  OBVIOUS
<1>1. TypeOK
  BY TypedInit DEF Typed
<1>2. ASSUME NEW a \in Assets PROVE LocalShown(a) /\ ExchShown(a)
  <2>1. local_order[a] \in LocalOrders(a) /\ exch_order[a] \in ExchOrders(a)
    BY DEF Init
  <2>2. /\ DOMAIN rows[a] = 1 .. Len(rows[a])
        /\ Times(rows[a], ExchTimes(a)) /\ Times(rows[a], LocalTimes(a))
        /\ \A i \in 1 .. Len(rows[a]) : ExchTimes(a)[i] = ExchTs(a, i)
                                        /\ LocalTimes(a)[i] = LocalTs(a, i)
    BY <1>1, TimesTyped
  <2>3. [i \in DOMAIN rows[a] |-> <<ExchTimes(a)[i], rows[a][i].source_seq>>]
          = [i \in 1 .. Len(rows[a]) |-> <<ExchTs(a, i), rows[a][i].source_seq>>]
    BY <2>2
  <2>4. [i \in DOMAIN rows[a] |-> <<LocalTimes(a)[i], rows[a][i].source_seq>>]
          = [i \in 1 .. Len(rows[a]) |-> <<LocalTs(a, i), rows[a][i].source_seq>>]
    BY <2>2
  <2>5. /\ Shows(rows[a], ExchTimes(a), exch_order[a], 0, EmptyDepth, DefaultView)
        /\ Shows(rows[a], LocalTimes(a), local_order[a], 0, EmptyDepth, DefaultView)
    BY <2>1, <2>2, <2>3, <2>4, ShowsFirst DEF LocalOrders, ExchOrders
  <2>6. /\ local_cursor[a] = 0 /\ exch_cursor[a] = 0 /\ feed_latency[a] = <<>>
        /\ local_depth[a] = EmptyDepth /\ exch_depth[a] = EmptyDepth
        /\ local_view[a] = DefaultView /\ exch_view[a] = DefaultView
    BY DEF Init
  <2> QED
    BY <2>5, <2>6 DEF LocalShown, ExchShown
<1>3. ReadBy(current_ts)
  BY DEF Init, ReadBy
<1> QED
  BY <1>2, <1>3 DEF Reading, Init

\* What the strategy has read stays in the past.
LEMMA ReadNext ==
  ASSUME Typed, ReadBy(current_ts), [Next]_vars, current_ts <= current_ts'
  PROVE  ReadBy(current_ts)'
<1>1. UNCHANGED inputs /\ TypeOK /\ Streams
  BY Frame, TypeOKParts DEF Typed
<1>2. current_ts \in Int /\ current_ts' \in Int
  BY TypeOKParts, ControlNext, I64Assumption DEF Typed, Control, I64
<1>3. \A a \in Assets : \A i \in 1 .. Len(rows[a]) : LocalTs(a, local_order[a][i]) \in Int
  BY <1>1, RowTimesTyped DEF Streams
<1>4. \A a \in Assets : local_cursor[a] \in 0 .. Len(rows[a]) /\ Len(rows[a]) \in Nat
  BY <1>1, NextTyped DEF Streams
<1>5. ASSUME NEW a \in Assets, NEW i \in 1 .. local_cursor[a]
      PROVE  LocalTs(a, local_order[a][i]) <= current_ts'
  <2>1. i \in 1 .. Len(rows[a])
    BY <1>4
  <2>2. LocalTs(a, local_order[a][i]) <= current_ts
    BY DEF ReadBy
  <2>3. LocalTs(a, local_order[a][i]) \in Int
    BY <1>3, <2>1
  <2> QED
    BY <1>2, <2>2, <2>3
<1>6. \A a \in Assets : \A i \in 1 .. local_cursor'[a] : LocalTs(a, local_order[a][i]) <= current_ts'
  <2>1. CASE UNCHANGED local
    BY <1>5, <2>1 DEF local
  <2>2. ASSUME NEW b \in Assets, ProcessLocalData(b),
               NEW a \in Assets, NEW i \in 1 .. local_cursor'[a]
        PROVE  LocalTs(a, local_order[a][i]) <= current_ts'
    <3>1. /\ local_cursor' = [local_cursor EXCEPT ![b] = local_cursor[b] + 1]
          /\ current_ts' = LocalTs(b, local_order[b][local_cursor[b] + 1])
      BY <2>2 DEF ProcessLocalData, LocalKey, NextLocal
    <3>2. local_cursor'[a] = IF a = b THEN local_cursor[b] + 1 ELSE local_cursor[a]
      BY <1>1, <3>1 DEF Streams
    <3>3. CASE a = b /\ i = local_cursor[b] + 1
      BY <1>2, <3>1, <3>3
    <3>4. CASE ~(a = b /\ i = local_cursor[b] + 1)
      <4>1. i \in 1 .. local_cursor[a]
        BY <1>4, <2>2, <3>2, <3>4
      <4> QED
        BY <1>5, <4>1
    <3> QED
      BY <3>3, <3>4
  <2> QED
    BY <2>1, <2>2, Frame
<1> QED
  BY <1>1, <1>6 DEF ReadBy, inputs, LocalTs

LEMMA TimesFixed ==
  ASSUME UNCHANGED inputs, NEW a
  PROVE  ExchTimes(a)' = ExchTimes(a) /\ LocalTimes(a)' = LocalTimes(a) /\ rows'[a] = rows[a]
         /\ local_order'[a] = local_order[a] /\ exch_order'[a] = exch_order[a]
BY DEF inputs, ExchTimes, LocalTimes, ExchTs, LocalTs

LEMMA ReadingNext ==
  ASSUME Typed, Clock, Reading, [Next]_vars
  PROVE  Reading'
<1>1. /\ UNCHANGED inputs /\ TypeOK /\ Books /\ Streams
      /\ ReadBy(current_ts) /\ current_ts <= current_ts'
  BY Frame, TypeOKParts, ClockNext DEF Typed, Reading
<1>2. ReadBy(current_ts)'
  BY <1>1, ReadNext
<1>3. /\ local_view' = [a \in Assets |-> local_view'[a]]
      /\ feed_latency' = [a \in Assets |-> feed_latency'[a]]
      /\ \A a \in Assets : LocalShown(a)'
  <2>1. CASE UNCHANGED local
    BY <1>1, <2>1, TimesFixed DEF local, Reading, LocalShown
  <2>2. ASSUME NEW b \in Assets, ProcessLocalData(b)
        PROVE  /\ local_view' = [a \in Assets |-> local_view'[a]]
               /\ feed_latency' = [a \in Assets |-> feed_latency'[a]]
               /\ \A a \in Assets : LocalShown(a)'
    <3> DEFINE c == local_cursor[b]
               i == local_order[b][c + 1]
               row == rows[b][i]
               d == ApplyRow(local_depth[b], row)
               v == ViewOf(d, row, LocalTs(b, i))
    <3>1. /\ local_depth' = [local_depth EXCEPT ![b] = d]
          /\ local_view' = [local_view EXCEPT ![b] = v]
          /\ feed_latency' = [feed_latency EXCEPT ![b] = <<row.exch_ts, LocalTs(b, i)>>]
          /\ local_cursor' = [local_cursor EXCEPT ![b] = c + 1]
          /\ HasLocal(b)
      BY <2>2 DEF ProcessLocalData, NextLocal, LocalTs
    <3>2. c \in Nat /\ c + 1 \in 1 .. Len(rows[b]) /\ i \in 1 .. Len(rows[b])
      BY <1>1, <3>1, NextTyped DEF Streams, NextLocal
    <3>3. LocalTimes(b)[i] = LocalTs(b, i) /\ Times(rows[b], LocalTimes(b))
      BY <1>1, <3>2, TimesTyped
    <3>4. Shows(rows[b], LocalTimes(b), local_order[b], c, local_depth[b], local_view[b])
      BY DEF Reading, LocalShown
    <3>5. Shows(rows[b], LocalTimes(b), local_order[b], c + 1, d, v)
      BY <3>2, <3>3, <3>4, ShowsNext
    <3>6. v.exch_ts = row.exch_ts /\ v.local_ts = LocalTs(b, i) /\ c + 1 # 0
      BY <3>2 DEF ViewOf
    <3> HIDE DEF c, i, row, d, v
    <3>7. /\ local_view' = [a \in Assets |-> local_view'[a]]
          /\ feed_latency' = [a \in Assets |-> feed_latency'[a]]
      BY <3>1 DEF Reading
    <3>8. LocalShown(b)'
      <4>1. /\ local_cursor'[b] = c + 1 /\ local_depth'[b] = d /\ local_view'[b] = v
            /\ feed_latency'[b] = <<v.exch_ts, v.local_ts>>
        BY <1>1, <3>1, <3>6 DEF Reading, Books, Streams
      <4> QED
        BY <1>1, <3>5, <3>6, <4>1, TimesFixed DEF LocalShown
    <3>9. ASSUME NEW a \in Assets, a # b PROVE LocalShown(a)'
      <4>1. /\ local_cursor'[a] = local_cursor[a] /\ local_depth'[a] = local_depth[a]
            /\ local_view'[a] = local_view[a] /\ feed_latency'[a] = feed_latency[a]
        BY <1>1, <3>1, <3>9 DEF Reading, Books, Streams
      <4> QED
        BY <1>1, <4>1, TimesFixed DEF LocalShown, Reading
    <3> QED
      BY <3>7, <3>8, <3>9
  <2> QED
    BY <2>1, <2>2, Frame
<1>4. \A a \in Assets : ExchShown(a)'
  <2>1. CASE UNCHANGED exch
    BY <1>1, <2>1, TimesFixed DEF exch, Reading, ExchShown
  <2>2. ASSUME NEW b \in Assets, ProcessExchData(b), NEW a \in Assets
        PROVE  ExchShown(a)'
    <3> DEFINE c == exch_cursor[b]
               i == exch_order[b][c + 1]
               row == rows[b][i]
               d == ApplyRow(exch_depth[b], row)
               v == ViewOf(d, row, ExchTs(b, i))
    <3>1. /\ exch_depth' = [exch_depth EXCEPT ![b] = d]
          /\ exch_view' = [exch_view EXCEPT ![b] = v]
          /\ exch_cursor' = [exch_cursor EXCEPT ![b] = c + 1]
          /\ HasExch(b)
      BY <2>2 DEF ProcessExchData, NextExch, ExchTs
    <3>2. c \in Nat /\ c + 1 \in 1 .. Len(rows[b]) /\ i \in 1 .. Len(rows[b])
      BY <1>1, <3>1, NextTyped DEF Streams, NextExch
    <3>3. ExchTimes(b)[i] = ExchTs(b, i) /\ Times(rows[b], ExchTimes(b))
      BY <1>1, <3>2, TimesTyped
    <3>4. Shows(rows[b], ExchTimes(b), exch_order[b], c, exch_depth[b], exch_view[b])
      BY DEF Reading, ExchShown
    <3>5. Shows(rows[b], ExchTimes(b), exch_order[b], c + 1, d, v)
      BY <3>2, <3>3, <3>4, ShowsNext
    <3> HIDE DEF c, i, row, d, v
    <3>6. CASE a = b
      <4>1. exch_cursor'[b] = c + 1 /\ exch_depth'[b] = d /\ exch_view'[b] = v
        BY <1>1, <3>1 DEF Books, Streams
      <4> QED
        BY <1>1, <3>5, <3>6, <4>1, TimesFixed DEF ExchShown
    <3>7. CASE a # b
      <4>1. /\ exch_cursor'[a] = exch_cursor[a] /\ exch_depth'[a] = exch_depth[a]
            /\ exch_view'[a] = exch_view[a]
        BY <1>1, <3>1, <3>7 DEF Books, Streams
      <4> QED
        BY <1>1, <4>1, TimesFixed DEF ExchShown, Reading
    <3> QED
      BY <3>6, <3>7
  <2> QED
    BY <2>1, <2>2, Frame
<1> QED
  BY <1>2, <1>3, <1>4 DEF Reading

LEMMA AlwaysReading == Spec => [](Typed /\ Clock /\ Reading)
<1>1. Init => Typed /\ Clock /\ Reading
  BY TypedInit, ClockInit, ReadingInit
<1>2. (Typed /\ Clock /\ Reading) /\ [Next]_vars => (Typed /\ Clock /\ Reading)'
  BY TypedNext, ClockNext, ReadingNext
<1> QED
  BY <1>1, <1>2, PTL DEF Spec

\* When a call returns, the strategy has exactly what has reached it.
LEMMA ReadExactly ==
  ASSUME Typed, Clock, Reading, [Next]_vars, ReturnFromLoop, NEW a \in Assets
  PROVE  \A i \in 1 .. Len(rows[a]) :
           i <= local_cursor[a] <=> LocalTs(a, local_order[a][i]) <= call.target
<1> DEFINE n == Len(rows[a])
           c == local_cursor[a]
           T(i) == LocalTs(a, local_order[a][i])
<1>1. TypeOK /\ Streams /\ Control /\ Sorted
  BY TypeOKParts DEF Typed
<1>2. c \in Nat /\ n \in Nat /\ c <= n
  BY <1>1, NextTyped DEF Streams
<1>3. \A i \in 1 .. n : T(i) \in Int
  BY <1>1, RowTimesTyped DEF Streams
<1>4. current_ts <= call.target /\ current_ts \in Int /\ call.target \in Int
  BY <1>1, I64Assumption DEF ReturnFromLoop, Clock, Control, Calls, I64
<1>5. ASSUME NEW i \in 1 .. n, i <= c PROVE T(i) <= call.target
  <2>1. T(i) <= current_ts
    BY <1>2, <1>5 DEF Reading, ReadBy
  <2>2. T(i) \in Int
    BY <1>3
  <2> HIDE DEF T
  <2> QED
    BY <1>4, <2>1, <2>2
<1>6. ASSUME NEW i \in 1 .. n, i > c PROVE T(i) > call.target
  <2>1. HasLocal(a) /\ c + 1 \in 1 .. n /\ c + 1 <= i
    BY <1>2, <1>6 DEF HasLocal
  <2>2. LocalKey(a) \in EventKeys /\ LocalKey(a)[1] = T(c + 1)
    BY <2>1 DEF EventKeys, LocalKey, NextLocal
  <2>3. T(c + 1) > call.target
    BY <2>2 DEF ReturnFromLoop, NothingDue
  <2>4. T(c + 1) <= T(i)
    BY <1>1, <2>1 DEF Sorted
  <2>5. T(c + 1) \in Int /\ T(i) \in Int
    BY <1>3, <2>1
  <2> HIDE DEF T
  <2> QED
    BY <1>4, <2>3, <2>4, <2>5
<1>7. \A i \in 1 .. n : i <= c \/ i > c
  BY <1>2
<1>8. ASSUME NEW i \in 1 .. n PROVE i <= c <=> T(i) <= call.target
  <2>1. T(i) \in Int
    BY <1>3
  <2> HIDE DEF T
  <2> QED
    BY <1>2, <1>4, <1>5, <1>6, <1>7, <2>1
<1> QED
  BY <1>8

\* A returning call leaves the strategy the quote and the feed latency of the
\* rows that have reached it by the clock.
THEOREM EngineSeesThePast == Spec => StrategySeesThePast
<1> DEFINE S == Running /\ ~Running' =>
                  \A a \in Assets :
                    LET view == Reference(rows[a], current_ts', LocalTimes(a))
                    IN /\ local_view'[a] = view
                       /\ feed_latency'[a] = IF view = DefaultView THEN <<>>
                                             ELSE <<view.exch_ts, view.local_ts>>
<1>1. Typed /\ Clock /\ Reading /\ [Next]_vars => [S]_vars
  <2> SUFFICES ASSUME Typed, Clock, Reading, [Next]_vars, Running, ~Running',
                      NEW a \in Assets
               PROVE  LET view == Reference(rows[a], current_ts', LocalTimes(a))
                      IN /\ local_view'[a] = view
                         /\ feed_latency'[a] = IF view = DefaultView THEN <<>>
                                               ELSE <<view.exch_ts, view.local_ts>>
    OBVIOUS
  <2>1. ReturnFromLoop
    BY LoopEnds
  <2>2. current_ts' = call.target /\ UNCHANGED local
    BY <2>1 DEF ReturnFromLoop
  <2> DEFINE c == local_cursor[a]
             view == Reference(rows[a], current_ts', LocalTimes(a))
  <2>3. /\ Times(rows[a], LocalTimes(a)) /\ c \in 0 .. Len(rows[a])
        /\ \A i \in 1 .. Len(rows[a]) : LocalTimes(a)[i] = LocalTs(a, i)
        /\ local_order[a] \in [1 .. Len(rows[a]) -> 1 .. Len(rows[a])]
        /\ Len(rows[a]) \in Nat
    BY TimesTyped, TypeOKParts, NextTyped DEF Typed, Streams
  <2>4. Shows(rows[a], LocalTimes(a), local_order[a], c, local_depth[a], local_view[a])
    BY DEF Reading, LocalShown
  <2>5. \A i \in 1 .. Len(rows[a]) : i <= c <=> LocalTimes(a)[local_order[a][i]] <= current_ts'
    BY <2>1, <2>2, <2>3, ReadExactly
  <2>6. view = ViewAfter(rows[a], local_order[a], c, LocalTimes(a))
    <3> HIDE DEF c
    <3> QED
      BY <2>3, <2>4, <2>5, ReferenceIs DEF Shows
  <2>7. view = local_view[a]
    BY <2>4, <2>6 DEF Shows
  <2>8. view = DefaultView <=> c = 0
    BY <2>6, ViewIsNew DEF ViewAfter
  <2>9. feed_latency[a] = IF c = 0 THEN <<>> ELSE <<local_view[a].exch_ts, local_view[a].local_ts>>
    BY DEF Reading, LocalShown
  <2> HIDE DEF view, c
  <2>10. /\ local_view'[a] = view
         /\ feed_latency'[a] = IF view = DefaultView THEN <<>> ELSE <<view.exch_ts, view.local_ts>>
    BY <2>2, <2>7, <2>8, <2>9 DEF local
  <2> QED
    BY <2>10 DEF view
<1> QED
  BY <1>1, AlwaysReading, PTL DEF Spec, StrategySeesThePast

\* The decision an order got, and the one a fresh book gives it.
DecisionOf(o) == [status |-> o.status, exec_price |-> o.exec_price,
                  exec_qty |-> o.exec_qty, leaves_qty |-> o.leaves_qty]

RightlyMatched(o, rs, ts) ==
  o.status # STATUS_NEW =>
    MatchImmediate(o.side, o.requested_price, o.requested_qty, Reference(rs, o.exch_ts, ts))
    = DecisionOf(o)

LEMMA MatchedNext ==
  ASSUME Typed, Clock, Reading, MatchedOnArrival, [Next]_vars
  PROVE  MatchedOnArrival'
<1>1. UNCHANGED inputs /\ TypeOK /\ OrdersTyped /\ InFlight /\ Control
  BY Frame, TypeOKParts DEF Typed
<1>2. \A k \in DOMAIN orders : RightlyMatched(orders[k], rows[k[1]], ExchTimes(k[1]))
  BY DEF MatchedOnArrival, RightlyMatched, DecisionOf
<1> SUFFICES ASSUME NEW k \in DOMAIN orders'
             PROVE  RightlyMatched(orders'[k], rows[k[1]], ExchTimes(k[1]))
  <2>1. \A k : ExchTimes(k[1])' = ExchTimes(k[1]) /\ rows'[k[1]] = rows[k[1]]
    BY <1>1, TimesFixed
  <2> QED
    BY <2>1 DEF MatchedOnArrival, RightlyMatched, DecisionOf
<1>3. CASE UNCHANGED orders
  BY <1>2, <1>3
<1>4. CASE Submits
  <2>1. PICK q : /\ DOMAIN orders' = DOMAIN orders \cup {q} /\ orders'[q].status = STATUS_NEW
                 /\ \A x \in DOMAIN orders : x # q => orders'[x] = orders[x]
    <3>1. PICK a \in Assets, id \in OrderIds, side \in {BUY, SELL}, px \in PriceArgs,
               qty \in QtyArgs, tif \in {TIF_FOK, TIF_IOC} : Submit(a, id, side, px, qty, tif)
      BY <1>4 DEF Submits
    <3> DEFINE q == <<a, id>>
    <3>2. orders' = [x \in DOMAIN orders \cup {q} |->
                       IF x = q THEN NewOrder(side, px, qty, tif) ELSE orders[x]]
      BY <3>1 DEF Submit
    <3>3. NewOrder(side, px, qty, tif).status = STATUS_NEW
      BY DEF NewOrder
    <3> HIDE DEF q
    <3> QED
      BY <3>2, <3>3
  <2>2. CASE k = q
    BY <2>1, <2>2 DEF RightlyMatched
  <2>3. CASE k # q
    BY <1>2, <2>1, <2>3
  <2> QED
    BY <2>2, <2>3
<1>5. ASSUME NEW p \in pending, ProcessRequest(p)
      PROVE  RightlyMatched(orders'[k], rows[k[1]], ExchTimes(k[1]))
  <2> DEFINE q == <<p.asset_no, p.order_id>>
             a == p.asset_no
             o == orders[q]
             d == MatchImmediate(o.side, o.requested_price, o.requested_qty, exch_view[a])
             new == Decided(o, p.ts, d)
  <2>1. orders' = [orders EXCEPT ![q] = new]
    BY <1>5, RequestEffect
  <2>2. CASE k # q
    BY <1>2, <2>1, <2>2
  <2>3. CASE k = q
    <3>1. o \in Order /\ orders'[k] = new /\ k[1] = a
      BY <1>1, <2>1, <2>3 DEF OrdersTyped
    <3>2. a \in Assets
      BY <1>1 DEF InFlight, PendingEvent
    <3>3. exch_view[a] = Reference(rows[a], p.ts, ExchTimes(a))
      <4>1. /\ Times(rows[a], ExchTimes(a)) /\ exch_cursor[a] \in 0 .. Len(rows[a])
            /\ \A i \in 1 .. Len(rows[a]) : ExchTimes(a)[i] = ExchTs(a, i)
            /\ exch_order[a] \in [1 .. Len(rows[a]) -> 1 .. Len(rows[a])]
            /\ Len(rows[a]) \in Nat
        BY <3>2, TimesTyped, TypeOKParts, NextTyped DEF Typed, Streams
      <4>2. Shows(rows[a], ExchTimes(a), exch_order[a], exch_cursor[a],
                  exch_depth[a], exch_view[a])
        BY <3>2 DEF Reading, ExchShown
      <4>3. \A i \in 1 .. Len(rows[a]) :
              i <= exch_cursor[a] <=> ExchTimes(a)[exch_order[a][i]] <= p.ts
        <5>1. \A i \in 1 .. Len(rows[a]) :
                i <= exch_cursor[a] <=> ExchTs(a, exch_order[a][i]) <= p.ts
          BY <1>5, ReceivedExactly
        <5> HIDE DEF a
        <5>2. \A i \in 1 .. Len(rows[a]) : exch_order[a][i] \in 1 .. Len(rows[a])
          BY <4>1
        <5> QED
          BY <4>1, <5>1, <5>2
      <4> HIDE DEF a
      <4> QED
        BY <4>1, <4>2, <4>3, ReferenceIs DEF Shows
    <3>4. /\ d.status = new.status /\ d.exec_price = new.exec_price
          /\ d.exec_qty = new.exec_qty /\ d.leaves_qty = new.leaves_qty
          /\ new.side = o.side /\ new.requested_price = o.requested_price
          /\ new.requested_qty = o.requested_qty /\ new.exch_ts = p.ts
      <4> HIDE DEF d, o
      <4> QED
        BY <3>1 DEF Decided, Order
    <3>5. d = [status |-> d.status, exec_price |-> d.exec_price,
               exec_qty |-> d.exec_qty, leaves_qty |-> d.leaves_qty]
      BY DEF MatchImmediate
    <3>6. d = MatchImmediate(o.side, o.requested_price, o.requested_qty,
                             Reference(rows[a], p.ts, ExchTimes(a)))
      BY <3>3
    <3> HIDE DEF d, new, o, a
    <3> QED
      BY <3>1, <3>4, <3>5, <3>6 DEF RightlyMatched, DecisionOf
  <2> QED
    BY <2>2, <2>3
<1>6. ASSUME NEW p \in pending, ProcessResponse(p)
      PROVE  RightlyMatched(orders'[k], rows[k[1]], ExchTimes(k[1]))
  <2> DEFINE q == <<p.asset_no, p.order_id>>
  <2>1. orders' = [orders EXCEPT ![q] = Shown(orders[q], p.ts)]
    BY <1>6, ResponseEffect
  <2>2. CASE k # q
    BY <1>2, <2>1, <2>2
  <2>3. CASE k = q
    <3> DEFINE o == orders[k]
               new == Shown(o, p.ts)
    <3>1. o \in Order /\ orders'[k] = new /\ k \in DOMAIN orders
      BY <1>1, <2>1, <2>3 DEF OrdersTyped
    <3> HIDE DEF o
    <3>2. DecisionOf(new) = DecisionOf(o) /\ new.exch_ts = o.exch_ts /\ new.status = o.status
          /\ new.side = o.side /\ new.requested_price = o.requested_price
          /\ new.requested_qty = o.requested_qty
      BY <3>1 DEF Shown, Order, DecisionOf
    <3>3. RightlyMatched(o, rows[k[1]], ExchTimes(k[1]))
      BY <1>2, <3>1 DEF o
    <3> HIDE DEF new
    <3> QED
      BY <3>1, <3>2, <3>3 DEF RightlyMatched
  <2> QED
    BY <2>2, <2>3
<1> QED
  BY <1>3, <1>4, <1>5, <1>6, Frame

\* Every decision is the one of a fresh exchange book on arrival.
THEOREM EngineMatchesOnArrival == Spec => []MatchedOnArrival
<1>1. Init => MatchedOnArrival
  BY DEF Init, MatchedOnArrival
<1>2. (Typed /\ Clock /\ Reading) /\ MatchedOnArrival /\ [Next]_vars => MatchedOnArrival'
  BY MatchedNext
<1> QED
  BY <1>1, <1>2, AlwaysReading, PTL DEF Spec
=============================================================================
