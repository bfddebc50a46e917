-------------------------- MODULE EngineOrderProofs --------------------------
(***************************************************************************)
(* The life cycle of orders, their first-in-first-out legs and the verdict *)
(* of wait_response, for all rows, latencies, arguments and bounds of the  *)
(* clock.                                                                  *)
(***************************************************************************)
EXTENDS EngineProofs, EngineRefinement

KeyOf(p) == <<p.asset_no, p.order_id>>

LEMMA EventsOfKey == \A k, p : p \in EventsOf(k) <=> p \in pending /\ KeyOf(p) = k
  BY DEF EventsOf, KeyOf

\* The latency sums only look at the inputs and at the order's first stamp.
LEMMA SameTimes ==
  ASSUME UNCHANGED inputs, NEW k, orders'[k].req_local_ts = orders[k].req_local_ts
  PROVE  /\ ArrivalTs(k)' = ArrivalTs(k)
         /\ ResponseTs(k)' = ResponseTs(k)
  BY DEF inputs, ArrivalTs, ResponseTs

\* A step that neither touches an order nor its events keeps its stage.
LEMMA Untouched ==
  ASSUME UNCHANGED inputs, NEW k, orders'[k] = orders[k], EventsOf(k)' = EventsOf(k),
         RequestSent(k) \/ ResponseSent(k) \/ Answered(k)
  PROVE  (RequestSent(k) \/ ResponseSent(k) \/ Answered(k))'
  <1>1. ArrivalTs(k)' = ArrivalTs(k) /\ ResponseTs(k)' = ResponseTs(k)
    BY SameTimes
  <1>2. \A p : p \in EventsOf(k) => p \in pending /\ (p \in pending)'
    BY DEF EventsOf
  <1>3. ASSUME NEW kind, NEW ts, OnItsWay(k, kind, ts) PROVE OnItsWay(k, kind, ts)'
    BY <1>2, <1>3 DEF OnItsWay
  <1> QED BY <1>1, <1>3 DEF RequestSent, ResponseSent, Answered

\* The order of an event that is handled.
LEMMA EventOrder ==
  ASSUME OrderLifeCycle, NEW p \in pending
  PROVE  /\ KeyOf(p) \in DOMAIN orders
         /\ EventsOf(KeyOf(p)) = {p}
         /\ \/ p.kind = REQUEST /\ RequestSent(KeyOf(p)) /\ p.ts = ArrivalTs(KeyOf(p))
            \/ p.kind = RESPONSE /\ ResponseSent(KeyOf(p)) /\ p.ts = ResponseTs(KeyOf(p))
  <1>1. KeyOf(p) \in DOMAIN orders
    BY DEF OrderLifeCycle, KeyOf
  <1>2. p \in EventsOf(KeyOf(p))
    BY EventsOfKey
  <1>3. RequestSent(KeyOf(p)) \/ ResponseSent(KeyOf(p))
    BY <1>1, <1>2 DEF OrderLifeCycle, Answered
  <1> QED BY <1>1, <1>2, <1>3 DEF RequestSent, ResponseSent, OnItsWay

LEMMA LifeCycleInit == Init => OrderLifeCycle
  BY DEF Init, OrderLifeCycle

LEMMA LifeCycleNext ==
  ASSUME Typed, OrderLifeCycle, [Next]_vars
  PROVE  OrderLifeCycle'
  <1>1. /\ UNCHANGED inputs /\ TypeOK /\ OrdersTyped /\ InFlight /\ InputsTyped
        /\ \A p \in pending : KeyOf(p) \in DOMAIN orders
        /\ \A k \in DOMAIN orders : RequestSent(k) \/ ResponseSent(k) \/ Answered(k)
    BY Frame, TypeOKParts DEF Typed, OrderLifeCycle, KeyOf
  <1>2. CASE UNCHANGED <<orders, pending, next_serial>>
    <2>1. \A k \in DOMAIN orders : EventsOf(k)' = EventsOf(k) /\ orders'[k] = orders[k]
      BY <1>2 DEF EventsOf
    <2> QED BY <1>1, <1>2, <2>1, Untouched DEF OrderLifeCycle, KeyOf
  <1>3. CASE Submits
    <2>1. PICK a \in Assets, id \in OrderIds, side \in {BUY, SELL},
               px \in PriceArgs, qty \in QtyArgs, tif \in {TIF_FOK, TIF_IOC} :
               Submit(a, id, side, px, qty, tif)
      BY <1>3 DEF Submits
    <2> DEFINE k0 == <<a, id>>
               new == [ts |-> SatAdd(current_ts, config[a].entry_latency), asset_no |-> a,
                       order_id |-> id, kind |-> REQUEST, serial |-> next_serial + 1]
               o == NewOrder(side, px, qty, tif)
    <2>2. pending' = pending \cup {new} /\ KeyOf(new) = k0
      BY <2>1, SubmitSends DEF KeyOf
    <2>3. /\ k0 \notin DOMAIN orders /\ DOMAIN orders' = DOMAIN orders \cup {k0}
          /\ orders'[k0] = o
          /\ \A k \in DOMAIN orders : orders'[k] = orders[k]
      BY <2>1 DEF Submit, Duplicate
    <2>4. /\ o.status = STATUS_NEW /\ o.response_visible = FALSE
          /\ o.req_local_ts = current_ts
          /\ new.kind = REQUEST /\ new.ts = SatAdd(current_ts, config[a].entry_latency)
      BY DEF NewOrder
    <2> HIDE DEF new, o
    <2>5. \A k \in DOMAIN orders : EventsOf(k)' = EventsOf(k)
      BY <2>2, <2>3 DEF EventsOf, KeyOf
    <2>6. EventsOf(k0)' = {new}
      BY <1>1, <2>2, <2>3 DEF EventsOf, KeyOf
    <2>7. RequestSent(k0)'
      <3>1. ArrivalTs(k0)' = new.ts
        BY <1>1, <2>3, <2>4 DEF ArrivalTs, inputs
      <3>2. OnItsWay(k0, REQUEST, ArrivalTs(k0))'
        BY <2>2, <2>4, <2>6, <3>1 DEF OnItsWay
      <3> QED BY <2>3, <2>4, <3>2 DEF RequestSent
    <2>8. \A k \in DOMAIN orders : (RequestSent(k) \/ ResponseSent(k) \/ Answered(k))'
      BY <1>1, <2>3, <2>5, Untouched
    <2> QED BY <1>1, <2>2, <2>3, <2>7, <2>8 DEF OrderLifeCycle, KeyOf
  <1>4. ASSUME NEW p \in pending, ProcessRequest(p) PROVE OrderLifeCycle'
    <2> DEFINE k0 == KeyOf(p)
               new == [ts |-> SatAdd(p.ts, config[p.asset_no].response_latency),
                       asset_no |-> p.asset_no, order_id |-> p.order_id,
                       kind |-> RESPONSE, serial |-> next_serial + 1]
    <2>1. /\ k0 \in DOMAIN orders /\ EventsOf(k0) = {p}
          /\ RequestSent(k0) /\ p.ts = ArrivalTs(k0)
      BY <1>4, EventOrder DEF ProcessRequest, REQUEST, RESPONSE
    <2>2. /\ pending' = (pending \ {p}) \cup {new} /\ KeyOf(new) = k0
          /\ new.kind = RESPONSE /\ new.ts = SatAdd(p.ts, config[p.asset_no].response_latency)
          /\ k0[1] = p.asset_no
      BY <1>4, RequestAnswers DEF KeyOf
    <2> HIDE DEF new
    <2>3. /\ DOMAIN orders' = DOMAIN orders
          /\ \A k \in DOMAIN orders : k # k0 => orders'[k] = orders[k]
          /\ orders'[k0].status # STATUS_NEW
          /\ orders'[k0].exch_ts = p.ts
          /\ orders'[k0].response_visible = orders[k0].response_visible
          /\ orders'[k0].req_local_ts = orders[k0].req_local_ts
      <3>1. orders[k0] \in Order /\ p.ts \in I64 /\ p.asset_no \in Assets
        BY <1>1, <2>1 DEF OrdersTyped, InFlight, PendingEvent
      <3>2. exch_view[p.asset_no].bid_px \in Int /\ exch_view[p.asset_no].ask_px \in Int
        BY <3>1 DEF Typed, Books
      <3> DEFINE d == MatchImmediate(orders[k0].side, orders[k0].requested_price,
                                     orders[k0].requested_qty, exch_view[p.asset_no])
                 o == Decided(orders[k0], p.ts, d)
      <3>3. orders' = [orders EXCEPT ![k0] = o]
        BY <1>4, RequestEffect DEF KeyOf
      <3>4. o.status \in {STATUS_EXPIRED, STATUS_FILLED}
        BY <3>1, <3>2, DecidedType
      <3>5. /\ o.exch_ts = p.ts
            /\ o.response_visible = orders[k0].response_visible
            /\ o.req_local_ts = orders[k0].req_local_ts
        BY <3>1, DecidedFields
      <3> HIDE DEF o, k0
      <3>6. orders'[k0] = o
        BY <2>1, <3>3
      <3>7. o.status # STATUS_NEW
        BY <3>4 DEF STATUS_NEW, STATUS_EXPIRED, STATUS_FILLED
      <3> QED BY <3>3, <3>5, <3>6, <3>7
    <2>4. \A k \in DOMAIN orders : k # k0 => EventsOf(k)' = EventsOf(k)
      BY <2>2 DEF EventsOf, KeyOf
    <2>5. EventsOf(k0)' = {new}
      BY <2>1, <2>2 DEF EventsOf, KeyOf
    <2>6. ResponseSent(k0)'
      <3>1. ArrivalTs(k0)' = ArrivalTs(k0) /\ ResponseTs(k0)' = ResponseTs(k0)
        BY <1>1, <2>3, SameTimes
      <3>2. ResponseTs(k0) = new.ts
        BY <2>1, <2>2 DEF ResponseTs
      <3>3. OnItsWay(k0, RESPONSE, ResponseTs(k0))'
        BY <2>2, <2>5, <3>1, <3>2 DEF OnItsWay
      <3> QED BY <2>1, <2>3, <3>1, <3>3 DEF ResponseSent, RequestSent
    <2>7. \A k \in DOMAIN orders : k # k0 => (RequestSent(k) \/ ResponseSent(k) \/ Answered(k))'
      BY <1>1, <2>3, <2>4, Untouched
    <2> QED BY <1>1, <2>1, <2>2, <2>3, <2>6, <2>7 DEF OrderLifeCycle, KeyOf
  <1>5. ASSUME NEW p \in pending, ProcessResponse(p) PROVE OrderLifeCycle'
    <2> DEFINE k0 == KeyOf(p)
               o == Shown(orders[k0], p.ts)
    <2>1. /\ k0 \in DOMAIN orders /\ EventsOf(k0) = {p}
          /\ ResponseSent(k0) /\ p.ts = ResponseTs(k0)
      BY <1>5, EventOrder DEF ProcessResponse, REQUEST, RESPONSE
    <2>2. pending' = pending \ {p}
      BY <1>5 DEF ProcessResponse
    <2>3. orders[k0] \in Order /\ p.ts \in I64
      BY <1>1, <2>1 DEF OrdersTyped, InFlight, PendingEvent
    <2>4. /\ o.status = orders[k0].status /\ o.exch_ts = orders[k0].exch_ts
          /\ o.req_local_ts = orders[k0].req_local_ts
          /\ o.resp_local_ts = p.ts /\ o.response_visible = TRUE
      BY <2>3, ShownType
    <2>5. orders' = [orders EXCEPT ![k0] = o]
      BY <1>5, ResponseEffect DEF KeyOf
    <2> HIDE DEF o, k0
    <2>6. orders'[k0] = o /\ DOMAIN orders' = DOMAIN orders
          /\ \A k \in DOMAIN orders : k # k0 => orders'[k] = orders[k]
      BY <2>1, <2>5
    <2>7. \A k \in DOMAIN orders : k # k0 => EventsOf(k)' = EventsOf(k)
      BY <2>2 DEF EventsOf, KeyOf, k0
    <2>8. EventsOf(k0)' = {}
      BY <2>1, <2>2 DEF EventsOf
    <2>9. Answered(k0)'
      <3>1. ArrivalTs(k0)' = ArrivalTs(k0) /\ ResponseTs(k0)' = ResponseTs(k0)
        BY <1>1, <2>4, <2>6, SameTimes
      <3> QED BY <2>1, <2>4, <2>6, <2>8, <3>1 DEF ResponseSent, Answered
    <2>10. \A k \in DOMAIN orders : k # k0 => (RequestSent(k) \/ ResponseSent(k) \/ Answered(k))'
      BY <1>1, <2>6, <2>7, Untouched
    <2> QED BY <1>1, <2>1, <2>2, <2>6, <2>9, <2>10 DEF OrderLifeCycle, KeyOf
  <1> QED BY <1>2, <1>3, <1>4, <1>5, Frame

LEMMA AlwaysAlive == Spec => [](Typed /\ Clock /\ OrderLifeCycle)
  <1>1. (Typed /\ Clock /\ OrderLifeCycle) /\ [Next]_vars => OrderLifeCycle'
    BY LifeCycleNext
  <1> QED BY <1>1, AlwaysClock, LifeCycleInit, PTL DEF Spec

\* Every order is sent, decided and answered once, exactly when it should be.
THEOREM EngineOrders == Spec => []OrderLifeCycle
  BY AlwaysAlive, PTL
-----------------------------------------------------------------------------
(* First in, first out.                                                    *)
LegLatency(p) == IF p.kind = REQUEST THEN config[p.asset_no].entry_latency
                                     ELSE config[p.asset_no].response_latency

SameLeg(p, q) == p.asset_no = q.asset_no /\ p.kind = q.kind

\* On each leg later serials have later stamps, and none is beyond one latency
\* from now.
Queued == /\ \A p \in pending : /\ p.serial <= next_serial
                                /\ p.ts <= SatAdd(current_ts, LegLatency(p))
          /\ \A p, q \in pending : SameLeg(p, q) /\ p.serial < q.serial => p.ts <= q.ts

LEMMA EventFields ==
  ASSUME Typed, NEW p \in pending
  PROVE  /\ p.ts \in Int /\ p.serial \in Nat /\ p.asset_no \in Assets
         /\ LegLatency(p) \in Nat
  <1>1. p \in PendingEvent /\ config \in [Assets -> AssetConfig]
    BY TypeOKParts DEF Typed, InFlight, InputsTyped
  <1> QED BY <1>1, I64Assumption DEF PendingEvent, AssetConfig, LegLatency, I64

\* A new last event, one latency from the new clock, keeps the legs queued.
LEMMA QueuedWith ==
  ASSUME Typed, Queued, UNCHANGED inputs, current_ts <= current_ts', current_ts' \in Int,
         NEW new \in PendingEvent,
         pending' \subseteq pending \cup {new},
         next_serial' = next_serial + 1, new.serial = next_serial + 1,
         new.ts = SatAdd(current_ts', LegLatency(new))
  PROVE  Queued'
  <1>1. current_ts \in Int /\ next_serial \in Nat
    BY TypeOKParts, I64Assumption DEF Typed, Control, InFlight, I64
  <1>2. new.ts \in Int
    BY I64Assumption DEF PendingEvent, I64
  <1>3. \A p : LegLatency(p)' = LegLatency(p)
    BY DEF LegLatency, inputs
  <1>4. ASSUME NEW p \in pending
        PROVE  p.serial <= next_serial /\ p.ts <= SatAdd(current_ts', LegLatency(p))
    <2>1. p.serial <= next_serial /\ p.ts <= SatAdd(current_ts, LegLatency(p))
      BY DEF Queued
    <2>2. SatAdd(current_ts, LegLatency(p)) <= SatAdd(current_ts', LegLatency(p))
      BY <1>1, EventFields, SatAddFacts
    <2>3. /\ p.ts \in Int
          /\ SatAdd(current_ts, LegLatency(p)) \in Int
          /\ SatAdd(current_ts', LegLatency(p)) \in Int
      BY <1>1, EventFields, SatAddFacts, I64Assumption DEF I64
    <2> QED BY <2>1, <2>2, <2>3
  <1>5. \A p \in pending' : /\ p.serial <= next_serial'
                            /\ p.ts <= SatAdd(current_ts', LegLatency(p))
    <2>1. ASSUME NEW p \in pending
          PROVE  p.serial <= next_serial' /\ p.ts <= SatAdd(current_ts', LegLatency(p))
      BY <1>1, <1>4, EventFields
    <2> QED BY <1>1, <1>2, <2>1
  <1>6. ASSUME NEW p \in pending', NEW q \in pending', SameLeg(p, q), p.serial < q.serial
        PROVE  p.ts <= q.ts
    <2>1. CASE p \in pending /\ q \in pending
      BY <1>6, <2>1 DEF Queued
    <2>2. CASE p \in pending /\ q = new
      <3>1. LegLatency(p) = LegLatency(new)
        BY <1>6, <2>2 DEF LegLatency, SameLeg
      <3> QED BY <1>4, <2>2, <3>1
    <2>3. CASE p = new /\ q \in pending
      BY <1>1, <1>4, <1>6, <2>3, EventFields
    <2>4. CASE p = new /\ q = new
      BY <1>2, <1>6, <2>4
    <2> QED BY <2>1, <2>2, <2>3, <2>4
  <1> QED BY <1>3, <1>5, <1>6 DEF Queued, SameLeg

LEMMA QueuedFewer ==
  ASSUME Typed, Queued, UNCHANGED inputs, current_ts <= current_ts', current_ts' \in Int,
         pending' \subseteq pending, UNCHANGED next_serial
  PROVE  Queued'
  <1>1. current_ts \in Int
    BY TypeOKParts, I64Assumption DEF Typed, Control, I64
  <1>2. \A p : LegLatency(p)' = LegLatency(p)
    BY DEF LegLatency, inputs
  <1>3. ASSUME NEW p \in pending PROVE p.ts <= SatAdd(current_ts', LegLatency(p))
    <2>1. p.ts <= SatAdd(current_ts, LegLatency(p))
      BY DEF Queued
    <2>2. SatAdd(current_ts, LegLatency(p)) <= SatAdd(current_ts', LegLatency(p))
      BY <1>1, EventFields, SatAddFacts
    <2>3. /\ p.ts \in Int
          /\ SatAdd(current_ts, LegLatency(p)) \in Int
          /\ SatAdd(current_ts', LegLatency(p)) \in Int
      BY <1>1, EventFields, SatAddFacts, I64Assumption DEF I64
    <2> QED BY <2>1, <2>2, <2>3
  <1> QED BY <1>2, <1>3 DEF Queued, SameLeg

LEMMA QueuedInit == Init => Queued
  BY DEF Init, Queued

LEMMA QueuedNext ==
  ASSUME Typed, Clock, Queued, [Next]_vars
  PROVE  Queued'
  <1>1. UNCHANGED inputs /\ current_ts <= current_ts' /\ current_ts' \in Int
    BY Frame, ClockNext, ControlNext, I64Assumption DEF Control, I64
  <1>2. CASE UNCHANGED <<orders, pending, next_serial>>
    BY <1>1, <1>2, QueuedFewer
  <1>3. CASE Submits
    <2>1. PICK a \in Assets, id \in OrderIds, side \in {BUY, SELL},
               px \in PriceArgs, qty \in QtyArgs, tif \in {TIF_FOK, TIF_IOC} :
               Submit(a, id, side, px, qty, tif)
      BY <1>3 DEF Submits
    <2> DEFINE new == [ts |-> SatAdd(current_ts, config[a].entry_latency), asset_no |-> a,
                       order_id |-> id, kind |-> REQUEST, serial |-> next_serial + 1]
    <2>2. /\ pending' = pending \cup {new} /\ new \in PendingEvent
          /\ next_serial' = next_serial + 1 /\ current_ts' = current_ts
      BY <2>1, SubmitSends DEF Submit
    <2>3. new.serial = next_serial + 1 /\ new.ts = SatAdd(current_ts', LegLatency(new))
      BY <2>2 DEF LegLatency
    <2> HIDE DEF new
    <2> QED BY <1>1, <2>2, <2>3, QueuedWith
  <1>4. ASSUME NEW p \in pending, ProcessRequest(p) PROVE Queued'
    <2> DEFINE new == [ts |-> SatAdd(p.ts, config[p.asset_no].response_latency),
                       asset_no |-> p.asset_no, order_id |-> p.order_id,
                       kind |-> RESPONSE, serial |-> next_serial + 1]
    <2>1. /\ pending' = (pending \ {p}) \cup {new} /\ new \in PendingEvent
          /\ next_serial' = next_serial + 1 /\ current_ts' = p.ts
      BY <1>4, RequestAnswers DEF ProcessRequest
    <2>2. new.serial = next_serial + 1 /\ new.ts = SatAdd(current_ts', LegLatency(new))
      BY <2>1 DEF LegLatency, REQUEST, RESPONSE
    <2> HIDE DEF new
    <2>3. pending' \subseteq pending \cup {new}
      BY <2>1
    <2> QED BY <1>1, <2>1, <2>2, <2>3, QueuedWith
  <1>5. ASSUME NEW p \in pending, ProcessResponse(p) PROVE Queued'
    BY <1>1, <1>5, QueuedFewer DEF ProcessResponse
  <1> QED BY <1>2, <1>3, <1>4, <1>5, Frame

\* The event that is picked has the least serial of its leg.
LEMMA FirstOfItsLeg ==
  ASSUME Typed, Queued, NEW p \in pending, NEW q \in pending, SameLeg(p, q),
         Picks(PendingKey(p))
  PROVE  p.serial <= q.serial
  <1>1. NotBefore(PendingKey(q), PendingKey(p))
    BY PickedIsFirst, EventKeysAre DEF Typed
  <1>2. p.ts <= q.ts /\ (p.ts = q.ts => p.serial <= q.serial)
    BY <1>1 DEF NotBefore, PendingKey, SameLeg
  <1>3. q.serial < p.serial => q.ts <= p.ts
    BY DEF Queued, SameLeg
  <1>4. /\ p.ts \in Int /\ q.ts \in Int
        /\ p.serial \in Nat /\ q.serial \in Nat
    BY EventFields
  <1> QED BY <1>2, <1>3, <1>4

\* Requests reach the exchange, and responses the strategy, in sending order.
THEOREM EngineFifo == Spec => FirstInFirstOut
  <1> DEFINE F == \A p \in pending \ pending' : \A q \in pending :
                    p.asset_no = q.asset_no /\ p.kind = q.kind => p.serial <= q.serial
  <1>1. Typed /\ Queued /\ [Next]_vars => [F]_vars
    <2> SUFFICES ASSUME Typed, Queued, [Next]_vars,
                        NEW p \in pending, p \notin pending', NEW q \in pending,
                        p.asset_no = q.asset_no, p.kind = q.kind
                 PROVE  p.serial <= q.serial
      OBVIOUS
    <2>1. Picks(PendingKey(p))
      <3>1. CASE Submits
        BY <3>1 DEF Submits, Submit
      <3>2. ASSUME NEW e \in pending, ProcessRequest(e) PROVE Picks(PendingKey(p))
        BY <3>2 DEF ProcessRequest
      <3>3. ASSUME NEW e \in pending, ProcessResponse(e) PROVE Picks(PendingKey(p))
        BY <3>3 DEF ProcessResponse
      <3> QED BY <3>1, <3>2, <3>3, Frame
    <2> QED BY <2>1, FirstOfItsLeg DEF SameLeg
  <1>2. (Typed /\ Clock /\ Queued) /\ [Next]_vars => Queued'
    BY QueuedNext
  <1> QED BY <1>1, <1>2, AlwaysClock, QueuedInit, PTL DEF Spec, FirstInFirstOut

-----------------------------------------------------------------------------
(* wait_response.                                                          *)
\* What a running call knows of its order, and what the last one reported.
Waiting ==
  /\ call.pc = "elapse" => call.op = "elapse"
  /\ call.pc = "wait" => call.op = "wait" /\ ~Visible(call.key)
  /\ call.pc = "drain" => /\ Visible(call.key)
                          /\ orders[call.key].resp_local_ts = call.target
  /\ \A k \in DOMAIN orders : Visible(k) => orders[k].resp_local_ts <= current_ts
  /\ WaitVerdict

LEMMA WaitingInit == Init => Waiting
  BY DEF Init, Waiting, WaitVerdict, NoCall

\* Who changes visibility and the response's stamp: only its response.
LEMMA ShownNext ==
  ASSUME Typed, [Next]_vars, NEW k,
         \A p \in pending : ProcessResponse(p) => k # KeyOf(p)
  PROVE  /\ k \in DOMAIN orders => /\ k \in DOMAIN orders'
                                   /\ orders'[k].resp_local_ts = orders[k].resp_local_ts
         /\ Visible(k)' <=> Visible(k)
  <1>1. OrdersTyped
    BY TypeOKParts DEF Typed
  <1>2. CASE UNCHANGED <<orders, pending, next_serial>>
    BY <1>2 DEF Visible
  <1>3. CASE Submits
    <2>1. PICK a \in Assets, id \in OrderIds, side \in {BUY, SELL},
               px \in PriceArgs, qty \in QtyArgs, tif \in {TIF_FOK, TIF_IOC} :
               Submit(a, id, side, px, qty, tif)
      BY <1>3 DEF Submits
    <2> DEFINE o == NewOrder(side, px, qty, tif)
    <2>2. /\ <<a, id>> \notin DOMAIN orders /\ DOMAIN orders' = DOMAIN orders \cup {<<a, id>>}
          /\ orders'[<<a, id>>] = o
          /\ \A j \in DOMAIN orders : orders'[j] = orders[j]
      BY <2>1 DEF Submit, Duplicate
    <2>3. o.response_visible = FALSE
      BY DEF NewOrder
    <2> HIDE DEF o
    <2> QED BY <2>2, <2>3 DEF Visible
  <1>4. ASSUME NEW p \in pending, ProcessRequest(p)
        PROVE  /\ k \in DOMAIN orders => /\ k \in DOMAIN orders'
                                         /\ orders'[k].resp_local_ts = orders[k].resp_local_ts
               /\ Visible(k)' <=> Visible(k)
    <2> DEFINE k0 == KeyOf(p)
    <2>1. PICK d : orders' = [orders EXCEPT ![k0] = Decided(orders[k0], p.ts, d)]
      BY <1>4, RequestEffect DEF KeyOf
    <2> HIDE DEF k0
    <2>2. CASE k \in DOMAIN orders /\ k = k0
      <3>1. orders'[k] = Decided(orders[k], p.ts, d) /\ k \in DOMAIN orders'
        BY <2>1, <2>2
      <3>2. orders[k] \in Order
        BY <1>1, <2>2 DEF OrdersTyped
      <3>3. /\ Decided(orders[k], p.ts, d).resp_local_ts = orders[k].resp_local_ts
            /\ Decided(orders[k], p.ts, d).response_visible = orders[k].response_visible
        BY <3>2, DecidedFields
      <3> QED BY <2>2, <3>1, <3>3 DEF Visible
    <2>3. CASE ~(k \in DOMAIN orders /\ k = k0)
      BY <2>1, <2>3 DEF Visible
    <2> QED BY <2>2, <2>3
  <1>5. ASSUME NEW p \in pending, ProcessResponse(p)
        PROVE  /\ k \in DOMAIN orders => /\ k \in DOMAIN orders'
                                         /\ orders'[k].resp_local_ts = orders[k].resp_local_ts
               /\ Visible(k)' <=> Visible(k)
    <2> DEFINE k0 == KeyOf(p)
               o == Shown(orders[k0], p.ts)
    <2>1. orders' = [orders EXCEPT ![k0] = o] /\ k # k0
      BY <1>5, ResponseEffect DEF KeyOf
    <2> HIDE DEF k0, o
    <2> QED BY <2>1 DEF Visible
  <1> QED BY <1>2, <1>3, <1>4, <1>5, Frame

\* An order that is not answered when nothing is due by t is answered after t.
LEMMA NotYet ==
  ASSUME Typed, OrderLifeCycle, NEW t \in Int, NothingDue(t),
         NEW k \in DOMAIN orders, ~Visible(k)
  PROVE  ResponseTs(k) > t
  <1>1. \A p \in pending : p.ts > t
    BY EventKeysAre DEF NothingDue, PendingKey
  <1>2. RequestSent(k) \/ ResponseSent(k)
    BY DEF OrderLifeCycle, Answered, Visible
  <1>3. PICK p \in pending : p.ts > t /\ (p.ts = ArrivalTs(k) \/ p.ts = ResponseTs(k))
    BY <1>1, <1>2 DEF RequestSent, ResponseSent, OnItsWay
  <1>4. /\ k[1] \in Assets /\ orders[k].req_local_ts \in Int
        /\ config[k[1]].entry_latency \in Nat /\ config[k[1]].response_latency \in Nat
    BY TypeOKParts, I64Assumption
       DEF Typed, OrdersTyped, Order, InputsTyped, AssetConfig, I64
  <1>5. ArrivalTs(k) \in I64
    BY <1>4, SatAddFacts DEF ArrivalTs
  <1>6. ArrivalTs(k) \in Int
    BY <1>5, I64Assumption DEF I64
  <1>7. ArrivalTs(k) <= ResponseTs(k) /\ ResponseTs(k) \in I64
    BY <1>4, <1>5, <1>6, SatAddFacts DEF ResponseTs
  <1>8. ResponseTs(k) \in Int
    BY <1>7, I64Assumption DEF I64
  <1> QED BY <1>3, <1>6, <1>7, <1>8

LEMMA WaitingNext ==
  ASSUME Typed, Clock, OrderLifeCycle, Waiting, [Next]_vars
  PROVE  Waiting'
  <1>1. /\ TypeOK /\ call \in Calls /\ current_ts <= current_ts'
        /\ current_ts \in Int /\ current_ts' \in Int /\ OrdersTyped /\ UNCHANGED inputs
    BY ClockNext, ControlNext, TypeOKParts, Frame, I64Assumption DEF Typed, Control, I64
  <1>2. \A k \in DOMAIN orders : Visible(k) => /\ orders[k].resp_local_ts <= current_ts'
                                               /\ orders[k].resp_local_ts \in Int
    <2>1. \A k \in DOMAIN orders : orders[k].resp_local_ts \in Int
      BY <1>1, I64Assumption DEF OrdersTyped, Order, I64
    <2> QED BY <1>1, <2>1 DEF Waiting
  \* No response is handled: visibility is as it was.
  <1>3. ASSUME \A p \in pending : ~ProcessResponse(p)
        PROVE  /\ \A k : Visible(k)' <=> Visible(k)
               /\ \A k : Visible(k) => orders'[k].resp_local_ts = orders[k].resp_local_ts
               /\ (\A k \in DOMAIN orders : Visible(k) => orders[k].resp_local_ts <= current_ts)'
    <2>1. \A k : Visible(k)' <=> Visible(k)
      BY <1>3, ShownNext
    <2>2. \A k : Visible(k) => orders'[k].resp_local_ts = orders[k].resp_local_ts
      BY <1>3, ShownNext DEF Visible
    <2>3. \A k : Visible(k) => k \in DOMAIN orders
      BY DEF Visible
    <2> QED BY <1>2, <2>1, <2>2, <2>3
  <1>4. ASSUME NEW key, Picks(key), UNCHANGED call, \A p \in pending : ~ProcessResponse(p)
        PROVE  Waiting'
    BY <1>3, <1>4 DEF Waiting, WaitVerdict, Picks, Running
  <1>5. ASSUME NEW p \in pending, ProcessResponse(p) PROVE Waiting'
    <2> DEFINE k0 == KeyOf(p)
               o == Shown(orders[k0], p.ts)
    <2>1. /\ k0 \in DOMAIN orders /\ ~Visible(k0) /\ Running /\ current_ts' = p.ts
          /\ orders' = [orders EXCEPT ![k0] = o]
          /\ call' = DrainAfter(k0, p.ts)
      <3>1. ResponseSent(k0) /\ k0 \in DOMAIN orders
        BY <1>5, EventOrder DEF ProcessResponse, REQUEST, RESPONSE
      <3> QED BY <1>5, <3>1, ResponseEffect
              DEF ProcessResponse, Picks, ResponseSent, Visible, KeyOf
    <2>2. o.response_visible = TRUE /\ o.resp_local_ts = p.ts
      <3>1. orders[k0] \in Order /\ p.ts \in I64
        BY <1>1, <2>1, TypeOKParts DEF OrdersTyped, InFlight, PendingEvent
      <3> QED BY <3>1, ShownType
    <2> HIDE DEF o, k0
    <2>3. /\ orders'[k0] = o /\ DOMAIN orders' = DOMAIN orders
          /\ \A k \in DOMAIN orders : k # k0 => orders'[k] = orders[k]
      BY <2>1
    <2>4. /\ \A k : k # k0 => (Visible(k)' <=> Visible(k))
          /\ Visible(k0)' /\ orders'[k0].resp_local_ts = p.ts
      BY <2>1, <2>2, <2>3 DEF Visible
    <2>5. (\A k \in DOMAIN orders : Visible(k) => orders[k].resp_local_ts <= current_ts)'
      BY <1>1, <1>2, <2>1, <2>3, <2>4
    <2>6. CASE call.pc = "wait" /\ call.key = k0
      <3>1. /\ call'.pc = "drain" /\ call'.key = k0 /\ call'.target = p.ts
            /\ call'.op = call.op
        BY <1>1, <2>1, <2>6 DEF DrainAfter, Calls
      <3> QED BY <2>4, <2>5, <3>1 DEF Waiting, WaitVerdict, Running
    <2>7. CASE ~(call.pc = "wait" /\ call.key = k0)
      <3>1. call' = call
        BY <2>1, <2>7 DEF DrainAfter
      <3>2. call.pc = "drain" => call.key # k0
        BY <2>1 DEF Waiting
      <3>3. call.pc = "drain" => orders'[call.key].resp_local_ts = orders[call.key].resp_local_ts
        BY <2>3, <3>2 DEF Waiting, Visible
      <3> QED BY <2>1, <2>4, <2>5, <2>7, <3>1, <3>2, <3>3 DEF Waiting, WaitVerdict, Running
    <2> QED BY <2>6, <2>7
  <1>6. CASE ReturnFromLoop
    <2>1. /\ call'.pc = "idle" /\ call'.op = call.op /\ call'.key = call.key
          /\ call'.target = call.target /\ current_ts' = call.target
          /\ call'.rc = IF call.pc = "wait" THEN 1 ELSE 0
          /\ UNCHANGED <<orders, pending>>
      BY <1>1, <1>6 DEF ReturnFromLoop, Calls, trading
    <2>2. \A p \in pending : ~ProcessResponse(p)
      BY <1>1, <1>6, <2>1 DEF ProcessResponse
    <2>3. CASE call.pc = "wait"
      <3>1. call.target \in Int
        BY <1>1, I64Assumption DEF Calls, I64
      <3>2. call.key \in DOMAIN orders => ResponseTs(call.key) > call.target
        BY <1>6, <2>3, <3>1, NotYet DEF ReturnFromLoop, Waiting
      <3>3. ResponseTs(call.key)' = ResponseTs(call.key)
        BY <1>1, <2>1 DEF ResponseTs, ArrivalTs, inputs
      <3> QED BY <1>3, <2>1, <2>2, <2>3, <3>2, <3>3 DEF Waiting, WaitVerdict
    <2>4. CASE call.pc = "drain"
      <3>1. /\ Visible(call.key) /\ orders[call.key].resp_local_ts = call.target
            /\ call.target \in Int
        BY <1>1, <2>4, I64Assumption DEF Waiting, Calls, I64
      <3> QED BY <1>3, <2>1, <2>2, <2>4, <3>1 DEF Waiting, WaitVerdict, Visible
    <2>5. CASE call.pc = "elapse"
      BY <1>3, <2>1, <2>2, <2>5 DEF Waiting, WaitVerdict
    <2> QED BY <1>1, <1>6, <2>3, <2>4, <2>5 DEF ReturnFromLoop, Running, Calls, Pcs
  <1>7. ASSUME ~Running, call'.pc = "idle", call'.op # "wait" PROVE Waiting'
    <2>1. \A p \in pending : ~ProcessResponse(p)
      BY <1>7 DEF ProcessResponse, Picks
    <2> QED BY <1>3, <1>7, <2>1 DEF Waiting, WaitVerdict
  <1>8. CASE Strategy
    <2>1. ASSUME NEW a \in AssetArgs, NEW id \in OrderIds, NEW side \in SideArgs,
                 NEW tif \in TifArgs
          PROVE  /\ SubmitRejected(a, id, side, tif) => Waiting'
                 /\ \A px, qty : Submit(a, id, side, px, qty, tif) => Waiting'
      BY <1>7 DEF SubmitRejected, Submit, ReturnAtOnce
    <2>2. ASSUME NEW d \in DurationArgs, Elapse(d) PROVE Waiting'
      <3>1. call'.pc = "elapse" /\ call'.op = "elapse" /\ \A p \in pending : ~ProcessResponse(p)
        BY <2>2 DEF Elapse, ProcessResponse, Picks
      <3> QED BY <1>3, <3>1 DEF Waiting, WaitVerdict, Running
    <2>3. ASSUME NEW d \in DurationArgs, ElapseRefused(d) PROVE Waiting'
      BY <1>7, <2>3 DEF ElapseRefused, ReturnAtOnce
    <2>4. ASSUME NEW k \in AssetArgs \X OrderIds, WaitAnswered(k) PROVE Waiting'
      <3>1. /\ call'.pc = "idle" /\ call'.key = k /\ call'.rc = 0 /\ Visible(k)
            /\ \A p \in pending : ~ProcessResponse(p)
            /\ UNCHANGED <<orders, current_ts>>
        BY <2>4 DEF WaitAnswered, ReturnAtOnce, ProcessResponse, Picks, trading
      <3>2. orders[k].response_visible /\ orders[k].resp_local_ts <= current_ts
        BY <3>1 DEF Waiting, Visible
      <3> QED BY <1>3, <3>1, <3>2 DEF Waiting, WaitVerdict
    <2>5. ASSUME NEW k \in AssetArgs \X OrderIds, NEW timeout \in TimeoutArgs,
                 WaitResponse(k, timeout)
          PROVE  Waiting'
      <3>1. /\ call'.pc = "wait" /\ call'.op = "wait" /\ call'.key = k /\ ~Visible(k)
            /\ \A p \in pending : ~ProcessResponse(p)
        BY <2>5 DEF WaitResponse, ProcessResponse, Picks
      <3> QED BY <1>3, <3>1 DEF Waiting, WaitVerdict, Running
    <2> QED BY <1>8, <2>1, <2>2, <2>3, <2>4, <2>5 DEF Strategy
  <1>9. CASE ProcessThrough
    <2>1. ASSUME NEW a \in Assets, ProcessLocalData(a) \/ ProcessExchData(a) PROVE Waiting'
      BY <1>4, <1>5, <2>1 DEF ProcessLocalData, ProcessExchData
    <2>2. ASSUME NEW p \in pending, ProcessRequest(p) PROVE Waiting'
      BY <1>4, <1>5, <2>2 DEF ProcessRequest
    <2> QED BY <1>5, <1>6, <1>9, <2>1, <2>2 DEF ProcessThrough
  <1>10. CASE UNCHANGED vars
    <2>1. UNCHANGED <<orders, pending, call, current_ts, config>>
      BY <1>10 DEF vars, trading, inputs
    <2> QED BY <2>1 DEF Waiting, WaitVerdict, Visible, Running, ResponseTs, ArrivalTs
  <1> QED BY <1>8, <1>9, <1>10 DEF Next

LEMMA AlwaysWaiting == Spec => [](Typed /\ Clock /\ OrderLifeCycle /\ Waiting)
  <1>1. (Typed /\ Clock /\ OrderLifeCycle /\ Waiting) /\ [Next]_vars => Waiting'
    BY WaitingNext
  <1> QED BY <1>1, AlwaysAlive, WaitingInit, PTL DEF Spec

\* Success means the response is in; a timeout means it cannot come in time.
THEOREM EngineVerdict == Spec => []WaitVerdict
  <1>1. Waiting => WaitVerdict
    BY DEF Waiting
  <1> QED BY <1>1, AlwaysWaiting, PTL

\* A wait that ran the loop returns at the instant of its response.
THEOREM EngineWaitStops == Spec => WaitStopsAtResponse
  <1> DEFINE W == call.pc = "drain" /\ ~Running' =>
                    current_ts' = orders'[call.key].resp_local_ts
  <1>1. Typed /\ Waiting /\ [Next]_vars => [W]_vars
    <2> SUFFICES ASSUME Typed, Waiting, [Next]_vars, call.pc = "drain", ~Running'
                 PROVE  current_ts' = orders'[call.key].resp_local_ts
      OBVIOUS
    <2>1. ReturnFromLoop
      BY LoopEnds DEF Running
    <2> QED BY <2>1 DEF ReturnFromLoop, Waiting, trading
  <1> QED BY <1>1, AlwaysWaiting, PTL DEF Spec, WaitStopsAtResponse

-----------------------------------------------------------------------------
(* The order desk: the events on a leg, by serial, are its queue.          *)

LEMMA BySerialOrders ==
  ASSUME NEW S, S \subseteq PendingEvent
  PROVE  Orders(BySerial(S), S)
  <1>1. \A p \in S : p.serial \in Nat
    BY DEF PendingEvent
  <1> QED BY <1>1 DEF Orders, BySerial

Queueable(S) == /\ IsFiniteSet(S) /\ S \subseteq PendingEvent
                /\ Enumerations(S, BySerial(S)) # {}

\* The queue of a set of events that can be lined up.
LEMMA QueueIs ==
  ASSUME NEW S, Queueable(S), NEW s \in Enumerations(S, BySerial(S))
  PROVE  /\ QueueOf(S) = [i \in 1 .. Cardinality(S) |-> s[i].order_id]
         /\ QueueOf(S) \in Seq(OrderIds) /\ Len(QueueOf(S)) = Cardinality(S)
         /\ Cardinality(S) \in Nat /\ s \in [1 .. Cardinality(S) -> S]
  <1>1. Cardinality(S) \in Nat /\ s \in [1 .. Cardinality(S) -> S]
    BY FS_CardinalityType DEF Queueable, Enumerations
  <1>2. QueueOf(S) = IdsOf(s)
    BY InOrderIs, BySerialOrders DEF Queueable, QueueOf
  <1>3. QueueOf(S) = [i \in 1 .. Cardinality(S) |-> s[i].order_id]
    BY <1>1, <1>2 DEF IdsOf
  <1>4. \A p \in S : p.order_id \in OrderIds
    BY DEF Queueable, PendingEvent
  <1>5. QueueOf(S) \in [1 .. Cardinality(S) -> OrderIds]
    BY <1>1, <1>3, <1>4
  <1>6. QueueOf(S) \in Seq(OrderIds)
    BY <1>1, <1>5, SeqDef
  <1>7. Len(QueueOf(S)) = Cardinality(S)
    BY <1>1, <1>5, <1>6, LenProperties
  <1> QED BY <1>1, <1>3, <1>6, <1>7

LEMMA QueueEmpty == Queueable({}) /\ QueueOf({}) = <<>>
  <1>1. Queueable({})
    BY EnumerationEmpty, FS_EmptySet DEF Queueable
  <1>2. Len(QueueOf({})) = 0 /\ QueueOf({}) \in Seq(OrderIds)
    BY <1>1, EnumerationEmpty, QueueIs, FS_EmptySet
  <1> QED BY <1>1, <1>2, EmptySeq

\* An event with a serial beyond all others joins at the end of the queue.
LEMMA QueueAppend ==
  ASSUME NEW S, Queueable(S), NEW x \in PendingEvent, \A y \in S : y.serial < x.serial
  PROVE  /\ Queueable(S \cup {x})
         /\ QueueOf(S \cup {x}) = Append(QueueOf(S), x.order_id)
  <1> DEFINE n == Cardinality(S)
             T == S \cup {x}
  <1>1. PICK s : s \in Enumerations(S, BySerial(S))
    BY DEF Queueable
  <1> DEFINE t == [i \in 1 .. n + 1 |-> IF i <= n THEN s[i] ELSE x]
  <1>2. x \notin S /\ x.serial \in Nat
    BY DEF PendingEvent
  <1>3. \A y, z \in S : <<y, z>> \in BySerial(S) => <<y, z>> \in BySerial(T)
    BY DEF BySerial
  <1>4. \A y \in S : <<y, x>> \in BySerial(T)
    BY DEF BySerial
  <1>5. t \in Enumerations(T, BySerial(T))
    <2> HIDE DEF T
    <2>1. T = S \cup {x} /\ IsFiniteSet(S)
      BY DEF T, Queueable
    <2> QED BY <1>1, <1>2, <1>3, <1>4, <2>1, EnumerationAppend
  <1>6. Queueable(T) /\ Cardinality(T) = n + 1
    BY <1>2, <1>5, FS_AddElement DEF Queueable
  <1> DEFINE q == QueueOf(S)
             r == QueueOf(T)
  <1> HIDE DEF t, T, n
  <1>7. /\ q = [i \in 1 .. n |-> s[i].order_id] /\ q \in Seq(OrderIds) /\ Len(q) = n
        /\ n \in Nat
    BY <1>1, QueueIs DEF n
  <1>8. /\ r = [i \in 1 .. n + 1 |-> t[i].order_id] /\ r \in Seq(OrderIds) /\ Len(r) = n + 1
    BY <1>5, <1>6, QueueIs
  <1>9. x.order_id \in OrderIds
    BY DEF PendingEvent
  <1> HIDE DEF q, r
  <1>10. r = Append(q, x.order_id)
    <2> DEFINE u == Append(q, x.order_id)
    <2>1. /\ u \in Seq(OrderIds) /\ Len(u) = n + 1
          /\ \A i \in 1 .. n : u[i] = q[i]
          /\ u[n + 1] = x.order_id
      BY <1>7, <1>9, AppendProperties
    <2> HIDE DEF u
    <2>2. ASSUME NEW i \in 1 .. n + 1 PROVE r[i] = u[i]
      <3>1. CASE i <= n
        BY <1>7, <1>8, <2>1, <3>1 DEF t
      <3>2. CASE i = n + 1
        <4>1. t[i] = x
          BY <1>7, <3>2 DEF t
        <4> QED BY <1>7, <1>8, <2>1, <3>2, <4>1
      <3> QED BY <1>7, <3>1, <3>2
    <2>3. r = u
      BY <1>8, <2>1, <2>2, SeqEqual
    <2> QED BY <2>3 DEF u
  <1> QED BY <1>6, <1>10 DEF q, r, T

\* The event with the least serial is the head of the queue and leaves its tail.
LEMMA QueueTail ==
  ASSUME NEW S, Queueable(S), NEW x \in S, \A y \in S : x.serial <= y.serial
  PROVE  /\ QueueOf(S) # <<>> /\ Head(QueueOf(S)) = x.order_id
         /\ Queueable(S \ {x})
         /\ QueueOf(S \ {x}) = Tail(QueueOf(S))
  <1> DEFINE n == Cardinality(S)
             T == S \ {x}
             R == BySerial(S)
  <1>1. PICK s : s \in Enumerations(S, R)
    BY DEF Queueable
  <1> DEFINE t == [i \in 1 .. n - 1 |-> s[i + 1]]
  <1>2. Orders(R, S) /\ IsFiniteSet(S)
    BY BySerialOrders DEF Queueable
  <1>3. ASSUME NEW y \in S, y # x PROVE <<x, y>> \in R
    <2>1. PICK i \in 1 .. n, j \in 1 .. n : s[i] = x /\ s[j] = y
      BY <1>1, <1>2, EnumerationFacts
    <2>2. <<x, y>> \in R \/ <<y, x>> \in R
      BY <1>1, <1>2, <1>3, <2>1, EnumerationFacts
    <2>3. x.serial \in Nat /\ y.serial \in Nat /\ x.serial <= y.serial
      BY DEF Queueable, PendingEvent
    <2> QED BY <2>2, <2>3 DEF BySerial
  <1>4. \A y, z \in T : <<y, z>> \in R => <<y, z>> \in BySerial(T)
    BY DEF BySerial
  <1>5. /\ n \in Nat \ {0} /\ s[1] = x
        /\ t \in Enumerations(T, R)
    <2> HIDE DEF R
    <2> QED BY <1>1, <1>2, <1>3, EnumerationTail
  <1>6. t \in Enumerations(T, BySerial(T))
    BY <1>4, <1>5 DEF Enumerations
  <1>7. Queueable(T) /\ Cardinality(T) = n - 1
    BY <1>2, <1>6, FS_RemoveElement DEF Queueable
  <1> DEFINE q == QueueOf(S)
             r == QueueOf(T)
  <1> HIDE DEF t, T, n
  <1>8. q = [i \in 1 .. n |-> s[i].order_id] /\ q \in Seq(OrderIds) /\ Len(q) = n
    BY <1>1, QueueIs DEF n
  <1>9. r = [i \in 1 .. n - 1 |-> t[i].order_id] /\ r \in Seq(OrderIds) /\ Len(r) = n - 1
    BY <1>6, <1>7, QueueIs
  <1> HIDE DEF q, r
  <1>10. q # <<>> /\ Head(q) = x.order_id
    <2>1. q # <<>>
      BY <1>5, <1>8, EmptySeq
    <2>2. 1 \in 1 .. n
      BY <1>5
    <2>3. q[1] = x.order_id
      BY <1>5, <1>8, <2>2
    <2> QED BY <1>8, <2>1, <2>3
  <1>11. r = Tail(q)
    <2> DEFINE u == Tail(q)
    <2>1. /\ u \in Seq(OrderIds) /\ Len(u) = n - 1
          /\ \A i \in 1 .. Len(u) : u[i] = q[i + 1]
      BY <1>8, <1>10, HeadTailProperties
    <2> HIDE DEF u
    <2>2. ASSUME NEW i \in 1 .. n - 1 PROVE r[i] = u[i]
      <3>1. i + 1 \in 1 .. n
        BY <1>5
      <3>2. t[i] = s[i + 1]
        BY DEF t
      <3> QED BY <1>8, <1>9, <2>1, <3>1, <3>2
    <2>3. r = u
      BY <1>9, <2>1, <2>2, SeqEqual
    <2> QED BY <2>3 DEF u
  <1> QED BY <1>7, <1>10, <1>11 DEF q, r, T

\* Every leg can be lined up.
Legs == \A a \in Assets, kind \in {REQUEST, RESPONSE} : Queueable(OnLeg(a, kind))

LEMMA LegsInit == Init => Legs
  <1> SUFFICES ASSUME Init, NEW a \in Assets, NEW kind \in {REQUEST, RESPONSE}
               PROVE  Queueable(OnLeg(a, kind))
    BY DEF Legs
  <1>1. OnLeg(a, kind) = {}
    BY DEF Init, OnLeg
  <1> QED BY <1>1, QueueEmpty

\* An event that is sent joins the end of its leg.
LEMMA LegSends ==
  ASSUME Typed, Queued, Legs, NEW new \in PendingEvent, new.serial = next_serial + 1,
         NEW kept, kept \subseteq pending, pending' = kept \cup {new},
         NEW a \in Assets, new.asset_no = a,
         OnLeg(a, new.kind) \subseteq kept
  PROVE  /\ Queueable(OnLeg(a, new.kind)')
         /\ Leg(a, new.kind)' = Append(Leg(a, new.kind), new.order_id)
  <1> DEFINE S == OnLeg(a, new.kind)
  <1>1. OnLeg(a, new.kind)' = S \cup {new}
    BY DEF OnLeg
  <1>2. Queueable(S)
    BY DEF Legs, PendingEvent
  <1>3. \A y \in S : y.serial < new.serial
    <2> SUFFICES ASSUME NEW y \in S PROVE y.serial < new.serial
      OBVIOUS
    <2>1. y \in pending
      BY DEF OnLeg
    <2>2. y.serial <= next_serial /\ y.serial \in Nat /\ next_serial \in Nat
      BY <2>1, EventFields, TypeOKParts DEF Queued, Typed, InFlight
    <2> QED BY <2>2
  <1>4. /\ Queueable(S \cup {new})
        /\ QueueOf(S \cup {new}) = Append(QueueOf(S), new.order_id)
    <2> HIDE DEF S
    <2> QED BY <1>2, <1>3, QueueAppend
  <1>5. Leg(a, new.kind)' = QueueOf(S \cup {new}) /\ Leg(a, new.kind) = QueueOf(S)
    BY <1>1 DEF Leg
  <1> QED BY <1>1, <1>4, <1>5

\* The event that is picked leaves the head of its leg.
LEMMA LegHandles ==
  ASSUME Typed, Queued, Legs, NEW p \in pending, Picks(PendingKey(p)),
         NEW a \in Assets, p.asset_no = a,
         OnLeg(a, p.kind)' = OnLeg(a, p.kind) \ {p}
  PROVE  /\ Leg(a, p.kind) # <<>> /\ Head(Leg(a, p.kind)) = p.order_id
         /\ Queueable(OnLeg(a, p.kind)')
         /\ Leg(a, p.kind)' = Tail(Leg(a, p.kind))
  <1> DEFINE S == OnLeg(a, p.kind)
  <1>1. p \in S /\ \A q \in S : q \in pending /\ SameLeg(p, q)
    BY DEF OnLeg, SameLeg
  <1>2. Queueable(S)
    BY TypeOKParts DEF Legs, Typed, InFlight, PendingEvent
  <1>3. \A q \in S : p.serial <= q.serial
    BY <1>1, FirstOfItsLeg
  <1>4. /\ QueueOf(S) # <<>> /\ Head(QueueOf(S)) = p.order_id
        /\ Queueable(S \ {p})
        /\ QueueOf(S \ {p}) = Tail(QueueOf(S))
    <2> HIDE DEF S
    <2> QED BY <1>1, <1>2, <1>3, QueueTail
  <1>5. Leg(a, p.kind)' = QueueOf(S \ {p}) /\ Leg(a, p.kind) = QueueOf(S)
    BY DEF Leg
  <1> QED BY <1>4, <1>5

LEMMA LegStays ==
  ASSUME NEW a, NEW kind, OnLeg(a, kind)' = OnLeg(a, kind)
  PROVE  Leg(a, kind)' = Leg(a, kind)
  BY DEF Leg

\* How far the order of an event has come.
InStage == \A p \in pending : /\ p.kind = REQUEST => StageOf(KeyOf(p)) = "sent"
                              /\ p.kind = RESPONSE => StageOf(KeyOf(p)) = "decided"

LEMMA StageOfEvent == OrderLifeCycle => InStage
  <1> SUFFICES ASSUME OrderLifeCycle, NEW p \in pending
               PROVE  /\ p.kind = REQUEST => StageOf(KeyOf(p)) = "sent"
                      /\ p.kind = RESPONSE => StageOf(KeyOf(p)) = "decided"
    BY DEF InStage
  <1>1. /\ KeyOf(p) \in DOMAIN orders
        /\ \/ p.kind = REQUEST /\ RequestSent(KeyOf(p))
           \/ p.kind = RESPONSE /\ ResponseSent(KeyOf(p))
    BY EventOrder
  <1> QED BY <1>1 DEF RequestSent, ResponseSent, StageOf, REQUEST, RESPONSE

Stages    == [k \in Assets \X OrderIds |-> StageOf(k)]
Requests  == [a \in Assets |-> Leg(a, REQUEST)]
Responses == [a \in Assets |-> Leg(a, RESPONSE)]

\* A step that moves one order only.
LEMMA StagesMove ==
  ASSUME NEW k \in Assets \X OrderIds, NEW to, StageOf(k)' = to,
         \A j \in Assets \X OrderIds : j # k => StageOf(j)' = StageOf(j)
  PROVE  Stages' = [Stages EXCEPT ![k] = to]
  <1>1. Stages' = [j \in Assets \X OrderIds |-> StageOf(j)']
    BY DEF Stages
  <1>2. Stages = [j \in Assets \X OrderIds |-> StageOf(j)]
    BY DEF Stages
  <1>3. \A j \in Assets \X OrderIds : StageOf(j)' = IF j = k THEN to ELSE StageOf(j)
    OBVIOUS
  <1> QED BY <1>1, <1>2, <1>3

LEMMA RequestsMove ==
  ASSUME NEW a \in Assets, NEW to, Leg(a, REQUEST)' = to,
         \A b \in Assets : b # a => Leg(b, REQUEST)' = Leg(b, REQUEST)
  PROVE  Requests' = [Requests EXCEPT ![a] = to]
  <1>1. Requests' = [b \in Assets |-> Leg(b, REQUEST)']
    BY DEF Requests
  <1> QED BY <1>1 DEF Requests

LEMMA ResponsesMove ==
  ASSUME NEW a \in Assets, NEW to, Leg(a, RESPONSE)' = to,
         \A b \in Assets : b # a => Leg(b, RESPONSE)' = Leg(b, RESPONSE)
  PROVE  Responses' = [Responses EXCEPT ![a] = to]
  <1>1. Responses' = [b \in Assets |-> Leg(b, RESPONSE)']
    BY DEF Responses
  <1> QED BY <1>1 DEF Responses

LEMMA SubmitIsSend ==
  ASSUME Typed, Queued, Legs, OrderLifeCycle', NEW a \in Assets, NEW id \in OrderIds,
         NEW side, NEW px, NEW qty, NEW tif, Submit(a, id, side, px, qty, tif)
  PROVE  Desk!Send(a, id) /\ Legs'
  <1> DEFINE k0 == <<a, id>>
  <1>1. PICK new \in PendingEvent : /\ pending' = pending \cup {new}
                                    /\ new.asset_no = a /\ new.kind = REQUEST
                                    /\ new.serial = next_serial + 1 /\ new.order_id = id
    BY SubmitSends
  <1>2. KeyOf(new) = k0
    BY <1>1 DEF KeyOf
  <1>3. /\ k0 \notin DOMAIN orders /\ DOMAIN orders' = DOMAIN orders \cup {k0}
        /\ \A k \in DOMAIN orders : orders'[k] = orders[k]
    BY DEF Submit, Duplicate
  <1>4. StageOf(k0) = "unknown" /\ StageOf(k0)' = "sent"
    <2>1. InStage'
      BY StageOfEvent, PTL
    <2>2. StageOf(KeyOf(new))' = "sent"
      BY <1>1, <2>1 DEF InStage
    <2>3. StageOf(k0)' = "sent"
      BY <1>2, <2>2
    <2> QED BY <1>3, <2>3 DEF StageOf
  <1>5. Stages' = [Stages EXCEPT ![k0] = "sent"] /\ Stages[k0] = "unknown"
    <2>1. \A j \in Assets \X OrderIds : j # k0 => StageOf(j)' = StageOf(j)
      BY <1>3 DEF StageOf
    <2> QED BY <1>4, <2>1, StagesMove DEF Stages
  <1>6. /\ Queueable(OnLeg(a, REQUEST)')
        /\ Leg(a, REQUEST)' = Append(Leg(a, REQUEST), id)
    <2>1. OnLeg(a, new.kind) \subseteq pending
      BY DEF OnLeg
    <2> QED BY <1>1, <1>2, <2>1, LegSends
  <1>7. \A b \in Assets, kind \in {REQUEST, RESPONSE} :
          b # a \/ kind # REQUEST => OnLeg(b, kind)' = OnLeg(b, kind)
    BY <1>1, <1>2 DEF OnLeg
  <1>8. Legs'
    <2>1. \A b \in Assets, kind \in {REQUEST, RESPONSE} : Queueable(OnLeg(b, kind)')
      BY <1>6, <1>7 DEF Legs
    <2> QED BY <2>1 DEF Legs, OnLeg
  <1>9. Requests' = [Requests EXCEPT ![a] = Append(Requests[a], id)] /\ Responses' = Responses
    <2>1. \A b \in Assets : b # a => Leg(b, REQUEST)' = Leg(b, REQUEST)
      BY <1>7, LegStays
    <2>2. \A b \in Assets : Leg(b, RESPONSE)' = Leg(b, RESPONSE)
      BY <1>7, LegStays DEF REQUEST, RESPONSE
    <2>3. Requests[a] = Leg(a, REQUEST)
      BY DEF Requests
    <2>4. Responses' = [b \in Assets |-> Leg(b, RESPONSE)']
      BY DEF Responses
    <2> QED BY <1>6, <2>1, <2>2, <2>3, <2>4, RequestsMove DEF Responses
  <1> QED BY <1>5, <1>8, <1>9 DEF Desk!Send, Desk!Moves, Stages, Requests, Responses

LEMMA RequestIsDecide ==
  ASSUME Typed, Queued, Legs, OrderLifeCycle, OrderLifeCycle',
         NEW p \in pending, ProcessRequest(p)
  PROVE  (\E a \in Assets : Desk!Decide(a)) /\ Legs'
  <1> DEFINE a == p.asset_no
             k0 == KeyOf(p)
  <1>1. PICK new \in PendingEvent : /\ pending' = (pending \ {p}) \cup {new}
                                    /\ new.asset_no = a /\ new.kind = RESPONSE
                                    /\ new.serial = next_serial + 1
                                    /\ new.order_id = p.order_id
    BY RequestAnswers
  <1>2. /\ KeyOf(new) = k0 /\ p \in PendingEvent /\ a \in Assets /\ p.order_id \in OrderIds
        /\ p.kind = REQUEST /\ Picks(PendingKey(p)) /\ k0 \in Assets \X OrderIds
    BY <1>1, TypeOKParts DEF KeyOf, Typed, InFlight, PendingEvent, ProcessRequest
  <1>3. /\ DOMAIN orders' = DOMAIN orders
        /\ \A k : k # k0 => orders'[k] = orders[k]
    <2>1. PICK d : orders' = [orders EXCEPT ![k0] = Decided(orders[k0], p.ts, d)]
      BY RequestEffect DEF KeyOf
    <2>2. \A k \in DOMAIN orders : k # k0 => orders'[k] = orders[k]
      BY <2>1
    <2> QED BY <2>1, <2>2
  <1>4. StageOf(k0) = "sent" /\ StageOf(k0)' = "decided"
    <2>1. InStage'
      BY StageOfEvent, PTL
    <2>2. StageOf(KeyOf(new))' = "decided"
      BY <1>1, <2>1 DEF InStage
    <2> QED BY <1>2, <2>2, StageOfEvent DEF InStage
  <1>5. Stages' = [Stages EXCEPT ![k0] = "decided"] /\ Stages[k0] = "sent"
    <2>1. \A j \in Assets \X OrderIds : j # k0 => StageOf(j)' = StageOf(j)
      BY <1>3 DEF StageOf
    <2> QED BY <1>2, <1>4, <2>1, StagesMove DEF Stages
  <1>6. /\ Leg(a, REQUEST) # <<>> /\ Head(Leg(a, REQUEST)) = p.order_id
        /\ Queueable(OnLeg(a, REQUEST)')
        /\ Leg(a, REQUEST)' = Tail(Leg(a, REQUEST))
    <2>1. OnLeg(a, REQUEST)' = OnLeg(a, REQUEST) \ {p}
      BY <1>1 DEF OnLeg, REQUEST, RESPONSE
    <2> QED BY <1>2, <2>1, LegHandles
  <1>7. /\ Queueable(OnLeg(a, RESPONSE)')
        /\ Leg(a, RESPONSE)' = Append(Leg(a, RESPONSE), p.order_id)
    <2>1. OnLeg(a, RESPONSE) \subseteq pending \ {p}
      BY <1>2 DEF OnLeg, REQUEST, RESPONSE
    <2> QED BY <1>1, <1>2, <2>1, LegSends
  <1>8. \A b \in Assets, kind \in {REQUEST, RESPONSE} :
          b # a => OnLeg(b, kind)' = OnLeg(b, kind)
    BY <1>1 DEF OnLeg
  <1>9. Legs'
    <2>1. \A b \in Assets, kind \in {REQUEST, RESPONSE} : Queueable(OnLeg(b, kind)')
      BY <1>6, <1>7, <1>8 DEF Legs
    <2> QED BY <2>1 DEF Legs, OnLeg
  <1>10. /\ Requests' = [Requests EXCEPT ![a] = Tail(Requests[a])]
         /\ Responses' = [Responses EXCEPT ![a] = Append(Responses[a], p.order_id)]
         /\ Requests[a] = Leg(a, REQUEST)
    <2>1. \A b \in Assets : b # a => /\ Leg(b, REQUEST)' = Leg(b, REQUEST)
                                     /\ Leg(b, RESPONSE)' = Leg(b, RESPONSE)
      BY <1>8, LegStays
    <2>2. Requests[a] = Leg(a, REQUEST) /\ Responses[a] = Leg(a, RESPONSE)
      BY <1>2 DEF Requests, Responses
    <2> HIDE DEF a
    <2> QED BY <1>2, <1>6, <1>7, <2>1, <2>2, RequestsMove, ResponsesMove
  <1>11. k0 = <<a, Head(Requests[a])>>
    BY <1>6, <1>10 DEF KeyOf
  <1>12. Desk!Decide(a)
    <2> HIDE DEF a, k0
    <2> QED BY <1>5, <1>6, <1>10, <1>11 DEF Desk!Decide, Desk!Moves, Stages, Requests, Responses
  <1> QED BY <1>2, <1>9, <1>12

LEMMA ResponseIsAnswer ==
  ASSUME Typed, Queued, Legs, OrderLifeCycle, NEW p \in pending, ProcessResponse(p)
  PROVE  (\E a \in Assets : Desk!Answer(a)) /\ Legs'
  <1> DEFINE a == p.asset_no
             k0 == KeyOf(p)
  <1>1. /\ pending' = pending \ {p} /\ p \in PendingEvent /\ a \in Assets
        /\ p.kind = RESPONSE /\ Picks(PendingKey(p)) /\ k0 \in Assets \X OrderIds
        /\ p.ts \in I64
    BY TypeOKParts DEF KeyOf, Typed, InFlight, PendingEvent, ProcessResponse
  <1>2. /\ DOMAIN orders' = DOMAIN orders /\ k0 \in DOMAIN orders
        /\ \A k : k # k0 => orders'[k] = orders[k]
        /\ orders'[k0].response_visible = TRUE
    <2>1. orders' = [orders EXCEPT ![k0] = Shown(orders[k0], p.ts)]
      BY ResponseEffect DEF KeyOf
    <2>2. k0 \in DOMAIN orders /\ orders[k0] \in Order
      BY EventOrder, TypeOKParts DEF Typed, OrdersTyped
    <2>3. Shown(orders[k0], p.ts).response_visible = TRUE
      BY <1>1, <2>2, ShownType
    <2>4. \A k \in DOMAIN orders : k # k0 => orders'[k] = orders[k]
      BY <2>1
    <2> HIDE DEF k0
    <2> QED BY <2>1, <2>2, <2>3, <2>4
  <1>3. StageOf(k0) = "decided" /\ StageOf(k0)' = "answered"
    BY <1>1, <1>2, StageOfEvent DEF InStage, StageOf
  <1>4. Stages' = [Stages EXCEPT ![k0] = "answered"] /\ Stages[k0] = "decided"
    <2>1. \A j \in Assets \X OrderIds : j # k0 => StageOf(j)' = StageOf(j)
      BY <1>2 DEF StageOf
    <2> QED BY <1>1, <1>3, <2>1, StagesMove DEF Stages
  <1>5. /\ Leg(a, RESPONSE) # <<>> /\ Head(Leg(a, RESPONSE)) = p.order_id
        /\ Queueable(OnLeg(a, RESPONSE)')
        /\ Leg(a, RESPONSE)' = Tail(Leg(a, RESPONSE))
    <2>1. OnLeg(a, RESPONSE)' = OnLeg(a, RESPONSE) \ {p}
      BY <1>1 DEF OnLeg
    <2> QED BY <1>1, <2>1, LegHandles
  <1>6. \A b \in Assets, kind \in {REQUEST, RESPONSE} :
          b # a \/ kind # RESPONSE => OnLeg(b, kind)' = OnLeg(b, kind)
    BY <1>1 DEF OnLeg
  <1>7. Legs'
    <2>1. \A b \in Assets, kind \in {REQUEST, RESPONSE} : Queueable(OnLeg(b, kind)')
      BY <1>5, <1>6 DEF Legs
    <2> QED BY <2>1 DEF Legs, OnLeg
  <1>8. /\ Responses' = [Responses EXCEPT ![a] = Tail(Responses[a])]
        /\ Requests' = Requests
        /\ Responses[a] = Leg(a, RESPONSE)
    <2>1. \A b \in Assets : b # a => Leg(b, RESPONSE)' = Leg(b, RESPONSE)
      BY <1>6, LegStays
    <2>2. \A b \in Assets : Leg(b, REQUEST)' = Leg(b, REQUEST)
      BY <1>6, LegStays DEF REQUEST, RESPONSE
    <2>3. Responses[a] = Leg(a, RESPONSE)
      BY <1>1 DEF Responses
    <2>4. Requests' = [b \in Assets |-> Leg(b, REQUEST)']
      BY DEF Requests
    <2> HIDE DEF a
    <2> QED BY <1>1, <1>5, <2>1, <2>2, <2>3, <2>4, ResponsesMove DEF Requests
  <1>9. k0 = <<a, Head(Responses[a])>>
    BY <1>5, <1>8 DEF KeyOf
  <1>10. Desk!Answer(a)
    <2> HIDE DEF a, k0
    <2> QED BY <1>4, <1>5, <1>8, <1>9 DEF Desk!Answer, Desk!Moves, Stages, Requests, Responses
  <1> QED BY <1>1, <1>7, <1>10

\* Every step of the engine is one of the desk or leaves the desk as it is.
LEMMA DeskNext ==
  ASSUME Typed, Queued, Legs, OrderLifeCycle, OrderLifeCycle', [Next]_vars
  PROVE  [Desk!Next]_(Desk!vars) /\ Legs'
  <1>1. CASE UNCHANGED <<orders, pending, next_serial>>
    BY <1>1 DEF Desk!vars, Legs, OnLeg, Leg, StageOf
  <1>2. CASE Submits
    <2>1. PICK a \in Assets, id \in OrderIds, side \in {BUY, SELL},
               px \in PriceArgs, qty \in QtyArgs, tif \in {TIF_FOK, TIF_IOC} :
               Submit(a, id, side, px, qty, tif)
      BY <1>2 DEF Submits
    <2> QED BY <2>1, SubmitIsSend DEF Desk!Next
  <1>3. ASSUME NEW p \in pending, ProcessRequest(p)
        PROVE  [Desk!Next]_(Desk!vars) /\ Legs'
    BY <1>3, RequestIsDecide DEF Desk!Next
  <1>4. ASSUME NEW p \in pending, ProcessResponse(p)
        PROVE  [Desk!Next]_(Desk!vars) /\ Legs'
    BY <1>4, ResponseIsAnswer DEF Desk!Next
  <1> QED BY <1>1, <1>2, <1>3, <1>4, Frame

LEMMA DeskInit == Init => Desk!Init
  <1> SUFFICES ASSUME Init PROVE Desk!Init
    OBVIOUS
  <1>1. \A k : StageOf(k) = "unknown"
    BY DEF Init, StageOf
  <1>2. \A a, kind : Leg(a, kind) = <<>>
    <2>1. \A a, kind : OnLeg(a, kind) = {}
      BY DEF Init, OnLeg
    <2> QED BY <2>1, QueueEmpty DEF Leg
  <1> QED BY <1>1, <1>2 DEF Desk!Init

\* Behind the clock, the shared pending vector and its swap_remove, the orders
\* of each asset go through two first-in-first-out queues: every behaviour of
\* the engine is one of the order desk.
THEOREM EngineIsOrderDesk == Spec => ImplementsOrderDesk
  <1> DEFINE I == Typed /\ Clock /\ OrderLifeCycle /\ Queued /\ Legs
  <1>1. Init => I /\ Desk!Init
    BY TypedInit, ClockInit, LifeCycleInit, QueuedInit, LegsInit, DeskInit
  <1>2. I /\ [Next]_vars => I' /\ [Desk!Next]_(Desk!vars)
    <2> SUFFICES ASSUME I, [Next]_vars PROVE I' /\ [Desk!Next]_(Desk!vars)
      OBVIOUS
    <2>1. Typed' /\ Clock' /\ OrderLifeCycle' /\ Queued'
      BY TypedNext, ClockNext, LifeCycleNext, QueuedNext
    <2> QED BY <2>1, DeskNext
  <1> QED BY <1>1, <1>2, PTL DEF Spec, ImplementsOrderDesk, Desk!Spec
=============================================================================
