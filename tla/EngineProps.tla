----------------------------- MODULE EngineProps -----------------------------
(***************************************************************************)
(* What the replay engine promises its strategy: causality (nothing is     *)
(* seen or matched early or late), one life cycle per order with exact     *)
(* latencies, first-in-first-out legs, and native calls that stop at the   *)
(* right instant.                                                          *)
(***************************************************************************)
EXTENDS Engine

Pcs == {"idle", "elapse", "wait", "drain"}
Ops == {"none", "submit", "elapse", "wait"}

OrderKeys == AssetArgs \X OrderIds

Order == [side : {BUY, SELL}, tif : {TIF_FOK, TIF_IOC},
          status : {STATUS_NEW, STATUS_EXPIRED, STATUS_FILLED},
          requested_price : Int, requested_qty : Int,
          exec_price : Int, exec_qty : Int, leaves_qty : Int,
          req_local_ts : I64, exch_ts : I64, resp_local_ts : I64,
          response_visible : BOOLEAN]

PendingEvent == [ts : I64, asset_no : Assets, order_id : OrderIds,
                 kind : {REQUEST, RESPONSE}, serial : Nat]

\* Types of the clock, the cursors, the orders and the call in progress.
TypeOK ==
  /\ rows \in [Assets -> Seq(BboRow)]
  /\ config \in [Assets -> AssetConfig]
  /\ \A a \in Assets : /\ local_order[a] \in [1 .. Len(rows[a]) -> 1 .. Len(rows[a])]
                       /\ exch_order[a] \in [1 .. Len(rows[a]) -> 1 .. Len(rows[a])]
                       /\ local_cursor[a] \in 0 .. Len(rows[a])
                       /\ exch_cursor[a] \in 0 .. Len(rows[a])
  /\ local_cursor \in [Assets -> Nat]
  /\ exch_cursor \in [Assets -> Nat]
  /\ DOMAIN orders \subseteq Assets \X OrderIds
  /\ orders \in [DOMAIN orders -> Order]
  /\ pending \subseteq PendingEvent
  /\ next_serial \in Nat
  /\ current_ts \in I64
  /\ call \in [op : Ops, pc : Pcs, key : OrderKeys \cup {<<>>},
               target : I64, rc : {-2, -1, 0, 1}]

-----------------------------------------------------------------------------
(* Time.                                                                   *)

\* The clock never goes back, whatever calls are made (process_event and the
\* end of process_through both assign it).
ClockMonotone == [][current_ts' >= current_ts]_vars

\* Nothing left to handle lies in the past of the clock.
NothingOverdue == \A k \in EventKeys : current_ts <= k[1]

\* When a native call that ran the loop returns, the clock stands at its
\* target (for a wait that was answered: at the response) and everything due
\* by then, on either asset, has been handled.
ReturnsDrained ==
  [][Running /\ ~Running' => /\ current_ts' = call'.target
                             /\ \A k \in EventKeys' : k[1] > current_ts']_vars

-----------------------------------------------------------------------------
(* Causality.                                                              *)

\* The exchange handles a request on exactly the market data it has received
\* by then: every row up to and including that nanosecond, and none after it.
NoLookahead ==
  [][\A k \in DOMAIN orders : orders[k].status = STATUS_NEW /\ orders'[k].status # STATUS_NEW =>
       LET a == k[1]
       IN \A i \in 1 .. Len(rows[a]) :
            i <= exch_cursor[a] <=> ExchTs(a, exch_order[a][i]) <= orders'[k].exch_ts]_vars

\* A fresh book after each number of the rows rs, applied in the given order,
\* and the view it then shows; ts holds the timestamps of the rows.
DepthsAlong(rs, order) ==
  LET depth[n \in 0 .. Len(rs)] ==
        IF n = 0 THEN EmptyDepth ELSE ApplyRow(depth[n - 1], rs[order[n]])
  IN  depth

ViewAfter(rs, order, n, ts) ==
  IF n = 0 THEN DefaultView
  ELSE ViewOf(DepthsAlong(rs, order)[n], rs[order[n]], ts[order[n]])

\* The reference replay order: by timestamp, source_seq and place in the file.
RowBefore(rs, ts) ==
  {e \in (DOMAIN rs) \X (DOMAIN rs) :
     LET i == e[1]
         j == e[2]
     IN \/ ts[i] < ts[j]
        \/ ts[i] = ts[j] /\ rs[i].source_seq < rs[j].source_seq
        \/ ts[i] = ts[j] /\ rs[i].source_seq = rs[j].source_seq /\ i < j}

\* The view after exactly the rows stamped up to t.
Reference(rs, t, ts) ==
  ViewAfter(rs, InOrder(DOMAIN rs, RowBefore(rs, ts)),
            Cardinality({i \in DOMAIN rs : ts[i] <= t}), ts)

ExchTimes(a)  == [i \in DOMAIN rows[a] |-> ExchTs(a, i)]
LocalTimes(a) == [i \in DOMAIN rows[a] |-> LocalTs(a, i)]

\* Every matched order got the decision a fresh exchange book would give after
\* exactly the rows stamped up to the order's arrival, in (exch_ts, source_seq)
\* order: no later row, cursor or event of either asset has any part in it.
MatchedOnArrival ==
  \A k \in DOMAIN orders :
    LET o == orders[k]
    IN o.status # STATUS_NEW =>
         MatchImmediate(o.side, o.requested_price, o.requested_qty,
                        Reference(rows[k[1]], o.exch_ts, ExchTimes(k[1])))
         = [status |-> o.status, exec_price |-> o.exec_price,
            exec_qty |-> o.exec_qty, leaves_qty |-> o.leaves_qty]

\* The quote and the feed latency the strategy finds when a call returns are
\* those of the rows that have reached it by the clock, no more and no fewer.
StrategySeesThePast ==
  [][Running /\ ~Running' =>
       \A a \in Assets :
         LET view == Reference(rows[a], current_ts', LocalTimes(a))
         IN /\ local_view'[a] = view
            /\ feed_latency'[a] = IF view = DefaultView THEN <<>>
                                  ELSE <<view.exch_ts, view.local_ts>>]_vars

-----------------------------------------------------------------------------
(* Orders.                                                                 *)
EventsOf(k) == {p \in pending : <<p.asset_no, p.order_id>> = k}

ArrivalTs(k)  == SatAdd(orders[k].req_local_ts, config[k[1]].entry_latency)
ResponseTs(k) == SatAdd(ArrivalTs(k), config[k[1]].response_latency)

OnItsWay(k, kind, ts) == \E p \in pending : /\ EventsOf(k) = {p}
                                            /\ p.kind = kind
                                            /\ p.ts = ts

RequestSent(k) ==
  /\ orders[k].status = STATUS_NEW
  /\ ~orders[k].response_visible
  /\ OnItsWay(k, REQUEST, ArrivalTs(k))

ResponseSent(k) ==
  /\ orders[k].status # STATUS_NEW
  /\ ~orders[k].response_visible
  /\ orders[k].exch_ts = ArrivalTs(k)
  /\ OnItsWay(k, RESPONSE, ResponseTs(k))

Answered(k) ==
  /\ orders[k].status # STATUS_NEW
  /\ orders[k].response_visible
  /\ orders[k].exch_ts = ArrivalTs(k)
  /\ orders[k].resp_local_ts = ResponseTs(k)
  /\ EventsOf(k) = {}

\* Every order has exactly one event in flight until it is answered, is matched
\* exactly one entry latency after it was sent and answered exactly one
\* response latency after that; no event belongs to no order.
OrderLifeCycle ==
  /\ \A p \in pending : <<p.asset_no, p.order_id>> \in DOMAIN orders
  /\ \A k \in DOMAIN orders : RequestSent(k) \/ ResponseSent(k) \/ Answered(k)

\* On one asset, requests reach the exchange and responses the strategy in the
\* order they were sent, though swap_remove shuffles the pending vector.
FirstInFirstOut ==
  [][\A p \in pending \ pending' : \A q \in pending :
       p.asset_no = q.asset_no /\ p.kind = q.kind => p.serial <= q.serial]_vars

\* What wait_response returns is true: 0 says the response is visible, and not
\* before its time; 1 says that it cannot come by the deadline.
WaitVerdict ==
  ~Running /\ call.op = "wait" =>
    /\ call.rc = 0 => /\ orders[call.key].response_visible
                      /\ orders[call.key].resp_local_ts <= current_ts
    /\ call.rc = 1 => /\ current_ts = call.target
                      /\ call.key \in DOMAIN orders => ResponseTs(call.key) > call.target

\* A wait that had to run the loop hands control back at the instant of the
\* response it waited for.
WaitStopsAtResponse ==
  [][call.pc = "drain" /\ ~Running' =>
       current_ts' = orders'[call.key].resp_local_ts]_vars

\* Every native call returns.
CallReturns == Running ~> ~Running
=============================================================================
