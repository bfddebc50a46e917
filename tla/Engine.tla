------------------------------- MODULE Engine -------------------------------
(***************************************************************************)
(* The caller-clocked two-asset replay of engine.rs and scheduler.rs.      *)
(*                                                                         *)
(* The strategy calls submit, elapse or wait_response; elapse and          *)
(* wait_response run process_through, whose loop is modelled one iteration *)
(* at a time: the action that handles the earliest event, or the loop's    *)
(* end.  The variable call is the activation record of the running native  *)
(* call and, once it is idle, of the last one with its return code.        *)
(*                                                                         *)
(* An operator Mut... is a plausible mistake in the definition after it,    *)
(* which the properties of EngineProps must not survive.                   *)
(*                                                                         *)
(* pending is a set: the Vec's order, which swap_remove disturbs, is never *)
(* observed because the serials make all pending keys differ.              *)
(***************************************************************************)
EXTENDS Book, RowOrder, Sequences

CONSTANTS
  Inputs,        \* the pairs of row arrays an engine may be created with
  Configs,       \* the pairs of asset configurations
  MinTs, MaxTs,  \* i64::MIN and i64::MAX, where timestamp sums saturate
  AssetArgs,     \* asset numbers the caller passes
  OrderIds, SideArgs, PriceArgs, QtyArgs, TifArgs,     \* arguments of submit
  DurationArgs,  \* durations passed to elapse
  TimeoutArgs    \* timeouts passed to wait_response

Assets == {0, 1}
I64    == MinTs .. MaxTs

BboRow == [source_seq : Nat, exch_ts : I64, local_ts_raw : I64,
           bid_px : Nat, bid_qty : Nat, ask_px : Nat, ask_qty : Nat]

\* The latencies are validated to be non-negative (config.py); the adjustment
\* and the feed offset may have any sign.
AssetConfig == [local_adjustment : Int, feed_offset : Int,
                entry_latency : Nat, response_latency : Nat]

ASSUME I64Assumption     == MinTs \in Int /\ MaxTs \in Int /\ MinTs <= 0 /\ 0 <= MaxTs
ASSUME InputsAssumption  == Inputs \subseteq [Assets -> Seq(BboRow)]
ASSUME ConfigsAssumption == Configs \subseteq [Assets -> AssetConfig]
ASSUME ArgsAssumption    == /\ DurationArgs \subseteq Int /\ TimeoutArgs \subseteq Int
                            /\ PriceArgs \subseteq Int /\ QtyArgs \subseteq Int

VARIABLES
  rows, config,                 \* the engine's inputs, fixed at creation
  local_order, exch_order,      \* per asset, row indices in the two time orders
  local_cursor, exch_cursor,    \* how many of them are applied
  local_depth, exch_depth,      \* the strategy's and the exchange's book
  local_view, exch_view,        \* the quotes last read off them
  feed_latency, order_latency,  \* the last samples, <<>> for Rust's None
  orders,                       \* OrderView by <<asset, order id>>
  pending, next_serial,         \* order events in flight
  current_ts,                   \* the clock
  call                          \* the running or the last native call

inputs  == <<rows, config, local_order, exch_order>>
local   == <<local_cursor, local_depth, local_view, feed_latency>>
exch    == <<exch_cursor, exch_depth, exch_view>>
trading == <<order_latency, orders, pending, next_serial>>
vars    == <<inputs, local, exch, trading, current_ts, call>>

-----------------------------------------------------------------------------
\* i64::saturating_add
MutSatAdd(x, y) == x + y                                   \* wraps to a wider type
SatAdd(x, y) == IF x + y > MaxTs THEN MaxTs
                ELSE IF x + y < MinTs THEN MinTs ELSE x + y

MutAtLeastZero(n) == n                                     \* max(0) forgotten
AtLeastZero(n) == IF n < 0 THEN 0 ELSE n

LocalTsOf(row, cfg) ==
  SatAdd(SatAdd(row.local_ts_raw, cfg.local_adjustment), cfg.feed_offset)

LocalTs(a, i) == LocalTsOf(rows[a][i], config[a])
ExchTs(a, i)  == rows[a][i].exch_ts

MutLocalOrders(a) == {[i \in 1 .. Len(rows[a]) |-> i]}      \* file order, unsorted
LocalOrders(a) ==
  StableOrders([i \in 1 .. Len(rows[a]) |-> <<LocalTs(a, i), rows[a][i].source_seq>>])
ExchOrders(a)  ==
  StableOrders([i \in 1 .. Len(rows[a]) |-> <<ExchTs(a, i), rows[a][i].source_seq>>])

Indices  == ({0} \X DOMAIN rows[0]) \cup ({1} \X DOMAIN rows[1])
RowTimes == UNION {{LocalTs(x[1], x[2]), ExchTs(x[1], x[2])} : x \in Indices}

NoCall == [op |-> "none", pc |-> "idle", key |-> <<>>, target |-> 0, rc |-> 0]

Init ==
  /\ rows \in Inputs
  /\ config \in Configs
  /\ local_order \in {f \in [Assets -> UNION {LocalOrders(a) : a \in Assets}] :
                        \A a \in Assets : f[a] \in LocalOrders(a)}
  /\ exch_order \in {f \in [Assets -> UNION {ExchOrders(a) : a \in Assets}] :
                        \A a \in Assets : f[a] \in ExchOrders(a)}
  /\ local_cursor = [a \in Assets |-> 0]
  /\ exch_cursor  = [a \in Assets |-> 0]
  /\ local_depth  = [a \in Assets |-> EmptyDepth]
  /\ exch_depth   = [a \in Assets |-> EmptyDepth]
  /\ local_view   = [a \in Assets |-> DefaultView]
  /\ exch_view    = [a \in Assets |-> DefaultView]
  /\ feed_latency  = [a \in Assets |-> <<>>]
  /\ order_latency = [a \in Assets |-> <<>>]
  /\ orders = [k \in {} |-> NoCall]
  /\ pending = {}
  /\ next_serial = 0
  /\ current_ts \in IF RowTimes = {} THEN {0} ELSE RowTimes
  /\ \A t \in RowTimes : current_ts <= t
  /\ call = NoCall

-----------------------------------------------------------------------------
(* scheduler.rs and next_event: every candidate has the key <<ts, asset,   *)
(* priority of its kind, sequence>> and the least key is next.             *)
LOCAL_DATA == 0
RESPONSE   == 1
MutEXCH_DATA == 4                                          \* after the requests
EXCH_DATA  == 2
REQUEST    == 3

KeyLess(x, y) == \E n \in 1 .. 4 : /\ x[n] < y[n]
                                  /\ \A m \in 1 .. (n - 1) : x[m] = y[m]

HasLocal(a) == local_cursor[a] < Len(rows[a])
HasExch(a)  == exch_cursor[a] < Len(rows[a])
NextLocal(a) == local_order[a][local_cursor[a] + 1]
NextExch(a)  == exch_order[a][exch_cursor[a] + 1]

LocalKey(a) == <<LocalTs(a, NextLocal(a)), a, LOCAL_DATA, rows[a][NextLocal(a)].source_seq>>
ExchKey(a)  == <<ExchTs(a, NextExch(a)), a, EXCH_DATA, rows[a][NextExch(a)].source_seq>>
MutPendingKey(p) == <<p.ts, p.asset_no, p.kind, -p.serial>>  \* latest first
PendingKey(p) == <<p.ts, p.asset_no, p.kind, p.serial>>

EventKeys == {LocalKey(a) : a \in {b \in Assets : HasLocal(b)}}
             \cup {ExchKey(a) : a \in {b \in Assets : HasExch(b)}}
             \cup {PendingKey(p) : p \in pending}

IsNext(key) == key \in EventKeys /\ \A k \in EventKeys : k # key => KeyLess(key, k)

Running == call.pc # "idle"

\* The head of process_through's loop picks this event.
MutPicks(key) == Running /\ key \in EventKeys /\ key[1] <= call.target  \* any due event
Picks(key) == Running /\ IsNext(key) /\ key[1] <= call.target

\* EventSource::LocalData: the strategy's book, quote and feed latency.
ProcessLocalData(a) ==
  /\ HasLocal(a)
  /\ Picks(LocalKey(a))
  /\ LET row == rows[a][NextLocal(a)]
         ts  == LocalTsOf(row, config[a])
         depth == ApplyRow(local_depth[a], row)
     IN  /\ current_ts' = LocalKey(a)[1]
         /\ local_depth' = [local_depth EXCEPT ![a] = depth]
         /\ local_view' = [local_view EXCEPT ![a] = ViewOf(depth, row, ts)]
         /\ feed_latency' = [feed_latency EXCEPT ![a] = <<row.exch_ts, ts>>]
         /\ local_cursor' = [local_cursor EXCEPT ![a] = @ + 1]
  /\ UNCHANGED <<inputs, exch, trading, call>>

\* EventSource::ExchData: the exchange's book and quote.
ProcessExchData(a) ==
  /\ HasExch(a)
  /\ Picks(ExchKey(a))
  /\ LET row == rows[a][NextExch(a)]
         depth == ApplyRow(exch_depth[a], row)
     IN  /\ current_ts' = ExchKey(a)[1]
         /\ exch_depth' = [exch_depth EXCEPT ![a] = depth]
         /\ exch_view' = [exch_view EXCEPT ![a] = ViewOf(depth, row, row.exch_ts)]
         /\ exch_cursor' = [exch_cursor EXCEPT ![a] = @ + 1]
  /\ UNCHANGED <<inputs, local, trading, call>>

\* The quote orders are matched on.
MutQuoteAtExchange(a) == local_view[a]                     \* the strategy's quote
QuoteAtExchange(a) == exch_view[a]

\* PendingKind::Request: match the order on the exchange's quote and send the
\* response back.  The order is always there, orders are never removed.
ProcessRequest(p) ==
  /\ p.kind = REQUEST
  /\ Picks(PendingKey(p))
  /\ LET a == p.asset_no
         k == <<a, p.order_id>>
         o == orders[k]
         decision == MatchImmediate(o.side, o.requested_price, o.requested_qty,
                                   QuoteAtExchange(a))
     IN  /\ current_ts' = p.ts
         /\ orders' = [orders EXCEPT ![k] =
                         [@ EXCEPT !.exch_ts    = p.ts,
                                   !.status     = decision.status,
                                   !.exec_price = decision.exec_price,
                                   !.exec_qty   = decision.exec_qty,
                                   !.leaves_qty = decision.leaves_qty]]
         /\ next_serial' = next_serial + 1
         /\ pending' = (pending \ {p}) \cup
              {[ts |-> SatAdd(p.ts, config[a].response_latency), asset_no |-> a,
                order_id |-> p.order_id, kind |-> RESPONSE, serial |-> next_serial']}
  /\ UNCHANGED <<inputs, local, exch, order_latency, call>>

\* A wait that sees the response it stops at narrows its target to the
\* response's timestamp and drains what else is due by then.
MutDrainAfter(k, ts) ==                                    \* returns undrained
  IF call.pc = "wait" /\ call.key = k
  THEN [call EXCEPT !.pc = "idle", !.target = ts] ELSE call
MutDrainAfterNotNarrowed(k, ts) ==                         \* drains to the deadline
  IF call.pc = "wait" /\ call.key = k THEN [call EXCEPT !.pc = "drain"] ELSE call
DrainAfter(k, ts) ==
  IF call.pc = "wait" /\ call.key = k
  THEN [call EXCEPT !.pc = "drain", !.target = ts] ELSE call

\* PendingKind::Response: the order becomes visible.
ProcessResponse(p) ==
  /\ p.kind = RESPONSE
  /\ Picks(PendingKey(p))
  /\ LET k == <<p.asset_no, p.order_id>>
         o == orders[k]
     IN  /\ current_ts' = p.ts
         /\ orders' = [orders EXCEPT ![k] = [@ EXCEPT !.resp_local_ts = p.ts,
                                                      !.response_visible = TRUE]]
         /\ order_latency' = [order_latency EXCEPT ![p.asset_no] =
                                <<o.req_local_ts, o.exch_ts, p.ts>>]
         /\ call' = DrainAfter(k, p.ts)
  /\ pending' = pending \ {p}
  /\ UNCHANGED <<inputs, local, exch, next_serial>>

MutNothingDue(target) == EventKeys # {} /\ \A k \in EventKeys : k[1] > target  \* no None arm
NothingDue(target) == \A k \in EventKeys : k[1] > target

\* process_through falls out of its loop and the native call returns: 0 from
\* elapse and after a drain, 1 from a wait that saw no response.
ReturnFromLoop ==
  /\ Running
  /\ NothingDue(call.target)
  /\ current_ts' = call.target
  /\ call' = [call EXCEPT !.pc = "idle", !.rc = IF call.pc = "wait" THEN 1 ELSE 0]
  /\ UNCHANGED <<inputs, local, exch, trading>>

-----------------------------------------------------------------------------
(* The native calls.                                                       *)
ReturnAtOnce(op, key, rc) ==
  call' = [op |-> op, pc |-> "idle", key |-> key, target |-> current_ts, rc |-> rc]

BadOrder(a, side, tif) == a \notin Assets \/ tif \notin {TIF_FOK, TIF_IOC}
                                          \/ side \notin {BUY, SELL}

MutDuplicate(a, id) == FALSE                               \* ids not checked
Duplicate(a, id) == <<a, id>> \in DOMAIN orders

SubmitRejected(a, id, side, tif) ==
  /\ ~Running
  /\ \/ BadOrder(a, side, tif) /\ ReturnAtOnce("submit", <<a, id>>, -1)
     \/ /\ ~BadOrder(a, side, tif)
        /\ Duplicate(a, id)
        /\ ReturnAtOnce("submit", <<a, id>>, -2)
  /\ UNCHANGED <<inputs, local, exch, trading, current_ts>>

NewOrder(side, px, qty, tif) ==
  [side |-> side, tif |-> tif, status |-> STATUS_NEW,
   requested_price |-> px, requested_qty |-> qty,
   exec_price |-> 0, exec_qty |-> 0, leaves_qty |-> qty,
   req_local_ts |-> current_ts, exch_ts |-> 0, resp_local_ts |-> 0,
   response_visible |-> FALSE]

Submit(a, id, side, px, qty, tif) ==
  /\ ~Running
  /\ ~BadOrder(a, side, tif)
  /\ ~Duplicate(a, id)
  /\ orders' = [k \in DOMAIN orders \cup {<<a, id>>} |->
                  IF k = <<a, id>> THEN NewOrder(side, px, qty, tif) ELSE orders[k]]
  /\ next_serial' = next_serial + 1
  /\ pending' = pending \cup
       {[ts |-> SatAdd(current_ts, config[a].entry_latency), asset_no |-> a,
         order_id |-> id, kind |-> REQUEST, serial |-> next_serial']}
  /\ ReturnAtOnce("submit", <<a, id>>, 0)
  /\ UNCHANGED <<inputs, local, exch, order_latency, current_ts>>

\* The last timestamp of each unfinished stream and of each pending event.
LastTimes == {LocalTs(a, local_order[a][Len(rows[a])]) : a \in {b \in Assets : HasLocal(b)}}
             \cup {ExchTs(a, exch_order[a][Len(rows[a])]) : a \in {b \in Assets : HasExch(b)}}
             \cup {p.ts : p \in pending}

\* target > latest_pending_timestamp(), or nothing is left at all
BeyondLast(target) == \A t \in LastTimes : target > t

ElapseRefused(d) ==
  /\ ~Running
  /\ BeyondLast(SatAdd(current_ts, AtLeastZero(d)))
  /\ ReturnAtOnce("elapse", <<>>, 1)
  /\ UNCHANGED <<inputs, local, exch, trading, current_ts>>

Elapse(d) ==
  LET target == SatAdd(current_ts, AtLeastZero(d))
  IN  /\ ~Running
      /\ ~BeyondLast(target)
      /\ call' = [op |-> "elapse", pc |-> "elapse", key |-> <<>>,
                  target |-> target, rc |-> 0]
      /\ UNCHANGED <<inputs, local, exch, trading, current_ts>>

MutVisible(k) == k \in DOMAIN orders                        \* submitted is enough
Visible(k) == k \in DOMAIN orders /\ orders[k].response_visible

WaitAnswered(k) ==
  /\ ~Running
  /\ Visible(k)
  /\ ReturnAtOnce("wait", k, 0)
  /\ UNCHANGED <<inputs, local, exch, trading, current_ts>>

WaitResponse(k, timeout) ==
  /\ ~Running
  /\ ~Visible(k)
  /\ call' = [op |-> "wait", pc |-> "wait", key |-> k,
              target |-> SatAdd(current_ts, AtLeastZero(timeout)), rc |-> 0]
  /\ UNCHANGED <<inputs, local, exch, trading, current_ts>>

Strategy ==
  \/ \E a \in AssetArgs, id \in OrderIds, side \in SideArgs, tif \in TifArgs :
        \/ SubmitRejected(a, id, side, tif)
        \/ \E px \in PriceArgs, qty \in QtyArgs : Submit(a, id, side, px, qty, tif)
  \/ \E d \in DurationArgs : Elapse(d) \/ ElapseRefused(d)
  \/ \E k \in AssetArgs \X OrderIds :
        WaitAnswered(k) \/ \E timeout \in TimeoutArgs : WaitResponse(k, timeout)

ProcessThrough ==
  \/ \E a \in Assets : ProcessLocalData(a) \/ ProcessExchData(a)
  \/ \E p \in pending : ProcessRequest(p) \/ ProcessResponse(p)
  \/ ReturnFromLoop

Next == Strategy \/ ProcessThrough

Spec == Init /\ [][Next]_vars

\* A native call runs to its end on the caller's thread; nothing obliges the
\* strategy to make another.
FairSpec == Spec /\ WF_vars(ProcessThrough)
=============================================================================
