--------------------------- MODULE EngineRefinement ---------------------------
(***************************************************************************)
(* The engine implements the order desk: the events of one kind in flight  *)
(* on one asset, by serial, are that leg's queue.                          *)
(***************************************************************************)
EXTENDS EngineProps

StageOf(k) == IF k \notin DOMAIN orders THEN "unknown"
              ELSE IF orders[k].response_visible THEN "answered"
              ELSE IF orders[k].status = STATUS_NEW THEN "sent" ELSE "decided"

OnLeg(a, kind) == {p \in pending : p.asset_no = a /\ p.kind = kind}
BySerial(S)    == {e \in S \X S : e[1].serial < e[2].serial}
IdsOf(queue)   == [i \in DOMAIN queue |-> queue[i].order_id]
QueueOf(S)     == IdsOf(InOrder(S, BySerial(S)))
Leg(a, kind)   == QueueOf(OnLeg(a, kind))

Desk == INSTANCE OrderDesk WITH
          Desks     <- Assets,
          Ids       <- OrderIds,
          stage     <- [k \in Assets \X OrderIds |-> StageOf(k)],
          requests  <- [a \in Assets |-> Leg(a, REQUEST)],
          responses <- [a \in Assets |-> Leg(a, RESPONSE)]

\* Submitting, matching and answering orders through the shared pending vector,
\* with its time-ordered picks and swap_remove, is two FIFO queues per asset.
ImplementsOrderDesk == Desk!Spec
=============================================================================
