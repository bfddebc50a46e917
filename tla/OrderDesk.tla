------------------------------ MODULE OrderDesk ------------------------------
(***************************************************************************)
(* What the engine promises about orders, without clock, market data or    *)
(* latencies: on each asset an order is sent, decided and answered exactly *)
(* once, and both legs are first-in-first-out queues.                      *)
(***************************************************************************)
EXTENDS Sequences

CONSTANTS Desks,        \* the assets, one desk each
          Ids           \* order identifiers, unique per desk

VARIABLES
  stage,                \* of each order of each desk
  requests, responses   \* per desk, the ids in flight on each leg

vars == <<stage, requests, responses>>

Init == /\ stage = [k \in Desks \X Ids |-> "unknown"]
        /\ requests = [a \in Desks |-> <<>>]
        /\ responses = [a \in Desks |-> <<>>]

Moves(k, from, to) == /\ stage[k] = from
                      /\ stage' = [stage EXCEPT ![k] = to]

Send(a, id) == /\ Moves(<<a, id>>, "unknown", "sent")
               /\ requests' = [requests EXCEPT ![a] = Append(@, id)]
               /\ UNCHANGED responses

Decide(a) == /\ requests[a] # <<>>
             /\ Moves(<<a, Head(requests[a])>>, "sent", "decided")
             /\ requests' = [requests EXCEPT ![a] = Tail(@)]
             /\ responses' = [responses EXCEPT ![a] = Append(@, Head(requests[a]))]

Answer(a) == /\ responses[a] # <<>>
             /\ Moves(<<a, Head(responses[a])>>, "decided", "answered")
             /\ responses' = [responses EXCEPT ![a] = Tail(@)]
             /\ UNCHANGED requests

Next == \E a \in Desks : Decide(a) \/ Answer(a) \/ \E id \in Ids : Send(a, id)

Spec == Init /\ [][Next]_vars
=============================================================================
