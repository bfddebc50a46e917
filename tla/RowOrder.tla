------------------------------ MODULE RowOrder ------------------------------
(* The order of rows by time, ties broken by source_seq, that the cache    *)
(* builder records (ordering.py) and the engine replays (engine.rs).       *)
EXTENDS Integers, FiniteSets, Functions

PairBefore(x, y) == x[1] < y[1] \/ (x[1] = y[1] /\ x[2] < y[2])

\* The stable sorts of rows whose keys are the pairs of the sequence keys.
StableOrders(keys) ==
  {p \in Bijection(DOMAIN keys, DOMAIN keys) :
     \A i, j \in DOMAIN keys : i < j =>
        PairBefore(keys[p[i]], keys[p[j]]) \/ (keys[p[i]] = keys[p[j]] /\ p[i] < p[j])}

\* The members of S one after the other as the set R of pairs orders them.
Enumerations(S, R) == {s \in [1 .. Cardinality(S) -> S] :
                         \A i, j \in DOMAIN s : i < j => <<s[i], s[j]>> \in R}
InOrder(S, R) == CHOOSE s \in Enumerations(S, R) : TRUE
=============================================================================
