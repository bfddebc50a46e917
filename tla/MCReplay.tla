------------------------------ MODULE MCReplay ------------------------------
(* Small inputs for the facade over the engine. *)
EXTENDS Replay, MCEngine

MCReplayMinTs == -8

\* A negative argument is rejected; 9 and 18 stand for integers past 2^63 and
\* past 2^64.
MCDurations     == {-1, 1, 3}
MCHugeDurations == {1, 9, 18}
MCReplayTimeouts == {-1, 2}

MCInt64 == MinTs .. MaxTs

Good == [bbo_v1 |-> TRUE, version |-> "bbo_v1", adjustment |-> "integer"]
Found(explicit, environ, present, data) ==
  [explicit |-> explicit, environ |-> environ, present |-> present,
   abi |-> [packaged |-> 1, development |-> 1, old |-> 2, broken |-> 0, gone |-> 1],
   data |-> Pair(Good, data)]
MCCandidates == <<"packaged", "development">>
MCFiles == {"packaged", "development", "old", "broken", "gone"}

\* Libraries found where they are asked for, in the package or in the checkout;
\* overrides that are missing, of another ABI or no library; legacy and foreign
\* partitions.
MCSetups ==
  {Found(NoPath, NoPath, {"development"}, Good),
   Found(NoPath, "development", {"packaged", "development"}, [Good EXCEPT !.version = "none"]),
   Found("packaged", "old", {"packaged", "development", "old"}, [Good EXCEPT !.adjustment = "none"])}
  \cup
  {Found(NoPath, NoPath, {}, Good), Found("gone", NoPath, {"packaged"}, Good),
   Found(NoPath, "old", {"packaged", "old"}, Good),
   Found(NoPath, NoPath, {"packaged", "development"}, Good),
   [Found(NoPath, NoPath, {"packaged", "development"}, Good) EXCEPT !.abi["packaged"] = 2],
   Found("broken", NoPath, {"packaged", "broken"}, Good)}
  \cup
  {Found(NoPath, NoPath, {"packaged"}, data) :
     data \in {[Good EXCEPT !.bbo_v1 = FALSE], [Good EXCEPT !.version = "other"],
               [Good EXCEPT !.adjustment = "invalid"]}}

ASSUME SetupsAssumption == MCSetups \subseteq Setup(MCFiles)
=============================================================================
