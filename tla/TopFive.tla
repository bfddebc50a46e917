------------------------------ MODULE TopFive -------------------------------
(***************************************************************************)
(* normalize.py: the best price of one side of a depth row and the         *)
(* quantity offered at it.                                                 *)
(*                                                                         *)
(* A row has a sequence of levels on each side, in any order.  NaN is a    *)
(* number that is missing or infinite; a price that is, or is not          *)
(* positive, is 0.  Only the ratio of quantities to volume_scale matters,  *)
(* so both are integers.                                                   *)
(***************************************************************************)
EXTENDS Integers, SequencesExt

CONSTANT NaN

ASSUME NaNAssumption == NaN \notin Int

Level == [px : Nat, qty : Int \cup {NaN}]

\* The quantity a level counts with: its own, or the stand-in of a source whose
\* levels may carry a price only, scaled.
Quantity(level, source) ==
  LET qty == IF level.qty = NaN THEN source.price_only_depth_qty ELSE level.qty
  IN  IF qty = NaN THEN NaN ELSE qty * source.volume_scale

Counts(level, source) ==
  /\ level.px > 0
  /\ Quantity(level, source) # NaN /\ Quantity(level, source) > 0

MutMerged(side, px, qty) == Append(side, [px |-> px, qty |-> qty])   \* each level on its own
Merged(side, px, qty) ==
  IF \E k \in DOMAIN side : side[k].px = px
  THEN [k \in DOMAIN side |-> IF side[k].px = px THEN [side[k] EXCEPT !.qty = @ + qty] ELSE side[k]]
  ELSE Append(side, [px |-> px, qty |-> qty])

Aggregated(levels, source) ==
  FoldLeft(LAMBDA side, level : IF Counts(level, source)
                                THEN Merged(side, level.px, Quantity(level, source)) ELSE side,
           <<>>, levels)

\* One step of the insertion sort: asks ascending, bids descending.
Inserted(side, level, ascending) ==
  LET Goes(other) == IF ascending THEN other.px <= level.px ELSE other.px >= level.px
      after == SelectInSeq(side, LAMBDA other : ~Goes(other))
  IN  IF after = 0 THEN Append(side, level) ELSE InsertAt(side, after, level)

Sorted(side, ascending) ==
  FoldLeft(LAMBDA done, level : Inserted(done, level, ascending), <<>>, side)

NoQuote == [px |-> 0, qty |-> NaN]

Best(levels, source, bid) ==
  LET side == Sorted(Aggregated(levels, source), ~bid)
  IN  IF side = <<>> THEN NoQuote ELSE side[1]
=============================================================================
