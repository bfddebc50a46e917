----------------------------- MODULE MCCompact ------------------------------
(* Small requests and rows for TLC.                                        *)
EXTENDS CompactProps

Name(zeros, rest) == [zeros |-> zeros, rest |-> rest]
Row(name, ets, lts, status, bids, asks) ==
  [symbol |-> name, exchtime |-> ets, localtime |-> lts, status |-> status,
   bids |-> bids, asks |-> asks]
Raw(name, ets, lts, status) == Row(name, ets, lts, status, <<>>, <<>>)

\* A symbol with leading zeros and one without; two that cannot be told apart;
\* two of zeros only, which can.
MCRequests == {{Name(2, "50"), Name(0, "2330")}, {Name(2, "50"), Name(0, "50")},
               {Name(1, ""), Name(2, "")}}

\* Rows of a symbol in both spellings, in and out of time, early, late or not
\* stamped; a row of another symbol; one of nobody; one of zeros; and rows that
\* the status or either end of the session drops.
MCRawRows ==
  {Raw(Name(z, "50"), e, l, "open") : z \in {0, 2}, e \in {2, 3}, l \in {0, 1, 3}}
    \cup {Raw(Name(0, "2330"), 2, 3, "open"), Raw(Name(1, "50"), 2, 2, "open"),
          Raw(Name(1, ""), 3, 2, "open"),
          Raw(Name(0, "50"), 2, 3, "trial"), Raw(Name(2, "50"), 4, 4, "open"),
          Raw(Name(2, "50"), 0, 2, "open")}

\* Rows of three levels, alike on both sides: two prices and none, a quantity of
\* one, of zero and none at all, in every order and with every repetition.
MCDepthRows ==
  {Row(Name(0, "50"), 2, 2, "open", levels, levels) :
     levels \in [1 .. 3 -> [px : {0, 2, 3}, qty : {NaN, 0, 1}]]}

\* Two rows, for the price bounds of a file with several parts.
MCFewDepthRows ==
  {Row(Name(0, "50"), e, 2, "open", bids, <<[px |-> 4, qty |-> 1]>>) :
     e \in {2, 3}, bids \in {<<>>, <<[px |-> 2, qty |-> NaN]>>, <<[px |-> 3, qty |-> 1]>>}}

Source(names, rows, most, only, scale) ==
  [symbols |-> names, status_allow |-> {"open"}, price_only_depth_qty |-> only,
   volume_scale |-> scale, rows |-> rows, most |-> most]

\* Each request with many rows in time and order; one symbol with rich depth,
\* where a price without a quantity counts for nothing or for two.
MCSources ==
  [n \in 1 .. 3 |-> Source(SetToSeq(MCRequests)[n], MCRawRows, 3, NaN, 1)]
    \o <<Source({Name(0, "50")}, MCDepthRows, 1, NaN, 2),
         Source({Name(0, "50")}, MCDepthRows, 1, 2, 1),
         Source({Name(0, "50"), Name(0, "60")}, MCFewDepthRows, 2, 1, 1),
         Source({Name(0, "50")}, MCFewDepthRows, 1, 1, -1)>>
=============================================================================
