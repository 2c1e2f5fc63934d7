----------------------------- MODULE MCChanspec -----------------------------
EXTENDS Chanspec

\* The ends of both bands and of lists, a legacy Japanese channel, the limit of
\* UPPER_20_SB, the frequency of channel 3, and a number of more than sixteen bits.
SomeNumbers == {0, 1, 3, 13, 14, 34, 36, 40, 44, 64, 144, 161, 222, 2422, 65572}

\* Low and high, the wrong way round, adjacent, and not in the list.
SomePairs == {<<42, 155>>, <<155, 42>>, <<42, 58>>, <<42, 99>>}
=============================================================================
