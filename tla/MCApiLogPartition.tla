-------------------------- MODULE MCApiLogPartition --------------------------
EXTENDS ApiLogPartition, TLC

\* 28 January 2028: three days before the February of a leap year.
LateJanuary2028 == [month |-> 2028 * 12, day |-> 28]
Early2028 == 2028 * 12 + 2
\* Maintained two months ago, with two expired partitions.
Maintained == {(2028 * 12 - 27) .. (2028 * 12 + 1) \cup {pmax}}
Symmetry == Permutations(Instances) \cup Permutations(Conns)
=============================================================================
