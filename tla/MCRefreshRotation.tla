-------------------------- MODULE MCRefreshRotation --------------------------
\* Small instances of RefreshRotation for TLC.
EXTENDS RefreshRotation, TLC

MCTTL == [access |-> 1, refresh |-> 2]
NoOffset == [i \in Instances |-> 0]
\* One process's clock runs a second ahead of the others and of the database.
OneAhead == [i \in Instances |-> IF i = CHOOSE j \in Instances : TRUE THEN 1 ELSE 0]
RequestSymmetry == Permutations(Requests)
=============================================================================
