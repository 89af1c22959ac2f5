---------------------------- MODULE MC_DataFile ----------------------------
EXTENDS DataFile, TLC

CONSTANTS k1, k2, v1, vLarge

MCKeys == {k1, k2}
\* One value one cell long, one two cells long.
MCVals == {v1, vLarge}
MCValCells(v) == IF v = vLarge THEN 2 ELSE 1

MCSymmetry == Permutations(MCKeys)
=============================================================================
