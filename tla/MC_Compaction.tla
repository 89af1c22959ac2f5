---------------------------- MODULE MC_Compaction --------------------------
EXTENDS Compaction, TLC

CONSTANTS k1, k2, v1, v2

MCKeys == {k1, k2}
MCVals == {v1, v2}
MCValCells(v) == 1

MCSymmetry == Permutations(MCKeys) \cup Permutations(MCVals)
=============================================================================
