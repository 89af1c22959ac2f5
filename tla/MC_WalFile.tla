---------------------------- MODULE MC_WalFile -----------------------------
EXTENDS WalFile

CONSTANTS vSmall, vLarge

MCVals == {vSmall, vLarge}

\* vSmall fits in one payload cell, vLarge needs two.
MCValCells(v) == IF v = vLarge THEN 2 ELSE 1
=============================================================================
