--------------------------- MODULE MC_ClawEngine ---------------------------
EXTENDS ClawEngine, TLC

CONSTANTS k1, k2, v1, v2, vLarge, c1, c2

MCKeys    == {k1, k2}
\* One key: the trickle worker's progress on a key does not depend on others.
MCKey     == {k1}
MCClients == {c1, c2}
\* One client: the WAL mutex serialises appends anyway, so recovery needs no second one.
MCClient == {c1}
\* Two values a key can hold, each one payload cell long.
MCVals == {v1, v2}
\* One small and one larger value (two payload cells).
MCValsLarge == {v1, vLarge}

MCValCells(v) == IF v = vLarge THEN 2 ELSE 1

\* Keys, clients and equally long values are interchangeable.
MCSymmetry == Permutations(MCKeys) \cup Permutations(MCClients) \cup Permutations(MCVals)
\* With one value larger than the other only keys and clients are.
MCSymmetryLarge == Permutations(MCKeys) \cup Permutations(MCClients)
=============================================================================
