------------------------------ MODULE MC_RethTx ------------------------------
EXTENDS RethTx, TLC

CONSTANTS v1, t1

\* Encoded keys of one table, in byte order.
MCKeys == {1, 2, 3}
\* One value: the properties are about which records and keys, not values.
MCVals == {v1}
MCValCells(v) == 1
\* One transaction handle, begun again after commit or abort.
MCTx == {t1}
=============================================================================
