------------------------------ MODULE DurableKV ------------------------------
(***************************************************************************)
(* What the ClawStore engine promises its callers (spec 3, 5 and          *)
(* invariant II), with no WAL, file or thread in it: a map that get reads, *)
(* and for every key the set of values a recovery may bring it back to.   *)
(*                                                                         *)
(* A write that returns Ok changes the map at once and makes its value a   *)
(* candidate.  A write that returns Err leaves the map alone, but its      *)
(* value may still come back.  Nothing else adds a candidate: making the   *)
(* log durable and crashing only decide between them.  A crash empties     *)
(* the map; open fills it from the candidates of each key.                 *)
(***************************************************************************)
EXTENDS FiniteSets

CONSTANTS Keys, Vals, NoVal

VARIABLES
  up,       \* the store is open
  store,    \* store[k]: what get(k) returns (NoVal: None)
  durable   \* durable[k]: the values k may have after a crash and reopen

Val == Vals \cup {NoVal}
absVars == <<up, store, durable>>

TypeOK ==
  /\ up \in BOOLEAN
  /\ store \in [Keys -> Val]
  /\ durable \in [Keys -> SUBSET Val]

Init ==
  /\ up = FALSE
  /\ store = [k \in Keys |-> NoVal]
  /\ durable = [k \in Keys |-> {NoVal}]

\* The candidates of k only shrink, and some remain: making the log durable
\* (sync_wal, a rotation) or a crash decides between them.
Narrowed(k) == durable'[k] # {} /\ durable'[k] \subseteq durable[k]

\* put / put_fast / delete returning Ok: what get returns from now on, and
\* a value the next recovery may produce; the same step may harden the log.
Write(k, v) ==
  /\ up /\ up' = TRUE
  /\ store' = [store EXCEPT ![k] = v]
  /\ v \in durable'[k] /\ durable'[k] \subseteq durable[k] \cup {v}
  /\ \A j \in Keys \ {k} : Narrowed(j)

\* A write that returned Err: get is unchanged, but the value may come back.
LostWrite(k, v) ==
  /\ up /\ up' = TRUE /\ store' = store
  /\ durable'[k] # {} /\ durable'[k] \subseteq durable[k] \cup {v}
  /\ \A j \in Keys \ {k} : Narrowed(j)

\* sync_wal, or a rotation ahead of a write that then fails.
Harden ==
  /\ up /\ up' = TRUE /\ store' = store
  /\ \A k \in Keys : Narrowed(k)

\* A crash, or the engine dropped.
Crash ==
  /\ up /\ up' = FALSE
  /\ store' = [k \in Keys |-> NoVal]
  /\ \A k \in Keys : Narrowed(k)

\* open: each key gets one of its candidates.
Open ==
  /\ ~up /\ up' = TRUE
  /\ \A k \in Keys : store'[k] \in durable[k]
  /\ durable' = durable

Next ==
  \/ \E k \in Keys, v \in Val : Write(k, v) \/ LostWrite(k, v)
  \/ Harden \/ Crash \/ Open

Spec == Init /\ [][Next]_absVars
=============================================================================
