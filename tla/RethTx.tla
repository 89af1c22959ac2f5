------------------------------- MODULE RethTx -------------------------------
(***************************************************************************)
(* The reth adapter's read-write transaction and mutable cursor            *)
(* (clawstore-reth tx.rs ClawWriteTx, cursor.rs ClawCursor and            *)
(* ClawCursorMut) over the engine calls they make: put_fast, delete,       *)
(* contains_key, sync_wal and prefix_scan.                                 *)
(*                                                                         *)
(* The engine is abstracted to its index and its WAL as one sequence of    *)
(* records with a synced prefix: a durable append or sync_wal syncs all of *)
(* the current file, and a rotation syncs the old file before the first    *)
(* record of the new one, so everything before the current file is        *)
(* synced too.  A crash keeps the synced prefix and any prefix of the      *)
(* rest, and the reopened engine replays it.  The WAL's own write failures *)
(* are the ClawEngine module's concern; here only the fsync of commit can  *)
(* fail.  One table: keys are the encoded keys with the table byte         *)
(* stripped, and Nat order stands for their byte order.                    *)
(***************************************************************************)
EXTENDS WalFormat, FiniteSetsExt

CONSTANTS
  Txs,              \* handles of concurrent ClawWriteTx
  WalRotationSize,  \* WAL_ROTATION_SIZE, in cells
  MaxTx,            \* bound: transactions begun
  MaxOps,           \* bound: engine writes and cursor moves
  MaxCrashes,       \* bound: crashes
  MaxFaults         \* bound: failed commit syncs

ASSUME Keys \subseteq Nat
ASSUME WalRotationSize \in Nat \ {0}

None == 0   \* position: None (no key is 0)
ASSUME None \notin Keys

VARIABLES
  wal,      \* records appended to the WAL since it was created, in order
  wsyn,     \* length of the WAL prefix on the media
  wstart,   \* index in wal where the current WAL file begins
  ram,      \* the engine's index (one table)
  tst,      \* tst[t]: "idle" (no tx) or "open"
  tid,      \* tid[t]: serial number of t's transaction
  cur,      \* cur[t]: t's ClawCursorMut: snapshot data and position, or NoCursor
  wk,       \* ghost: the walk t's cursor is on (see Walk* below)
  owner,    \* ghost: owner[i] is the transaction that appended wal[i]
  committed,\* ghost: transactions whose commit returned Ok
  lost,     \* ghost: transactions a crash took records of
  nTx, nOps, nCrashes, nFaults

vars == <<wal, wsyn, wstart, ram, tst, tid, cur, wk, owner, committed, lost,
          nTx, nOps, nCrashes, nFaults>>

Val == Vals \cup {NoVal}
NoCursor == [data |-> EmptyIndex, pos |-> None, open |-> FALSE]
NoWalk   == [on |-> FALSE, back |-> FALSE, ranged |-> FALSE, lo |-> None, strict |-> FALSE,
             must |-> {}, seen |-> <<>>, done |-> FALSE]

TypeOK ==
  /\ wal \in Seq(Rec) /\ owner \in Seq(1..MaxTx)
  /\ Len(owner) = Len(wal)
  /\ wstart <= wsyn + 1 /\ wsyn <= Len(wal)
  /\ ram \in [Keys -> Val]
  /\ tst \in [Txs -> {"idle", "open"}] /\ tid \in [Txs -> 0..MaxTx]
  /\ cur \in [Txs -> [data : [Keys -> Val], pos : Keys \cup {None}, open : BOOLEAN]]
  /\ committed \subseteq 1..MaxTx /\ lost \subseteq 1..MaxTx

Init ==
  /\ wal = <<>> /\ wsyn = 0 /\ wstart = 1 /\ owner = <<>>
  /\ ram = EmptyIndex
  /\ tst = [t \in Txs |-> "idle"] /\ tid = [t \in Txs |-> 0]
  /\ cur = [t \in Txs |-> NoCursor] /\ wk = [t \in Txs |-> NoWalk]
  /\ committed = {} /\ lost = {}
  /\ nTx = 0 /\ nOps = 0 /\ nCrashes = 0 /\ nFaults = 0

(***************************************************************************)
(* Engine calls                                                            *)
(***************************************************************************)

\* Cells of the current WAL file (WalWriter.size).
WalSize == FoldLeft(LAMBDA n, r : n + EntryCells(r), 0, SubSeq(wal, wstart, Len(wal)))

\* Mutant: rotate() switches files without its durable_sync.
EngineAppendRotateNoSync(t, r, durable) ==
  LET rot == WalSize + EntryCells(r) > WalRotationSize
  IN  /\ wal' = Append(wal, r)
      /\ owner' = Append(owner, tid[t])
      /\ wstart' = IF rot THEN Len(wal) + 1 ELSE wstart
      /\ wsyn' = IF durable THEN Len(wal) + 1 ELSE wsyn
      /\ ram' = Apply(ram, r)

\* WalWriter::append_fast / append_durable for tx t (engine put_fast /
\* delete hold the WAL mutex, then update the index): rotate() first syncs
\* the full file when the record does not fit; a durable append then syncs
\* the file it wrote.
EngineAppend(t, r, durable) ==
  LET rot == WalSize + EntryCells(r) > WalRotationSize
  IN  /\ wal' = Append(wal, r)
      /\ owner' = Append(owner, tid[t])
      /\ wstart' = IF rot THEN Len(wal) + 1 ELSE wstart
      /\ wsyn' = IF durable THEN Len(wal) + 1 ELSE IF rot THEN Len(wal) ELSE wsyn
      /\ ram' = Apply(ram, r)

\* ClawStoreEngine::put_fast.
PutFast(t, k, v) == EngineAppend(t, PutRec(k, v), FALSE)

\* ClawStoreEngine::delete: a durable append of the tombstone.
EngineDelete(t, k) == EngineAppend(t, DelRec(k), TRUE)

\* ClawStoreEngine::contains_key.
ContainsKey(k) == ram[k] # NoVal

\* ClawStoreEngine::prefix_scan(&[table_id]) collected into the BTreeMap:
\* the entries of the table, keyed by the stripped key.
SnapshotTable == ram

EngineOp == nOps < MaxOps /\ nOps' = nOps + 1
Open(t)   == tst[t] = "open"
Moved(t)  == Open(t) /\ cur[t].open /\ EngineOp

(***************************************************************************)
(* ClawWriteTx                                                             *)
(***************************************************************************)

\* ClawDatabase::tx_mut: a new ClawWriteTx on the shared engine; nothing
\* keeps two of them apart.
TxMut(t) ==
  /\ tst[t] = "idle" /\ nTx < MaxTx
  /\ nTx' = nTx + 1 /\ tst' = [tst EXCEPT ![t] = "open"] /\ tid' = [tid EXCEPT ![t] = nTx + 1]
  /\ UNCHANGED <<wal, wsyn, wstart, ram, cur, wk, owner, committed, lost, nOps, nCrashes, nFaults>>

\* DbTxMut::put: put_fast of the prefixed key, no sync.
TxPut(t, k, v) ==
  /\ Open(t) /\ EngineOp
  /\ PutFast(t, k, v)
  /\ UNCHANGED <<tst, tid, cur, wk, committed, lost, nTx, nCrashes, nFaults>>

\* DbTxMut::delete: contains_key, then engine.delete when the key exists;
\* returns whether it existed.
TxDelete(t, k) ==
  /\ Open(t) /\ EngineOp
  /\ IF ContainsKey(k) THEN EngineDelete(t, k)
                       ELSE UNCHANGED <<wal, wsyn, wstart, ram, owner>>
  /\ UNCHANGED <<tst, tid, cur, wk, committed, lost, nTx, nCrashes, nFaults>>

\* The transaction and its cursor are dropped.
EndTx(t) ==
  /\ tst' = [tst EXCEPT ![t] = "idle"]
  /\ cur' = [cur EXCEPT ![t] = NoCursor] /\ wk' = [wk EXCEPT ![t] = NoWalk]

\* Mutant: commit returns Ok without syncing (as the read-only commit does).
CommitNoSync(t) ==
  /\ Open(t) /\ EndTx(t)
  /\ committed' = committed \cup {tid[t]}
  /\ UNCHANGED <<wal, wsyn, wstart, ram, tid, owner, lost, nTx, nOps, nCrashes, nFaults>>

\* DbTx::commit: sync_wal; Ok only when the fsync succeeded.
Commit(t) ==
  /\ Open(t) /\ EndTx(t)
  /\ \/ wsyn' = Len(wal) /\ committed' = committed \cup {tid[t]} /\ UNCHANGED nFaults
     \/ nFaults < MaxFaults /\ nFaults' = nFaults + 1 /\ UNCHANGED <<wsyn, committed>>
  /\ UNCHANGED <<wal, wstart, ram, tid, owner, lost, nTx, nOps, nCrashes>>

\* DbTx::abort: `let _ = sync_wal()`; the writes stay, nothing is rolled back.
Abort(t) ==
  /\ Open(t) /\ EndTx(t)
  /\ wsyn' \in {wsyn, Len(wal)}
  /\ UNCHANGED <<wal, wstart, ram, tid, owner, committed, lost, nTx, nOps, nCrashes, nFaults>>

\* DbTxMut::cursor_write: ClawCursorMut::new snapshots the table.
CursorWrite(t) ==
  /\ Open(t)
  /\ cur' = [cur EXCEPT ![t] = [data |-> SnapshotTable, pos |-> None, open |-> TRUE]]
  /\ wk' = [wk EXCEPT ![t] = NoWalk]
  /\ UNCHANGED <<wal, wsyn, wstart, ram, tst, tid, owner, committed, lost, nTx, nOps, nCrashes, nFaults>>

(***************************************************************************)
(* ClawCursor positioning over the BTreeMap snapshot.  Each operator gives *)
(* the key the call returns, or None (Ok(None)); the cursor moves to a     *)
(* returned key and stays where it was otherwise.                          *)
(***************************************************************************)

KeysIn(d) == {k \in Keys : d[k] # NoVal}
Least(S) == IF S = {} THEN None ELSE Min(S)
Greatest(S) == IF S = {} THEN None ELSE Max(S)

\* first / last: data.iter().next() / next_back().
FirstKey(c) == Least(KeysIn(c.data))
LastKey(c)  == Greatest(KeysIn(c.data))

\* seek_exact: data.get(key).
SeekExactKey(c, k) == IF c.data[k] # NoVal THEN k ELSE None

\* seek: data.range(key..).next(), the first entry >= key.
SeekKey(c, k) == Least({j \in KeysIn(c.data) : j >= k})

\* Mutant: next as range(pos..).nth(1), which assumes the position's entry
\* is still there.
NextKeySkipOne(c) ==
  IF c.pos = None THEN FirstKey(c)
  ELSE LET S == {j \in KeysIn(c.data) : j >= c.pos} IN Least(S \ {Least(S)})

\* next: first() without a position, else range((Excluded(pos), Unbounded)).
NextKey(c) == IF c.pos = None THEN FirstKey(c)
              ELSE Least({j \in KeysIn(c.data) : j > c.pos})

\* Mutant: prev as range(..=pos).next_back(), which returns the position's
\* own entry again.
PrevKeyInclusive(c) == IF c.pos = None THEN LastKey(c)
                       ELSE Greatest({j \in KeysIn(c.data) : j <= c.pos})

\* prev: last() without a position, else range(..pos).next_back().
PrevKey(c) == IF c.pos = None THEN LastKey(c)
              ELSE Greatest({j \in KeysIn(c.data) : j < c.pos})

\* current: data.get(pos), None without a position.
CurrentKey(c) == IF c.pos # None /\ c.data[c.pos] # NoVal THEN c.pos ELSE None

MoveTo(c, h) == IF h = None THEN c ELSE [c EXCEPT !.pos = h]

(***************************************************************************)
(* Walks.  reth's Walker (walk) yields the entry its start call returned,  *)
(* if any, and then calls next() on every step; its RangeWalker           *)
(* (walk_range) does the same but is done at once when the start call     *)
(* returned nothing; its ReverseWalker (walk_back) yields the start entry  *)
(* and then calls prev().  The ghost wk[t] follows the walk t's cursor is  *)
(* on: its direction (back), whether it is a RangeWalker (ranged), its    *)
(* start bound lo (with strict), the keys the snapshot held that the walk  *)
(* must reach when it started (must), the keys yielded so far (seen), and *)
(* whether a step has returned None (done).  A positioning call other     *)
(* than the walk's own step ends it.                                       *)
(***************************************************************************)
StartWalk(t, h, lo, strict, ranged, d) ==
  wk' = [wk EXCEPT ![t] =
          [on |-> TRUE, back |-> FALSE, ranged |-> ranged, lo |-> lo, strict |-> strict,
           must |-> {j \in KeysIn(d) : lo = None \/ j > lo \/ (~strict /\ j = lo)},
           seen |-> IF h = None THEN <<>> ELSE <<h>>, done |-> ranged /\ h = None]]

\* A reverse walk must reach every key at or below its start entry.
StartBack(t, h, d) ==
  wk' = [wk EXCEPT ![t] =
          [on |-> TRUE, back |-> TRUE, ranged |-> FALSE, lo |-> None, strict |-> FALSE,
           must |-> {j \in KeysIn(d) : h # None /\ j <= h},
           seen |-> IF h = None THEN <<>> ELSE <<h>>, done |-> FALSE]]

\* A next() (back = FALSE) or prev() (back = TRUE) call returning h.
Yield(t, h, back) ==
  wk' = [wk EXCEPT ![t] =
          IF ~@.on \/ @.done THEN @
          ELSE IF @.back # back THEN NoWalk
          ELSE IF h = None THEN [@ EXCEPT !.done = TRUE]
          ELSE [@ EXCEPT !.seen = Append(@, h)]]

EndWalk(t) == wk' = [wk EXCEPT ![t] = NoWalk]

\* A read-only cursor call: only the position and the walk change.
CursorMove(t, h, walk) ==
  /\ Moved(t)
  /\ cur' = [cur EXCEPT ![t] = MoveTo(@, h)]
  /\ walk
  /\ UNCHANGED <<wal, wsyn, wstart, ram, tst, tid, owner, committed, lost, nTx, nCrashes, nFaults>>

\* walk(None): first().
CFirst(t) == CursorMove(t, FirstKey(cur[t]), StartWalk(t, FirstKey(cur[t]), None, FALSE, FALSE, cur[t].data))

\* walk(Some(k)): seek(k).  (walk_range(k..) differs only in being done
\* at once when the seek finds nothing.)
CSeek(t, k) == CursorMove(t, SeekKey(cur[t], k), StartWalk(t, SeekKey(cur[t], k), k, FALSE, FALSE, cur[t].data))

\* walk_back(None): last().
CLast(t) == CursorMove(t, LastKey(cur[t]), StartBack(t, LastKey(cur[t]), cur[t].data))

\* walk_back(Some(k)): seek(k), the first entry >= k.
CWalkBack(t, k) == CursorMove(t, SeekKey(cur[t], k), StartBack(t, SeekKey(cur[t], k), cur[t].data))

CSeekExact(t, k) == CursorMove(t, SeekExactKey(cur[t], k), EndWalk(t))
CNext(t)        == CursorMove(t, NextKey(cur[t]), Yield(t, NextKey(cur[t]), FALSE))
CPrev(t)        == CursorMove(t, PrevKey(cur[t]), Yield(t, PrevKey(cur[t]), TRUE))

\* walk_range with an Excluded(k) start: seek(k), ignoring its result; then
\* current(): next() when it is k, else current's entry is the start.
WalkRangeExcluded(t, k) ==
  LET c1 == MoveTo(cur[t], SeekKey(cur[t], k))
      h1 == CurrentKey(c1)
      h  == IF h1 = k THEN NextKey(c1) ELSE h1
  IN  /\ Moved(t)
      /\ cur' = [cur EXCEPT ![t] = MoveTo(c1, h)]
      /\ StartWalk(t, h, k, TRUE, TRUE, cur[t].data)
      /\ UNCHANGED <<wal, wsyn, wstart, ram, tst, tid, owner, committed, lost, nTx, nCrashes, nFaults>>

(***************************************************************************)
(* ClawCursorMut writes: through to the engine, then into the snapshot.    *)
(***************************************************************************)
CursorWriteStep(t, k, v) ==
  /\ Moved(t)
  /\ PutFast(t, k, v)
  /\ cur' = [cur EXCEPT ![t].data[k] = v]
  /\ UNCHANGED <<tst, tid, wk, committed, lost, nTx, nCrashes, nFaults>>

\* upsert (and append, which calls it): write_entry (put_fast), then
\* data.insert.
Upsert(t, k, v) == CursorWriteStep(t, k, v)

\* insert: Err when the SNAPSHOT holds the key (a no-op step); otherwise as
\* upsert.
Insert(t, k, v) == cur[t].data[k] = NoVal /\ CursorWriteStep(t, k, v)

\* delete_current: engine.delete of the position's key (a durable append,
\* done even when the entry is already gone), then data.remove; the
\* position stays.  Nothing happens without a position.
DeleteCurrent(t) ==
  /\ Moved(t) /\ cur[t].pos # None
  /\ EngineDelete(t, cur[t].pos)
  /\ cur' = [cur EXCEPT ![t].data[cur[t].pos] = NoVal]
  /\ UNCHANGED <<tst, tid, wk, committed, lost, nTx, nCrashes, nFaults>>

(***************************************************************************)
(* Crash and reopen                                                        *)
(***************************************************************************)

\* Process death or power loss, then ClawDatabase::open: the WAL keeps its
\* synced prefix and any prefix of the rest and is replayed; every
\* transaction and cursor is gone.
Crash ==
  /\ nCrashes < MaxCrashes /\ nCrashes' = nCrashes + 1
  /\ \E keep \in wsyn..Len(wal) :
       /\ wal' = SubSeq(wal, 1, keep) /\ owner' = SubSeq(owner, 1, keep)
       /\ wsyn' = keep
       /\ lost' = lost \cup {owner[i] : i \in keep + 1..Len(wal)}
  /\ ram' = Replay(EmptyIndex, wal')
  /\ tst' = [t \in Txs |-> "idle"]
  /\ cur' = [t \in Txs |-> NoCursor] /\ wk' = [t \in Txs |-> NoWalk]
  /\ UNCHANGED <<wstart, tid, committed, nTx, nOps, nFaults>>

Next ==
  \/ \E t \in Txs :
       \/ TxMut(t) \/ Commit(t) \/ Abort(t) \/ CursorWrite(t)
       \/ CFirst(t) \/ CLast(t) \/ CNext(t) \/ CPrev(t) \/ DeleteCurrent(t)
       \/ \E k \in Keys :
            \/ TxDelete(t, k) \/ CSeek(t, k) \/ CSeekExact(t, k) \/ CWalkBack(t, k)
            \/ WalkRangeExcluded(t, k)
            \/ \E v \in Vals : TxPut(t, k, v) \/ Upsert(t, k, v) \/ Insert(t, k, v)
  \/ Crash

Spec == Init /\ [][Next]_vars
(***************************************************************************)
(* Properties                                                              *)
(***************************************************************************)

(***************************************************************************)
(* ClawWriteTx::commit durability: once commit has returned Ok (its        *)
(* sync_wal succeeded), no later crash takes any write of that             *)
(* transaction, whether it came from put, delete or a cursor write, and    *)
(* whatever other transactions, rotations and failed syncs happened.       *)
(***************************************************************************)
CommittedTxDurable == committed \cap lost = {}

(***************************************************************************)
(* Cursor walks (walk / walk_range over ClawCursorMut): the keys a forward *)
(* walk yields are strictly increasing, and once next() has returned None  *)
(* the walk has yielded every key the snapshot held in its range when it   *)
(* started, even with delete_current, upsert and insert calls in between   *)
(* (reth deletes entries while walking, e.g. when unwinding).              *)
(***************************************************************************)
ForwardWalkComplete ==
  \A t \in Txs : ~wk[t].back =>
    /\ IsSorted(wk[t].seen, LAMBDA a, b : a < b)
    /\ wk[t].on /\ wk[t].done => wk[t].must \subseteq ToSet(wk[t].seen)

(***************************************************************************)
(* The same of walk_back's ReverseWalker: the keys it yields are strictly  *)
(* decreasing, and once prev() has returned None it has yielded every key  *)
(* at or below its start entry that the snapshot held when it started,     *)
(* with delete_current (which keeps the position on the removed key),      *)
(* upsert and insert in between.                                           *)
(***************************************************************************)
ReverseWalkComplete ==
  \A t \in Txs : wk[t].back =>
    /\ IsSorted(wk[t].seen, LAMBDA a, b : a > b)
    /\ wk[t].done => wk[t].must \subseteq ToSet(wk[t].seen)

(***************************************************************************)
(* A walk from a start key yields only keys of its range: reth promises    *)
(* that walk(Some(k)) starts "at the entry greater than or equal to" k and *)
(* walk_range(Excluded(k)..) at the first entry above k.  Every key a      *)
(* forward walk with a start bound yields is >= it, and > it when the      *)
(* bound is Excluded (cursor.rs walk_range: "Seek to key, then advance if  *)
(* exact match").                                                          *)
(***************************************************************************)
WalkStaysInRange ==
  \A t \in Txs : wk[t].on /\ ~wk[t].back /\ wk[t].lo # None =>
    \A i \in DOMAIN wk[t].seen :
      wk[t].seen[i] > wk[t].lo \/ (~wk[t].strict /\ wk[t].seen[i] = wk[t].lo)
=============================================================================
