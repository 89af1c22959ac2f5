# TLA+ models of ClawStore (clawstore-core and its reth adapter)

These modules model the storage engine in `src/crates/clawstore-core` and check it with TLC.
The engine keeps a key-value index in RAM. It writes every mutation first to a write-ahead log (WAL),
and a background trickle thread mirrors changed keys into data files.
The reth adapter in `src/crates/clawstore-reth` puts reth's table, transaction and cursor API on top of the engine.

## The system and how its parts interact

| Part | Source | What it does |
|---|---|---|
| Record codec | `format.rs` | `serialize_entry` encodes a record: a 32-byte `ChunkHeader` (magic, payload length, CRC32C, kind) followed by a payload (key length, value length, op, pad, key, value). `deserialize_entry` checks the magic, then the length, then the CRC. |
| durable_sync | `platform_durability.rs` | Runs fdatasync, F_FULLFSYNC or FlushFileBuffers on the file. |
| WAL writer / reader | `wal.rs` | `append_durable` does write_all, then durable_sync, then advances `size`. `append_fast` does no sync. Either one calls `rotate` (sync the old file, create file `sequence+1`) once a record would pass `WAL_ROTATION_SIZE`. `sync` syncs the current file. `WalWriter::new` opens the file with the highest sequence and takes its length as `size`. `recover_entries` replays the files in sequence order. `recover_from_file` scans a buffer: on a bad magic it resyncs on the next magic; if a record's length runs past the end of the buffer it treats the record as torn and stops; on a bad CRC it resyncs. |
| Dirty tracker | `trickle.rs` | A mutex-protected set of keys: `mark_dirty` adds a key and `take_dirty` swaps the set out. |
| Trickle flusher | `trickle.rs` | A thread that creates a `DataFileWriter` and then loops. Each loop it sleeps for the cadence (checking for shutdown), runs `flush_dirty`, and does one final flush once shutdown is seen. `flush_dirty` calls take_dirty, copies the values under the index read lock, and writes each key with no lock held, re-marking the key dirty if its write fails. |
| Data files | `datafile.rs` | Appends records with CRC and sync; handles rotation, `read_entry` and `scan_all`. |
| Compactor | `compaction.rs` | Rewrites a data file to keep the latest record per key, via a temp file and a rename. |
| Engine facade | `engine.rs` | `open` replays the WAL into a new index and then calls `WalWriter::new`. `put`, `put_fast` and `delete` each run three critical sections in turn: the WAL mutex for the append, the index write lock for the update, and the dirty mutex for mark_dirty. `sync_wal`, `start_trickle` / `stop_trickle` and `Drop` are further operations. |
| Reth adapter | `clawstore-reth/src/*.rs` | Tables are key prefixes (`table_ids.rs`). A write transaction's put is `put_fast` and its delete is `contains_key` then a durable `delete`. commit and abort both call `sync_wal`; nothing is buffered or rolled back. A cursor takes a sorted snapshot of its table (`prefix_scan` into a BTreeMap) when it is created and moves over it; its writes go through to the engine and into the snapshot. |

Client threads share the engine's three locks with the trickle thread. The trickle reads the index under
the read lock while clients write it, and it drains the dirty set that clients fill. A crash can
happen between any two steps; on the next `open`, the state left in the WAL files is all that counts.

## Modules

* **WalFormat**: pure operators for the codec and recovery.
  * A WAL file is a sequence of *cells*: one header cell per record, then `PayloadCells(r)` payload cells (one for the fixed fields and the key, plus `ValCells(v)` for a Put's value).
  * Cells are equal when their bytes are. A payload cell therefore names its record and its position, so "the CRC matches" is "the slice is exactly `Encode(rec)`".
  * `ScanWal` is `recover_from_file`'s loop, written RECURSIVE with the same four branches in the same order: end of buffer, bad magic with resync, torn record with stop, CRC failure with resync.
  * `RecoverEntries` folds the files in sequence order. `Replay` is open's insert/remove loop.
* **WalFile** (with **MC_WalFile**): one WAL file built the ways the disk can leave it.
  * `AppendRecord` appends whole records, as append_durable does. This includes appending after a partial record: the file is in append mode, a failed write_all does not stop the writer, and `WalWriter::new` reopens the highest file after a crash.
  * `Tear` leaves a strict prefix of a record, as a failed write_all or a crash during it does.
  * `Corrupt` turns a cell of a complete record into junk (media corruption; a junk header has lost its magic).
  * `DamageHeader` damages a header behind an intact magic: its length, CRC or kind now describe another record.
  * The ghost `at` holds each record's offset, and `damaged` the records hit by either kind of damage.
  * Recovery is compared with the history: it must return only complete, undamaged records, in order, and all of them up to the first header whose claimed length runs past the end of the file.
  * That bound is the code's. Spec 4.C (Failure handling) and the tests `test_corruption_recovery_skips_bad_entry` and `test_torn_write_stops_cleanly` promise more: every complete, undamaged record, with only a torn tail at the end of the file ending recovery. That stronger law fails here in three steps. A put of a two-cell value leaves only its header, then a delete is appended behind it. Recovery takes the header's claim for a torn tail and stops, so the delete is lost. A damaged length field that runs past the end does the same. The engine-level consequence is the engine_large_value finding.
* **ClawEngine** (with **MC_ClawEngine**): the engine with its WAL writer, dirty tracker and one trickle worker, under concurrent clients, I/O failures, crashes and clean closes.
  * State:
    * `walDisk`: the cells written to each WAL file.
    * `walSynced`: the length of each file that is on the media.
    * `wSeq` and `wSize`: WalWriter's `sequence` and `size`.
    * `ram`: the index. `dirty`: the dirty set.
    * Per-client `pc` and `cop`.
    * The trickle's `tState`, `tStop`, `tFinal`, `tBatch` and `tTodo`.
    * `data`: the records in the data files.
  * Actions:
    * `AppendWal` is append_durable / append_fast, with the rotation inside them, run under the WAL mutex. It has four outcomes: the rotation's sync fails; write_all fails after writing any prefix; the write succeeds but durable_sync fails; or Ok.
    * `Put`, `PutFast` and `Delete` are engine.rs's WAL step. `RamUpdate` and `MarkDirty` are its next two critical sections.
    * `SyncWal` is `sync_wal`.
    * `StartTrickle`, `StopTrickle`, `TrickleWake`, `TrickleSnapshot`, `TrickleWrite` and `TrickleEndCycle` are the worker.
    * `Crash` means every file keeps its synced prefix plus any prefix of its unsynced tail.
    * `Close` is Drop: the process lives, so every written cell stays.
    * `Open` is `open`, with `WalWriterNew` for `WalWriter::new`.
  * Ghost state for the properties:
    * `hist`: every record appended whole, with whether it was acknowledged, its file and its offset.
    * `walIdx`: the replay of the acknowledged appends since open.
    * `mustKeep`: the acknowledged records that a later successful sync made durable while they were still intact.
    * `touched`: the keys changed since open.
    * `recov`: the indexes open would build over every image a crash could leave of the WAL as it is now (`RecoverableOf`, over `CrashImages`). Only the last file can have an unsynced tail, because a rotation syncs the old file first. It is updated in the same step as every action that writes, syncs, crashes or reopens the WAL.
  * Refinement: `AbsStore` is what `get` returns (the index, with the value of a client between its WAL append and its index update laid over it). `KV == INSTANCE DurableKV WITH store <- AbsStore, durable <- ...` maps each key's candidates to its values in `recov`. `ImplementsDurableKV == KV!Spec` is checked as a PROPERTY.
* **DurableKV**: the abstract store the engine promises (spec 3, 5 and invariant II). It has no WAL, file or thread.
  * `store` is what get returns. `durable[k]` is the set of values k may have after a crash and reopen.
  * `Write` (an Ok put/put_fast/delete) sets the store and makes its value a candidate. `LostWrite` (a call that returned Err) may add its value as a candidate but leaves the store alone.
  * `Harden` (sync_wal, rotation) and `Crash` only narrow the candidates. `Open` takes one candidate for each key.
  * Candidates narrow rather than keep the store's value: a put_fast whose durable_sync failed can still be synced by a later sync_wal and become the only value recovery gives, which spec invariant II allows ("or a later one").

* **DataFormat**: the data-file record and its readers (`datafile.rs`), as pure operators in the style of WalFormat.
  * A record is a header cell (the 24-byte `DataChunkHeader`, which carries the lengths it claims), a key cell, and `ValCells(v)` value cells; a tombstone has no value cells.
  * `DReadEntry` is `read_entry`: no magic, a short read or a CRC mismatch is an error, a tombstone is `None`.
  * `DScanAll` is `scan_all`'s loop, RECURSIVE, with its branches in the code's order: bad magic resyncs with `DNextMagic` (`find_next_magic`), a record running past the end stops the scan, and a CRC mismatch skips the record *by its claimed length*.
* **DataFile** (with **MC_DataFile**): the data directory as a sequence of files and one `DataFileWriter`.
  * `WriterNew` is `DataFileWriter::new`: a fresh file with sequence max+1.
  * `WriteBytes` is `write_internal` up to `durable_sync`: the rotation (whose sync may fail), `offset = size`, and the three `write_all` calls, which may fail after any prefix. The file is in append mode, so the bytes land at its end, whatever `size` says.
  * `WriteSync` is the `durable_sync` and the `size += entry_size` that follows it only on success.
  * `Crash` keeps each file's synced cells and any prefix of the rest; `Corrupt` damages one cell.
  * Ghost state: `full` (every record written whole, with the position it landed at and the offset returned), `acked` (those whose call returned Ok) and `damaged`.
* **Compaction** (with **MC_Compaction**): `compact_directory`, `needs_compaction` and `compact_file` over the data directory, beside a `DataFileWriter`.
  * A file name `data-s` is bound to an inode (`dir[s]`); inodes hold cells (`ino`) and a synced length (`isyn`). The writer holds an append fd, i.e. an inode (`wino`), so after a rename over its file it keeps appending to the unlinked inode.
  * `WriterNew`, `Write` (write_internal with rotation, always Ok and synced: DataFile covers the writer's failures) and `WriterClose` (stop_trickle) are the writer.
  * `CStart` is compact_directory's listing (read_dir, in any order), `CCheck` is needs_compaction on the next file, `CFinish` its Ok.
  * `CWriteTemp` is compact_file's scan, last-write-wins dedup (`LastOf`), tombstone filter (`Live`), and the write and durable_sync of the `.compact` file in HashMap (any) order. `CRename` is the rename, `CDirSync` the directory sync. Each may fail, which ends compact_directory with Err.
  * `Crash` truncates unsynced inodes to any prefix and may undo each rename no directory sync has hardened yet.
  * Constant `Concurrent`: FALSE runs the compactor only while the writer is down (an offline compaction); TRUE lets them interleave.
  * Ghost `mirror`: each key's last Ok write. `DirVal(k)` is the key's value as the directory states it: its last record across the files in sequence order.
* **RethTx** (EXTENDS WalFormat): the reth adapter's write transaction and mutable cursor (`tx.rs`, `cursor.rs`, `db.rs`).
  * The engine is abstracted to its index `ram` and the WAL as one sequence `wal` with a synced prefix `wsyn` and the start of the current file `wstart`. A durable append or `sync_wal` syncs the whole current file, and a rotation syncs the old file, so "everything before `wsyn`" is exactly what a crash keeps. The WAL codec and its write failures are ClawEngine's concern; here only commit's fsync fails.
  * `EngineAppend` is `append_fast` / `append_durable` with the rotation check (`WalSize`). `TxPut`, `TxDelete` (contains_key, then a durable delete), `Commit` (sync_wal, Ok or Err), `Abort` (sync_wal, result ignored) and `CursorWrite` (a snapshot of the table) are the ClawWriteTx calls.
  * The cursor is `cur[t]`: its snapshot `data` and `position`. `FirstKey`, `LastKey`, `SeekKey`, `SeekExactKey`, `NextKey`, `PrevKey` and `CurrentKey` give the key each BTreeMap call returns, or None; the cursor moves only when a key is returned, as in the code. `WalkRangeExcluded` is walk_range's Excluded-start branch (seek, then current, then next on an exact match). `Upsert`, `Insert` (checked against the snapshot) and `DeleteCurrent` write through to the engine.
  * Ghosts: `owner` (which transaction appended each WAL record), `committed`, `lost` (transactions a crash took records of) and `wk[t]`, the walk the cursor is on. reth's Walker (`walk`) yields its start entry, if any, and then calls next() on every step, even when the start was None. Its RangeWalker (`walk_range`) is done at once when the start is None. Its ReverseWalker (`walk_back`) yields the start entry and then calls prev(). `wk` records the direction, whether the walk is a RangeWalker, its start bound, the snapshot keys it must reach (those in range for a forward walk, those at or below the start entry for a reverse one), and the keys yielded. `CFirst` and `CSeek` are walk(None) and walk(Some(k)), `CLast` and `CWalkBack` are walk_back(None) and walk_back(Some(k)), and `CNext` and `CPrev` are the walkers' steps.
  * `Crash` keeps the synced prefix and any prefix of the rest, replays it, and drops every transaction and cursor.
  * Keys are naturals so that their order is the encoded keys' byte order. One table: the table byte is stripped, as `prefix_scan` does.

## Runs

| Run | Config | Expect | What it shows |
|---|---|---|---|
| walfile_recovery | MC_WalFile.cfg | pass | `RecoveryLosesOnlyAfterOverrun`: recovery of a file returns only complete, undamaged records, in order, and loses none before the first header whose claimed length runs past the end. Damage combines: a partial record with appends behind it, junk cells, and headers with a damaged length, CRC or kind that resync skips. |
| engine_recovery | MC_ClawEngine_recovery.cfg | pass | `AckedWritesSurviveRecovery` (an action property): every reopen rebuilds each key to its last acknowledged-and-synced value, or to a later one. `MirrorCoversMutations`: every key mutated since open that is neither dirty, taken by the trickle, nor mid-put has its index value as its last data-file record. Both hold for a crash or a close after one I/O failure at any WAL write, sync, rotation or data write, with a client racing the trickle's take, snapshot and writes. `ImplementsDurableKV`: the engine refines DurableKV, so what get returns and what a reopen may return behave as the abstract store promises. `DirtyValueReachesDataFile` (liveness, under `FairSpec`): a dirty key whose value stays put while the store is open and a worker runs eventually has that value as its last data-file record. |
| datafile | MC_DataFile.cfg | pass | With one I/O failure anywhere, across rotation, one crash and one damaged cell. `AckedRecordsDurable`: every acknowledged record stays on the media and reads back where its bytes landed. `OffsetRoundTripWithoutFaults` and `ScanAllKeepsIntactWithoutFaults`: until the first failure, every acknowledged offset reads back its record (spec 8), and scan_all returns exactly each file's intact records (invariant IV). A failure breaks both; datafile_offset shows how. The fault-free states of this run are exactly the states of the run without failures, so nothing is lost by checking the two laws here. |
| datafile_offset | MC_DataFile_offset.cfg | violation | A `write_all` fails part-way; the next record is appended behind the partial bytes, but `write_internal` returns the stale `size` as its offset, so `read_entry` at that offset fails: `OffsetRoundTrip` breaks. |
| compaction_offline | MC_Compaction.cfg | pass | `LiveKeysKept`: offline compaction, one compactor I/O failure anywhere and crashes at any step never lose or revert the last written value of a live key. `CompactFileLaw` (an action property): every compact_file that returns Ok leaves exactly one record for each key whose last input record is live, with its value, and none for the others (spec 8). |
| compaction_tombstone | MC_Compaction_tombstone.cfg | violation | `put(k,v)` lands in data-1; the writer rotates and `write_tombstone(k)` lands in data-2. Compacting data-2 drops the tombstone, and the directory now says k = v: `DeletedKeysStayDeleted` fails. |
| compaction_concurrent | MC_Compaction_concurrent.cfg | violation | compact_directory compacts the writer's current file; a write between compact_file's scan and its rename goes to the inode the rename unlinks: `LiveKeysKept` fails. |
| reth_tx | MC_RethTx.cfg | pass | `CommittedTxDurable`: no crash takes a write of a transaction whose commit returned Ok, across puts, deletes, cursor writes, WAL rotation, a failed commit fsync and an aborted transaction. `ForwardWalkComplete`: a forward cursor walk yields strictly increasing keys and, once next() returns None, every key its range held in the snapshot when it started, with delete_current, upsert and insert calls in between. `ReverseWalkComplete`: the same for walk_back: keys strictly decreasing, and every key at or below the start entry once prev() returns None. |
| reth_walk_range | MC_RethTx_range.cfg | violation | `WalkStaysInRange` fails. The table holds key 1, and `first()` positions the cursor on it. `walk_range((Excluded(2), Unbounded))` seeks 2 and finds nothing, and `current()` still returns key 1, which the RangeWalker yields. The same property has a second counterexample, which TLC reports when the Excluded branch is taken out of Next. `walk(Some(2))` finds nothing, so the Walker's start is None, and its first step's next() returns key 1. |
| engine_large_value | MC_ClawEngine_large.cfg | violation | Two clients, three operations, one crash, one failure, and one value two payload cells long. (1) A put of that value fails part-way through write_all. (2) The writer then appends a later, acknowledged and synced delete behind the partial record. (3) Recovery stops at the partial record, whose claimed length runs past the end. (4) The key comes back with its older value. |
| engine_wal_order | MC_ClawEngine_order.cfg | violation | TLC's trace with one worker: c1 appends `delete(k)`, then c2 appends `put(k,v)`, and c2 updates the index before c1. The index ends without k while the WAL says `k = v`: `GetsAgreeWithWalOrder` fails. |
| engine_reopen | MC_ClawEngine_reopen.cfg | violation | `MutationReachesDataFile` (liveness, under `FairSpec`) fails. A put reaches the WAL, the engine crashes, and open replays it into the index but builds an empty dirty set. After start_trickle, the worker wakes on its cadence forever with nothing to flush, and the data files never get the value. With no restart allowed the property holds (checked with two operations and one I/O failure, about 10 thousand states). So the loss is exactly the reopen, against spec 3: "A dirty entry exists from mutation until the next successful flush cycle writes it". |

Each violation is recorded as a finding in PROJECT.json. Each property of a passing run has a mutant: a plausible bug in the code it is about, which TLC must catch. The mutants are:
* payload offsets counted from 0 in the encoder;
* `>=` in the torn-write test;
* a writer that takes sequence max+1 without creating the file;
* a failed data write that is not re-marked dirty;
* WAL files replayed in reverse order;
* a data writer that reopens the highest file instead of creating max+1;
* a data write whose size is not advanced after a good sync;
* a data write acknowledged without its sync;
* a `scan_all` that stops at the first CRC mismatch;
* a data writer that reopens the highest file (in Compaction);
* a `.compact` file renamed without its durable_sync;
* a live set that keeps tombstones;
* a WAL rotation that switches files without syncing the old one (RethTx);
* a commit that returns Ok without calling sync_wal, like the read-only commit;
* a cursor next() written as `range(pos..).nth(1)`, which skips an entry after delete_current;
* a cursor prev() written as `range(..=pos).next_back()`, which returns the position's own entry again;
* a delete whose index update skips the remove (breaks `ImplementsDurableKV`);
* a trickle worker that wakes only once shutdown is requested (breaks `DirtyValueReachesDataFile`).

### Bounds and why they are enough

* **WalFile**:
  * One key, one one-cell value and one two-cell value, so records are 2, 3 and 4 cells long (a delete, a small and a large put). `MaxRecs = 3` whole records and `MaxTorn = 1` partial one.
  * A partial record can be cut at any length and be followed by appends. Any cell of a complete record can be junked, and any header can claim any other record.
  * This reaches every branch of the scan, in sequence: a bad magic, a bad CRC (with a claim that is shorter, equal or longer but inside the file), and an overrun both at the end and in the middle.
  * A second key only renames records; with two keys the run takes almost five minutes (7.8 million states).
  * 152,197 distinct states.
* **DataFile**: two keys, a one-cell and a two-cell value, `MaxFileSize = 6` cells (a tombstone is 2 cells, a record 3 or 4, so the second or third write rotates), three writes, one crash, one damaged cell, and at most one I/O failure. This reaches a failure at each of the four places (rotation sync, each `write_all` prefix, the data sync), a crash before and after a sync, and a partial record with a later record behind it in the same file. One run of 288 thousand distinct states (about 12 s). Its fault-free part is the whole state space of the same bounds without failures (40 thousand states).
* **Compaction**: two keys, two one-cell values (symmetric), three writes, `MaxFileSize = 6` (a third record rotates), two compact_directory calls, a dead-ratio threshold of 1/2 (a file with two records of one key, or a lone tombstone, qualifies), one compactor I/O failure and two writer stops (crash or stop_trickle). Two stops are needed because an offline compaction needs the writer down, and a crash must still be possible after it. About 84 thousand distinct states.
* **Engine runs**: two keys and two one-cell values throughout, with `WalRotationSize = 6` cells, so two records fill a file and a third append rotates.
  * **engine_recovery**: one client, one key, `MaxOps = 3`, one crash or close, one I/O failure.
    * One client is enough for recovery because the WAL mutex serialises appends, so a second client adds no new WAL contents. For the mirror, the race is between a client and the trickle thread: a put that lands between the trickle's take and its snapshot, or a failed data write, and one client reaches both.
    * One key is enough because the index, the dirty set, WAL replay and the data-file mirror treat keys independently, and every property of the run is about one key at a time. The second key of the earlier version of this run only multiplied the states. Liveness cannot use symmetry, and without it two keys take more than ten minutes.
    * `MirrorCoversMutations` is about keys touched since the last open, because open builds an empty dirty set and keys recovered from the WAL are not re-flushed (the engine_reopen finding).
    * Three operations are enough for a rotation, for a failure at the rotation's sync, in write_all or at durable_sync, and for a sync_wal after a put_fast.
    * About 570 thousand distinct states, in about two and a half minutes.
  * In the violation runs, keys, clients and equally long values are symmetric (`MCSymmetry`). This is sound because the code treats them by identity only. engine_recovery has no symmetry, because it checks liveness.
* **RethTx**: keys 1, 2 and 3, one value (the properties are about which records survive and which keys a walk yields, not values), one transaction handle used for two transactions in turn, `WalRotationSize = 5` cells (a put is 3 cells, so the second put rotates), five engine writes or cursor calls, one crash, one failed commit fsync. Five calls reach a walk over two keys with a delete_current between its steps, a commit after a rotation, and a crash after a failed commit. About 1.08 million distinct states in about a minute and a half; six calls take more than five minutes. Keys are not symmetric, since the cursor depends on their order.
* **Granularity of engine_recovery**: with every value one cell long, a partial record always claims no more cells than follow it, so the tear never hides later records. The large-value run removes exactly that restriction, and then the property fails. engine_recovery therefore shows the property holds for equal-size values, and the violation run shows why it cannot hold in general.

### Fairness

Two runs check liveness under `FairSpec == Spec /\ Fairness`: engine_recovery checks `DirtyValueReachesDataFile` (passes), and engine_reopen checks `MutationReachesDataFile` (violated across a reopen). Neither uses symmetry. `Fairness` is weak fairness of:
* the trickle worker's four steps (`TrickleWake`, `TrickleSnapshot`, `TrickleWrite`, `TrickleEndCycle`). `trickle_loop` sleeps for at most the cadence and then runs `flush_dirty` with no other condition, so a running worker cannot wait forever.
* each client's `RamUpdate` and `MarkDirty`. Once a client's WAL append has returned, the rest of put is two lock acquisitions with no condition, so a thread that holds the operation will finish it.

Nothing else is fair. A client may never call again, `start_trickle` and `stop_trickle` are the caller's choice, and crashes, closes, reopens and I/O failures may or may not happen. The property is therefore conditional: it only requires the value to arrive while the store stays open, the worker stays on, and the key keeps that value. Because I/O failures are capped at one, a write that fails is retried on the next cycle and then succeeds. Without the cap, a disk that always fails would keep the key dirty forever, and no fairness in the code rules that out.

## Not modelled, and why

* **Data writes in ClawEngine** are abstracted to appending a complete record or failing; a failed write may or may not have left its bytes behind. DataFile models the byte layout, Compaction the files as named inodes.
* **needs_compaction's f64 arithmetic**: the dead ratio is compared as an exact rational; rounding at the threshold boundary is not modelled.
* **Orphan `.compact` files**: a failed or interrupted compaction leaves one; compact_directory skips names containing `.compact` and a new compaction truncates it, so it is never read and is not kept.
* **scan_all behind a failed write**: `ScanAllKeepsIntact` is checked up to the first I/O failure (`ScanAllKeepsIntactWithoutFaults`). With one failed write_all TLC finds it violated: the partial record claims its full length and scan_all skips by that length into the next, intact record. The cause is the one of the datafile_offset finding (the writer appends after a failed write), so no separate run is kept for it; the hazard is listed in PROJECT.json.
* **Two trickle workers**: `start_trickle` while one is running starts a second worker before the old handle is dropped. ClawEngine allows StartTrickle only while no worker runs. The second worker and the old one's final flush would race on the dirty set and write to two data files. The hazard is listed in PROJECT.json.
* **Directory fsync**: a WAL file created by rotation is assumed to exist after a crash.
* **Oversized-entry errors**: every key and value in the models is within the limits, so these errors cannot arise.
* **Failed create of a rotated file**: it only leaves a gap in sequence numbers, which the sorted replay ignores.
* **Configuration, error types and table ids**: they add no state. Table ids are a pure map from names to a prefix byte; RethTx models one table. The hash fallback for unknown names can give two tables one prefix (a hazard).
* **Read-only transactions and cursors**: ClawReadTx and ClawCursor only read; ClawCursor is the positioning half of ClawCursorMut, which RethTx models, and the DupSort cursors forward every call to it.
* **Concurrent write transactions**: RethTx takes a set of handles, but the run uses one; reth opens one write transaction at a time, although `tx_mut` does not enforce it (a hazard).
* **cursor insert against a stale snapshot**: insert checks the snapshot, not the engine, so a key put after the cursor was made is overwritten instead of rejected. RethTx reaches this; no property is checked for it (see the hazard).
* **Trickle statistics counters and logging**: left out.

## Plan

Order of the remaining work. New properties join the existing run whose question they refine where they can:

1. DataFile is done. A damaged length field (a header cell claiming another length), as WalFile's `DamageHeader` has it, is still to be added to DataFile's `Corrupt`.
2. Compaction is done. Still open: scan_all's loss of a record behind a partial one (DataFile) carried into compaction, i.e. the writer's failures in this module.
3. The refinement of DurableKV, the flushing liveness and the dirty-entry lifecycle across a reopen (engine_reopen) are done.
4. **Two trickle workers** in ClawEngine, for the double `start_trickle`.
5. RethTx is done, both walk directions included. Still open: two concurrent write transactions in a run of their own size.
