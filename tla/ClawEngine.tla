----------------------------- MODULE ClawEngine -----------------------------
(***************************************************************************)
(* ClawStoreEngine (engine.rs) with its WAL writer (wal.rs), dirty tracker *)
(* and trickle worker (trickle.rs), under concurrent client threads,       *)
(* I/O failures, and crashes followed by reopen.                           *)
(*                                                                         *)
(* Client threads run put / put_fast / delete in the code's three critical *)
(* sections (WAL mutex, index write lock, dirty mutex), each one atomic    *)
(* step, and sync_wal as one step.  The trickle thread runs flush_dirty as *)
(* take_dirty, the snapshot under the read lock, and one data-file write   *)
(* per key.  Each WAL file keeps the cells written to it (what a read      *)
(* sees) and the length known to be on the media (its last successful      *)
(* durable_sync); a crash keeps, per file, that length plus any prefix of  *)
(* the rest.  Data files are one sequence of complete records here: their  *)
(* byte format and torn writes are the DataFile module's concern.          *)
(***************************************************************************)
EXTENDS WalFormat, FiniteSetsExt

CONSTANTS
  Clients,          \* threads calling the engine
  WalRotationSize,  \* WAL_ROTATION_SIZE, in cells
  MaxOps,           \* bound: client operations started
  MaxRestarts,      \* bound: crashes and closes
  MaxFaults         \* bound: failed write / durable_sync / writer creation

ASSUME WalRotationSize \in Nat \ {0}
ASSUME {MaxOps, MaxRestarts, MaxFaults} \subseteq Nat

NoOp == [key |-> NoVal, op |-> "None", val |-> NoVal]

VARIABLES
  up,          \* an open ClawStoreEngine exists
  walDisk,     \* walDisk[i]: cells of WAL file with sequence i-1
  walSynced,   \* walSynced[i]: cells of file i that are on the media
  wSeq,        \* WalWriter.sequence + 1 (the file it appends to)
  wSize,       \* WalWriter.size, in cells
  ram,         \* the RwLock<HashMap> index
  dirty,       \* DirtyTracker.dirty_keys
  pc,          \* client thread: "idle", "ram" (WAL done) or "mark" (index done)
  cop,         \* the record a client is applying
  tState,      \* trickle thread: "off", "sleep", "snap", "write"
  tStop,       \* TrickleHandle.shutdown flag
  tFinal,      \* the running flush_dirty is the final one before exit
  tBatch,      \* keys taken by take_dirty, not yet snapshotted
  tTodo,       \* to_flush: <<key, value-or-NoVal>> pairs not yet written
  data,        \* records in the data files, in write order
  hist,        \* ghost: every record appended whole to the WAL, in order
  walIdx,      \* ghost: the index the Ok'd WAL appends since open replay to
  mustKeep,    \* ghost: indices of hist acknowledged and then synced
  touched,     \* ghost: keys whose index entry changed since open
  recov,       \* ghost: the indexes open would rebuild after a crash now
  nOps, nRestarts, nFaults

walVars   == <<walDisk, walSynced, wSeq, wSize>>
trkVars   == <<tState, tStop, tFinal, tBatch, tTodo>>
ghostVars == <<hist, walIdx, mustKeep, touched, recov>>
cntVars   == <<nOps, nRestarts, nFaults>>
vars == <<up, walVars, ram, dirty, pc, cop, trkVars, data, ghostVars, cntVars>>

Val == Vals \cup {NoVal}

TypeOK ==
  /\ up \in BOOLEAN
  /\ walDisk \in Seq(Seq(CellT)) /\ walSynced \in Seq(Nat)
  /\ DOMAIN walSynced = DOMAIN walDisk
  /\ up => wSeq \in DOMAIN walDisk
  /\ wSize \in Nat
  /\ ram \in [Keys -> Val]
  /\ dirty \subseteq Keys
  /\ pc \in [Clients -> {"idle", "ram", "mark"}]
  /\ cop \in [Clients -> Rec \cup {NoOp}]
  /\ tState \in {"off", "sleep", "snap", "write"}
  /\ tStop \in BOOLEAN /\ tFinal \in BOOLEAN
  /\ tBatch \subseteq Keys /\ tTodo \subseteq Keys \X Val
  /\ data \in Seq([key : Keys, val : Val])

Init ==
  /\ up = FALSE
  /\ walDisk = <<>> /\ walSynced = <<>> /\ wSeq = 0 /\ wSize = 0
  /\ ram = EmptyIndex /\ dirty = {}
  /\ pc = [c \in Clients |-> "idle"] /\ cop = [c \in Clients |-> NoOp]
  /\ tState = "off" /\ tStop = FALSE /\ tFinal = FALSE /\ tBatch = {} /\ tTodo = {}
  /\ data = <<>>
  /\ hist = <<>> /\ walIdx = EmptyIndex /\ mustKeep = {} /\ touched = {}
  /\ recov = {EmptyIndex}
  /\ nOps = 0 /\ nRestarts = 0 /\ nFaults = 0

CanFault == nFaults < MaxFaults
Fault    == nFaults' = nFaults + 1

(***************************************************************************)
(* WAL writer                                                              *)
(***************************************************************************)

\* The first n WAL files as a crash may leave them: each keeps its synced
\* cells and any prefix of the rest (as in Crash below).
RECURSIVE CrashImages(_, _, _)
CrashImages(disk, syn, n) ==
  IF n = 0 THEN {<<>>}
  ELSE {Append(img, SubSeq(disk[n], 1, m)) :
          img \in CrashImages(disk, syn, n - 1), m \in syn[n]..Len(disk[n])}

\* What recover_entries and the replay in open give for each of them; kept
\* in the ghost recov by every step that writes or syncs the WAL.
RecoverableOf(disk, syn) ==
  {Replay(EmptyIndex, RecoverEntries(img)) : img \in CrashImages(disk, syn, Len(disk))}
NoteRecoverable == recov' = RecoverableOf(walDisk', walSynced')

\* The record of hist entry h is still at its place in file cells fc.
Intact(h, fc) ==
  /\ h.at + EntryCells(h.rec) <= Len(fc)
  /\ SubSeq(fc, h.at + 1, h.at + EntryCells(h.rec)) = Encode(h.rec)

\* Entries of file f that returned Ok and are now on the media, once a
\* durable_sync of f (cells fc) succeeded.
SyncedOk(f, fc, hs) == {j \in DOMAIN hs : hs[j].ok /\ hs[j].file = f /\ Intact(hs[j], fc)}

\* WalWriter::append_durable (durable) and append_fast (~durable), with the
\* rotation inside them, run while the client holds the WAL mutex.  On Ok
\* the client goes on to the index; on Err it returns with the index
\* untouched (engine.rs put/put_fast/delete, the `?` after the append).
AppendWal(c, r, durable) ==
  LET n     == EntryCells(r)
      rot   == wSize + n > WalRotationSize
      f     == IF rot THEN wSeq + 1 ELSE wSeq
      disk0 == IF rot THEN Append(walDisk, <<>>) ELSE walDisk
      syn0  == IF rot THEN Append([walSynced EXCEPT ![wSeq] = Len(walDisk[wSeq])], 0)
                      ELSE walSynced
      keep0 == IF rot THEN mustKeep \cup SyncedOk(wSeq, walDisk[wSeq], hist) ELSE mustKeep
      size0 == IF rot THEN 0 ELSE wSize
      disk1 == [disk0 EXCEPT ![f] = @ \o Encode(r)]
      entry(ok) == [rec |-> r, ok |-> ok, file |-> f, at |-> Len(disk0[f])]
  IN
  /\ up /\ pc[c] = "idle" /\ nOps < MaxOps
  /\ nOps' = nOps + 1
  /\ \/ \* rotate(): durable_sync of the old file fails; nothing is written
        /\ rot /\ CanFault /\ Fault
        /\ UNCHANGED <<walVars, pc, cop, hist, walIdx, mustKeep>>
     \/ /\ wSeq' = f
        /\ \/ \* write_all fails part-way: some cells written, size not advanced
              /\ CanFault /\ Fault
              /\ \E p \in 0..(n - 1) : walDisk' = [disk0 EXCEPT ![f] = @ \o SubSeq(Encode(r), 1, p)]
              /\ walSynced' = syn0 /\ wSize' = size0 /\ mustKeep' = keep0
              /\ UNCHANGED <<pc, cop, hist, walIdx>>
           \/ \* written, then durable_sync fails: Err, size not advanced
              /\ durable /\ CanFault /\ Fault
              /\ walDisk' = disk1 /\ walSynced' = syn0 /\ wSize' = size0 /\ mustKeep' = keep0
              /\ hist' = Append(hist, entry(FALSE))
              /\ UNCHANGED <<pc, cop, walIdx>>
           \/ \* Ok
              /\ walDisk' = disk1 /\ wSize' = size0 + n
              /\ hist' = Append(hist, entry(TRUE))
              /\ walIdx' = Apply(walIdx, r)
              /\ IF durable
                 THEN /\ walSynced' = [syn0 EXCEPT ![f] = Len(disk1[f])]
                      /\ mustKeep' = keep0 \cup SyncedOk(f, disk1[f], hist')
                 ELSE /\ walSynced' = syn0 /\ mustKeep' = keep0
              /\ pc' = [pc EXCEPT ![c] = "ram"] /\ cop' = [cop EXCEPT ![c] = r]
              /\ UNCHANGED nFaults
  /\ NoteRecoverable
  /\ UNCHANGED <<up, ram, dirty, trkVars, data, touched, nRestarts>>

\* ClawStoreEngine::put, put_fast and delete: their WAL step.
Put(c, k, v)     == AppendWal(c, PutRec(k, v), TRUE)
PutFast(c, k, v) == AppendWal(c, PutRec(k, v), FALSE)
Delete(c, k)     == AppendWal(c, DelRec(k), TRUE)

\* ClawStoreEngine::sync_wal -> WalWriter::sync on the current file.
SyncWal(c) ==
  /\ up /\ pc[c] = "idle" /\ nOps < MaxOps
  /\ nOps' = nOps + 1
  /\ \/ /\ walSynced' = [walSynced EXCEPT ![wSeq] = Len(walDisk[wSeq])]
        /\ mustKeep' = mustKeep \cup SyncedOk(wSeq, walDisk[wSeq], hist)
        /\ UNCHANGED nFaults
     \/ CanFault /\ Fault /\ UNCHANGED <<walSynced, mustKeep>>
  /\ UNCHANGED <<up, walDisk, wSeq, wSize, ram, dirty, pc, cop, trkVars, data,
                 hist, walIdx, touched, nRestarts>>
  /\ NoteRecoverable

(***************************************************************************)
(* Index and dirty tracker                                                 *)
(***************************************************************************)

\* Mutant: delete's index step forgets the remove.
RamUpdateNoRemove(c) ==
  /\ up /\ pc[c] = "ram"
  /\ ram' = IF cop[c].op = "Delete" THEN ram ELSE Apply(ram, cop[c])
  /\ touched' = touched \cup {cop[c].key}
  /\ pc' = [pc EXCEPT ![c] = "mark"]
  /\ UNCHANGED <<up, walVars, dirty, cop, trkVars, data, hist, walIdx, mustKeep, recov, cntVars>>

\* The index write-lock section: insert (Put) or remove (Delete).
RamUpdate(c) ==
  /\ up /\ pc[c] = "ram"
  /\ ram' = Apply(ram, cop[c])
  /\ touched' = touched \cup {cop[c].key}
  /\ pc' = [pc EXCEPT ![c] = "mark"]
  /\ UNCHANGED <<up, walVars, dirty, cop, trkVars, data, hist, walIdx, mustKeep, recov, cntVars>>

\* DirtyTracker::mark_dirty, after the index update; the call returns Ok.
MarkDirty(c) ==
  /\ up /\ pc[c] = "mark"
  /\ dirty' = dirty \cup {cop[c].key}
  /\ pc' = [pc EXCEPT ![c] = "idle"] /\ cop' = [cop EXCEPT ![c] = NoOp]
  /\ UNCHANGED <<up, walVars, ram, trkVars, data, ghostVars, cntVars>>

(***************************************************************************)
(* Trickle worker                                                          *)
(***************************************************************************)

\* ClawStoreEngine::start_trickle; the worker's DataFileWriter::new may fail,
\* and then the thread returns at once.
StartTrickle ==
  /\ up /\ tState = "off"
  /\ \/ tState' = "sleep" /\ UNCHANGED nFaults
     \/ CanFault /\ Fault /\ UNCHANGED tState
  /\ UNCHANGED <<up, walVars, ram, dirty, pc, cop, tStop, tFinal, tBatch, tTodo,
                 data, ghostVars, nOps, nRestarts>>

\* ClawStoreEngine::stop_trickle: raise the shutdown flag (the caller then
\* joins the thread).
StopTrickle ==
  /\ up /\ tState # "off" /\ ~tStop
  /\ tStop' = TRUE
  /\ UNCHANGED <<up, walVars, ram, dirty, pc, cop, tState, tFinal, tBatch, tTodo,
                 data, ghostVars, cntVars>>

\* Mutant: the cadence never elapses (wake_time taken anew in every slice),
\* so the worker only wakes for the final flush.
TrickleWakeOnStopOnly ==
  /\ up /\ tState = "sleep" /\ tStop
  /\ tFinal' = tStop
  /\ dirty' = {}
  /\ IF dirty = {}
     THEN /\ tState' = "off" /\ tStop' = FALSE /\ UNCHANGED tBatch
     ELSE /\ tBatch' = dirty /\ tState' = "snap" /\ UNCHANGED tStop
  /\ UNCHANGED <<up, walVars, ram, pc, cop, tTodo, data, ghostVars, cntVars>>

\* trickle_loop wakes (cadence elapsed, or shutdown seen: the final flush)
\* and flush_dirty calls take_dirty; an empty set ends the cycle at once.
TrickleWake ==
  /\ up /\ tState = "sleep"
  /\ tFinal' = tStop
  /\ dirty' = {}
  /\ IF dirty = {}
     THEN /\ tState' = IF tStop THEN "off" ELSE "sleep"
          /\ tStop' = FALSE
          /\ UNCHANGED tBatch
     ELSE /\ tBatch' = dirty /\ tState' = "snap"
          /\ UNCHANGED tStop
  /\ UNCHANGED <<up, walVars, ram, pc, cop, tTodo, data, ghostVars, cntVars>>

\* flush_dirty: values of the taken keys copied under the index read lock.
TrickleSnapshot ==
  /\ up /\ tState = "snap"
  /\ tTodo' = {<<k, ram[k]>> : k \in tBatch}
  /\ tBatch' = {} /\ tState' = "write"
  /\ UNCHANGED <<up, walVars, ram, dirty, pc, cop, tStop, tFinal, data, ghostVars, cntVars>>

\* Mutant: a failed write is dropped instead of being marked dirty again.
TrickleWriteNoRemark ==
  /\ up /\ tState = "write"
  /\ \E p \in tTodo :
       /\ tTodo' = tTodo \ {p}
       /\ \/ data' = Append(data, [key |-> p[1], val |-> p[2]]) /\ UNCHANGED nFaults
          \/ CanFault /\ Fault /\ UNCHANGED data
  /\ UNCHANGED <<up, walVars, ram, dirty, pc, cop, tState, tStop, tFinal, tBatch, ghostVars,
                 nOps, nRestarts>>

\* flush_dirty: write_entry / write_tombstone of one pair (HashSet order is
\* arbitrary); on Err the key is marked dirty again.  A write whose bytes
\* landed but whose durable_sync failed leaves the record in the file.
TrickleWrite ==
  /\ up /\ tState = "write"
  /\ \E p \in tTodo :
       /\ tTodo' = tTodo \ {p}
       /\ \/ data' = Append(data, [key |-> p[1], val |-> p[2]])
             /\ UNCHANGED <<dirty, nFaults>>
          \/ /\ CanFault /\ Fault
             /\ dirty' = dirty \cup {p[1]}
             /\ data' \in {data, Append(data, [key |-> p[1], val |-> p[2]])}
  /\ UNCHANGED <<up, walVars, ram, pc, cop, tState, tStop, tFinal, tBatch, ghostVars,
                 nOps, nRestarts>>

\* flush_dirty returns (record_cycle); the loop sleeps again, or exits
\* after the final flush and the handle is gone.
TrickleEndCycle ==
  /\ up /\ tState = "write" /\ tTodo = {}
  /\ tState' = IF tFinal THEN "off" ELSE "sleep"
  /\ tStop' = IF tFinal THEN FALSE ELSE tStop
  /\ UNCHANGED <<up, walVars, ram, dirty, pc, cop, tFinal, tBatch, tTodo, data,
                 ghostVars, cntVars>>

(***************************************************************************)
(* Crash and open                                                          *)
(***************************************************************************)

MaxFileLen == Max({Len(walDisk[i]) : i \in DOMAIN walDisk} \cup {0})

\* Power loss or process death: every thread stops; each WAL file keeps
\* what was synced and any prefix of what was written after.
Crash ==
  /\ up /\ nRestarts < MaxRestarts
  /\ nRestarts' = nRestarts + 1
  /\ up' = FALSE
  /\ \E keep \in [DOMAIN walDisk -> 0..MaxFileLen] :
       /\ \A i \in DOMAIN walDisk : walSynced[i] <= keep[i] /\ keep[i] <= Len(walDisk[i])
       /\ walDisk' = [i \in DOMAIN walDisk |-> SubSeq(walDisk[i], 1, keep[i])]
       /\ walSynced' = keep
  /\ ram' = EmptyIndex /\ dirty' = {}
  /\ pc' = [c \in Clients |-> "idle"] /\ cop' = [c \in Clients |-> NoOp]
  /\ tState' = "off" /\ tStop' = FALSE /\ tFinal' = FALSE /\ tBatch' = {} /\ tTodo' = {}
  /\ touched' = {}
  /\ NoteRecoverable
  /\ UNCHANGED <<wSeq, wSize, data, hist, walIdx, mustKeep, nOps, nFaults>>

\* WalWriter::new: find_max_sequence (0 when there is no file), open that
\* file with create+append, and take its length as the size.
WalWriterNew ==
  IF walDisk = <<>>
  THEN walDisk' = <<<<>>>> /\ walSynced' = <<0>> /\ wSeq' = 1 /\ wSize' = 0
  ELSE /\ wSeq' = Len(walDisk) /\ wSize' = Len(walDisk[Len(walDisk)])
       /\ UNCHANGED <<walDisk, walSynced>>

\* Drop for ClawStoreEngine: stop_trickle (the final flush has run, so the
\* worker is off) and the engine goes away with no client call in progress.
\* The process lives on, so every written WAL cell stays readable.
Close ==
  /\ up /\ tState = "off" /\ \A c \in Clients : pc[c] = "idle"
  /\ nRestarts < MaxRestarts
  /\ nRestarts' = nRestarts + 1
  /\ up' = FALSE
  /\ ram' = EmptyIndex /\ dirty' = {} /\ touched' = {}
  /\ UNCHANGED <<walVars, pc, cop, trkVars, data, hist, walIdx, mustKeep, recov, nOps, nFaults>>

\* Mutant: the writer takes sequence max+1 but never creates that file.
OpenNextWithoutCreate ==
  /\ ~up
  /\ up' = TRUE
  /\ ram' = Replay(EmptyIndex, RecoverEntries(walDisk))
  /\ walIdx' = ram'
  /\ wSeq' = Len(walDisk) + 1 /\ wSize' = 0
  /\ UNCHANGED <<walDisk, walSynced, dirty, pc, cop, trkVars, data, hist, mustKeep, recov,
                 touched, cntVars>>

\* ClawStoreEngine::open: replay the WAL into a fresh index, then
\* WalWriter::new opens the file with the highest sequence (sequence 0 when
\* there is none) in append mode, its size taken from the file's length.
Open ==
  /\ ~up
  /\ up' = TRUE
  /\ ram' = Replay(EmptyIndex, RecoverEntries(walDisk))
  /\ walIdx' = ram'
  /\ WalWriterNew /\ NoteRecoverable
  /\ UNCHANGED <<dirty, pc, cop, trkVars, data, hist, mustKeep, touched, cntVars>>

Next ==
  \/ \E c \in Clients :
       \/ \E k \in Keys : \/ Delete(c, k)
                          \/ \E v \in Vals : Put(c, k, v) \/ PutFast(c, k, v)
       \/ SyncWal(c) \/ RamUpdate(c) \/ MarkDirty(c)
  \/ StartTrickle \/ StopTrickle
  \/ TrickleWake \/ TrickleSnapshot \/ TrickleWrite \/ TrickleEndCycle
  \/ Crash \/ Close \/ Open

Spec == Init /\ [][Next]_vars

(***************************************************************************)
(* Fairness.  trickle_loop is a dedicated thread that sleeps in 100 ms     *)
(* slices until the cadence has elapsed and then runs flush_dirty to the   *)
(* end, so each of its steps is weakly fair.  A client thread that has     *)
(* appended to the WAL goes on to the index and the dirty set (both locks  *)
(* are held only briefly by others).  Calls by clients, start_trickle,     *)
(* stop_trickle, crashes, drop and open are not fair: nothing forces them. *)
(***************************************************************************)
Fairness ==
  /\ WF_vars(TrickleWake) /\ WF_vars(TrickleSnapshot)
  /\ WF_vars(TrickleWrite) /\ WF_vars(TrickleEndCycle)
  /\ \A c \in Clients : WF_vars(RamUpdate(c)) /\ WF_vars(MarkDirty(c))

FairSpec == Spec /\ Fairness

(***************************************************************************)
(* Properties                                                              *)
(***************************************************************************)

\* The values key k may recover to: those of its WAL records from its last
\* acknowledged-and-synced one on (a later record may or may not have
\* reached the media), or, with no such record, any of them or absent.
AllowedAfterRecovery(k) ==
  LET ofK  == {j \in DOMAIN hist : hist[j].rec.key = k}
      kept == ofK \cap mustKeep
  IN  IF kept = {}
      THEN {NoVal} \cup {hist[j].rec.val : j \in ofK}
      ELSE {hist[j].rec.val : j \in {i \in ofK : i >= Max(kept)}}

(***************************************************************************)
(* Invariant (II) of the spec: after any crash, open rebuilds every key to *)
(* the value of its last mutation that was acknowledged and synced (by put *)
(* / delete, by sync_wal after put_fast, or by a rotation), or to a later  *)
(* one; never to an older value nor to one never written.  It is about     *)
(* WalWriter (which file it appends to after a reopen, and that it keeps   *)
(* appending after a failed write) together with recover_from_file.        *)
(***************************************************************************)
AckedWritesSurviveRecovery ==
  [][~up /\ up' => \A k \in Keys : ram'[k] \in AllowedAfterRecovery(k)]_vars

InFlight(k) == \E c \in Clients : pc[c] \in {"ram", "mark"} /\ cop[c].key = k

\* k is on its way to a data file: dirty, taken by the trickle, or mid-put.
Pending(k) ==
  \/ k \in dirty \/ k \in tBatch \/ \E p \in tTodo : p[1] = k
  \/ InFlight(k)

\* The value the data files hold last for k (NoVal: tombstone or none).
DataLatest(k) ==
  LET at == {i \in DOMAIN data : data[i].key = k}
  IN  IF at = {} THEN NoVal ELSE data[Max(at)].val

(***************************************************************************)
(* Trickle write ordering (spec 4.F): every key mutated since open that is *)
(* neither dirty, nor taken by the trickle, nor in the middle of a put or  *)
(* delete, has its current index value as the last record for it in the   *)
(* data files.  It depends on mark_dirty running after the index update,   *)
(* on take_dirty happening before the snapshot, and on failed writes being *)
(* marked dirty again.                                                     *)
(***************************************************************************)
MirrorCoversMutations ==
  up => \A k \in touched : ~Pending(k) => DataLatest(k) = ram[k]

(***************************************************************************)
(* Refinement: the engine implements DurableKV.  What get returns is the  *)
(* index with the write of a client between its WAL append and its index  *)
(* update already in it (put has its Ok once the append is done).  The    *)
(* candidates of a key are the values open would rebuild it to after a    *)
(* crash now: replay of the WAL files cut to any length a crash may leave. *)
(***************************************************************************)
AbsStore ==
  IF up
  THEN [k \in Keys |-> IF \E c \in Clients : pc[c] = "ram" /\ cop[c].key = k
                      THEN cop[CHOOSE c \in Clients : pc[c] = "ram" /\ cop[c].key = k].val
                      ELSE ram[k]]
  ELSE EmptyIndex

KV == INSTANCE DurableKV WITH store <- AbsStore,
                              durable <- [k \in Keys |-> {idx[k] : idx \in recov}]

(***************************************************************************)
(* Spec 3/5 and invariant II as one promise: every step of the engine, its *)
(* WAL writer, rotation, sync_wal, crash, drop and open is a step of       *)
(* DurableKV: a put that returns Ok is what get sees and what a crash     *)
(* right after it may recover, a failed one leaves get unchanged, and no  *)
(* rotation, sync, failed write, crash or reopen brings back a value that *)
(* a crash just before could not have produced.                           *)
(***************************************************************************)
ImplementsDurableKV == KV!Spec

(***************************************************************************)
(* Spec 4.E/4.F: a dirty entry lives until the next successful flush cycle *)
(* writes it.  While the trickle worker runs, the value the index holds    *)
(* for a dirty key reaches the data files (unless the key changes again,   *)
(* the engine goes down, or the worker exits).  It is about trickle_loop   *)
(* waking on its cadence, take_dirty / snapshot / write in flush_dirty,    *)
(* and failed writes being marked dirty for the next cycle.                *)
(***************************************************************************)
DirtyValueReachesDataFile ==
  \A k \in Keys, v \in Val :
    (up /\ tState # "off" /\ k \in dirty /\ ram[k] = v)
      ~> (~up \/ tState = "off" \/ ram[k] # v \/ DataLatest(k) = v)

(***************************************************************************)
(* Spec 3, Lifecycles: "A dirty entry exists from mutation until the next  *)
(* successful flush cycle writes it", across a close or crash and reopen.  *)
(* Whenever the index holds a value for a key that is not its last         *)
(* data-file record, a running worker eventually writes it (unless the key *)
(* changes, the engine goes down or the worker exits).  It is about open   *)
(* (engine.rs) building its DirtyTracker empty after replaying the WAL.     *)
(***************************************************************************)
MutationReachesDataFile ==
  \A k \in Keys, v \in Val :
    (up /\ tState # "off" /\ ram[k] = v /\ DataLatest(k) # v)
      ~> (~up \/ tState = "off" \/ ram[k] # v \/ DataLatest(k) = v)

(***************************************************************************)
(* Spec 5: the order of acknowledged mutations of a key is the WAL order,  *)
(* and that order is what later gets observe.  When no put or delete is in *)
(* flight, the index equals the replay of the WAL appends that returned Ok *)
(* since open.  put/delete release the WAL mutex before taking the index   *)
(* write lock.                                                             *)
(***************************************************************************)
GetsAgreeWithWalOrder ==
  (up /\ \A c \in Clients : pc[c] = "idle") => ram = walIdx
=============================================================================
