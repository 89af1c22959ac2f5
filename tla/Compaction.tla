----------------------------- MODULE Compaction ----------------------------
(***************************************************************************)
(* compact_directory / needs_compaction / compact_file (compaction.rs) over *)
(* the data directory, with the trickle's DataFileWriter appending to it.  *)
(* A file name data-s is bound to an inode; compact_file writes a fresh    *)
(* inode (the .compact file), syncs it and renames it over data-s, then    *)
(* syncs the directory.  The writer holds an append fd, i.e. an inode, so  *)
(* after a rename over its file it keeps appending to the unlinked inode.  *)
(* A rename is durable once a directory sync succeeds; a crash before that *)
(* leaves data-s bound to either inode.  The writer's own I/O failures are *)
(* DataFile's concern: here every write is whole and synced.              *)
(***************************************************************************)
EXTENDS DataFormat, FiniteSets

CONSTANTS
  Concurrent,      \* TRUE: compaction may run while the writer is up
  MaxFileSize,     \* MAX_DATA_FILE_SIZE, in cells
  ThresholdNum,    \* compaction_trigger_ratio = ThresholdNum / ThresholdDen
  ThresholdDen,
  MaxWrites,       \* bound: write_entry / write_tombstone calls
  MaxCompactions,  \* bound: compact_directory calls
  MaxFaults,       \* bound: failed compactor I/O calls
  MaxStops         \* bound: crashes and writer shutdowns

ASSUME Concurrent \in BOOLEAN /\ 0 < ThresholdNum /\ ThresholdNum < ThresholdDen

VARIABLES
  ino,      \* ino[n]: the cells of inode n
  isyn,     \* isyn[n]: cells of inode n on the media
  dir,      \* dir[s]: the inode named data-s
  ren,      \* renames done whose directory sync has not succeeded: [s, old]
  wup, wino, wseq, wsize,   \* DataFileWriter: up, its fd's inode, sequence, size
  cpc,      \* compactor: "idle", "check", "compact", "rename", "dirsync"
  clist,    \* the data files compact_directory has still to visit
  ccur,     \* the file compact_file works on
  ctmp,     \* the synced .compact inode
  cIn,      \* ghost: compact_file's scan of ccur
  mirror,   \* ghost: the last record written per key by an Ok write
  nWrites, nComp, nFaults, nStops

cvars == <<ino, isyn, dir, ren, wup, wino, wseq, wsize, cpc, clist, ccur, ctmp,
           cIn, mirror, nWrites, nComp, nFaults, nStops>>

TypeOK ==
  /\ ino \in Seq(Seq(DCellT)) /\ isyn \in Seq(Nat) /\ DOMAIN isyn = DOMAIN ino
  /\ dir \in Seq(DOMAIN ino)
  /\ ren \subseteq [s : DOMAIN dir, old : DOMAIN ino]
  /\ wup \in BOOLEAN
  /\ wup => wseq \in DOMAIN dir /\ wino \in DOMAIN ino
  /\ cpc \in {"idle", "check", "compact", "rename", "dirsync"}
  /\ clist \in Seq(DOMAIN dir) /\ cIn \in Seq(DRec)
  /\ mirror \in [Keys -> DRec \cup {NoVal}]

Init ==
  /\ ino = <<>> /\ isyn = <<>> /\ dir = <<>> /\ ren = {}
  /\ wup = FALSE /\ wino = 0 /\ wseq = 0 /\ wsize = 0
  /\ cpc = "idle" /\ clist = <<>> /\ ccur = 0 /\ ctmp = 0 /\ cIn = <<>>
  /\ mirror = [k \in Keys |-> NoVal]
  /\ nWrites = 0 /\ nComp = 0 /\ nFaults = 0 /\ nStops = 0

CanFail == nFaults < MaxFaults
Failed  == nFaults' = nFaults + 1

(***************************************************************************)
(* compact_file's dedup: latest[k] is the last record of k in R (HashMap    *)
(* insert overwrites), and the live set drops the tombstones.              *)
(***************************************************************************)
KeysOf(R) == {R[i].key : i \in DOMAIN R}

LastOf(R, k) ==
  R[CHOOSE i \in DOMAIN R : R[i].key = k /\ \A j \in DOMAIN R : R[j].key = k => j <= i]

\* Mutant: the tombstone filter is left out.
LiveWithTombstones(R) == {LastOf(R, k) : k \in KeysOf(R)}

Live(R) == {d \in {LastOf(R, k) : k \in KeysOf(R)} : ~d.tomb}

\* needs_compaction: 1 - live/total >= threshold; an empty file never does.
NeedsCompaction(R) ==
  /\ R # <<>>
  /\ (Len(R) - Cardinality(Live(R))) * ThresholdDen >= ThresholdNum * Len(R)

\* Mutant: the writer reopens the highest sequence instead of creating one.
WriterNewReopenMax ==
  /\ ~wup /\ (Concurrent \/ cpc = "idle")
  /\ wup' = TRUE /\ wseq' = Len(dir) /\ wsize' = 0
  /\ wino' = IF dir = <<>> THEN 0 ELSE dir[Len(dir)]
  /\ UNCHANGED <<ino, isyn, dir, ren, cpc, clist, ccur, ctmp, cIn, mirror, nWrites, nComp, nFaults, nStops>>

\* DataFileWriter::new: a fresh file data-(max+1), opened for append.
WriterNew ==
  /\ ~wup /\ (Concurrent \/ cpc = "idle")
  /\ ino' = Append(ino, <<>>) /\ isyn' = Append(isyn, 0)
  /\ dir' = Append(dir, Len(ino) + 1)
  /\ wup' = TRUE /\ wino' = Len(ino) + 1 /\ wseq' = Len(dir) + 1 /\ wsize' = 0
  /\ UNCHANGED <<ren, cpc, clist, ccur, ctmp, cIn, mirror, nWrites, nComp, nFaults, nStops>>

\* write_internal, Ok: rotate (a fresh data-(sequence+1)) if the record does
\* not fit, append the record to the fd's inode, durable_sync, size += n.
Write(d) ==
  LET n   == DEntryCells(d)
      rot == wsize + n > MaxFileSize
      i   == IF rot THEN Len(ino) + 1 ELSE wino
      ino0 == IF rot THEN Append(ino, <<>>) ELSE ino
      syn0 == IF rot THEN Append(isyn, 0) ELSE isyn
  IN
  /\ wup /\ nWrites < MaxWrites
  /\ nWrites' = nWrites + 1
  /\ ino' = [ino0 EXCEPT ![i] = @ \o DEncode(d)]
  /\ isyn' = [syn0 EXCEPT ![i] = Len(ino'[i])]
  /\ dir' = IF rot THEN Append(dir, i) ELSE dir
  /\ wino' = i /\ wseq' = IF rot THEN wseq + 1 ELSE wseq
  /\ wsize' = (IF rot THEN 0 ELSE wsize) + n
  /\ mirror' = [mirror EXCEPT ![d.key] = d]
  /\ UNCHANGED <<wup, ren, cpc, clist, ccur, ctmp, cIn, nComp, nFaults, nStops>>

\* compact_directory: read_dir lists the data files, in no set order.
CStart ==
  /\ cpc = "idle" /\ (Concurrent \/ ~wup) /\ nComp < MaxCompactions
  /\ nComp' = nComp + 1
  /\ \E l \in SetToSeqs(DOMAIN dir) : clist' = l
  /\ cpc' = "check"
  /\ UNCHANGED <<ino, isyn, dir, ren, wup, wino, wseq, wsize, ccur, ctmp, cIn, mirror, nWrites, nFaults, nStops>>

\* needs_compaction(file) on the next listed file: compact it, or move on.
CCheck ==
  /\ cpc = "check" /\ clist # <<>>
  /\ IF NeedsCompaction(ScanAll(ino[dir[Head(clist)]]))
     THEN cpc' = "compact" /\ ccur' = Head(clist) /\ UNCHANGED clist
     ELSE clist' = Tail(clist) /\ UNCHANGED <<cpc, ccur>>
  /\ UNCHANGED <<ino, isyn, dir, ren, wup, wino, wseq, wsize, ctmp, cIn, mirror, nWrites, nComp, nFaults, nStops>>

\* compact_directory returns Ok once every listed file is done.
CFinish ==
  /\ cpc = "check" /\ clist = <<>>
  /\ cpc' = "idle"
  /\ UNCHANGED <<ino, isyn, dir, ren, wup, wino, wseq, wsize, clist, ccur, ctmp, cIn, mirror, nWrites, nComp, nFaults, nStops>>

\* Mutant: the .compact file is renamed without its durable_sync.
CWriteTempNoSync ==
  LET R == ScanAll(ino[dir[ccur]]) IN
  /\ cpc = "compact"
  /\ \/ /\ CanFail /\ Failed /\ cpc' = "idle"
        /\ UNCHANGED <<ino, isyn, ctmp, cIn>>
     \/ /\ \E order \in SetToSeqs(Live(R)) :
             ino' = Append(ino, FlattenSeq([j \in DOMAIN order |-> DEncode(order[j])]))
        /\ isyn' = Append(isyn, 0)
        /\ ctmp' = Len(ino') /\ cIn' = R /\ cpc' = "rename"
        /\ UNCHANGED nFaults
  /\ UNCHANGED <<dir, ren, wup, wino, wseq, wsize, clist, ccur, mirror, nWrites, nComp, nStops>>

\* compact_file steps 1-3: scan, dedup, write the live records (in HashMap
\* order) to a fresh .compact inode and durable_sync it.  A failing
\* write_all or sync returns Err, which ends compact_directory; the orphan
\* .compact file is never read, so it is not kept.
CWriteTemp ==
  LET R == ScanAll(ino[dir[ccur]]) IN
  /\ cpc = "compact"
  /\ \/ /\ CanFail /\ Failed /\ cpc' = "idle"
        /\ UNCHANGED <<ino, isyn, ctmp, cIn>>
     \/ /\ \E order \in SetToSeqs(Live(R)) :
             ino' = Append(ino, FlattenSeq([j \in DOMAIN order |-> DEncode(order[j])]))
        /\ isyn' = Append(isyn, Len(ino'[Len(ino')]))
        /\ ctmp' = Len(ino') /\ cIn' = R /\ cpc' = "rename"
        /\ UNCHANGED nFaults
  /\ UNCHANGED <<dir, ren, wup, wino, wseq, wsize, clist, ccur, mirror, nWrites, nComp, nStops>>

\* compact_file step 4: fs::rename(.compact, data-s).
CRename ==
  /\ cpc = "rename"
  /\ \/ /\ dir' = [dir EXCEPT ![ccur] = ctmp]
        /\ ren' = ren \cup {[s |-> ccur, old |-> dir[ccur]]}
        /\ cpc' = "dirsync" /\ UNCHANGED nFaults
     \/ CanFail /\ Failed /\ cpc' = "idle" /\ UNCHANGED <<dir, ren>>
  /\ UNCHANGED <<ino, isyn, wup, wino, wseq, wsize, clist, ccur, ctmp, cIn, mirror, nWrites, nComp, nStops>>

\* compact_file step 5: durable_sync of the directory; Ok hardens every
\* rename done so far and compact_directory moves to the next file.
CDirSync ==
  /\ cpc = "dirsync"
  /\ \/ ren' = {} /\ cpc' = "check" /\ clist' = Tail(clist) /\ UNCHANGED nFaults
     \/ CanFail /\ Failed /\ cpc' = "idle" /\ UNCHANGED <<ren, clist>>
  /\ UNCHANGED <<ino, isyn, dir, wup, wino, wseq, wsize, ccur, ctmp, cIn, mirror, nWrites, nComp, nStops>>

\* stop_trickle: the worker ends and drops its DataFileWriter.
WriterClose ==
  /\ wup /\ nStops < MaxStops
  /\ nStops' = nStops + 1 /\ wup' = FALSE
  /\ UNCHANGED <<ino, isyn, dir, ren, wino, wseq, wsize, cpc, clist, ccur, ctmp, cIn, mirror, nWrites, nComp, nFaults>>

\* Power loss: every inode keeps its synced cells and any prefix of the
\* rest; each rename not yet hardened may be undone.
Crash ==
  /\ nStops < MaxStops /\ (wup \/ cpc # "idle" \/ ren # {})
  /\ nStops' = nStops + 1
  /\ LET unsynced == {n \in DOMAIN ino : isyn[n] < Len(ino[n])} IN
     \E keep \in [unsynced -> 0..MaxFileSize + 4], undo \in SUBSET ren :
       /\ \A n \in unsynced : isyn[n] <= keep[n] /\ keep[n] <= Len(ino[n])
       /\ ino' = [n \in DOMAIN ino |-> IF n \in unsynced THEN SubSeq(ino[n], 1, keep[n]) ELSE ino[n]]
       /\ isyn' = [n \in DOMAIN ino |-> Len(ino'[n])]
       /\ dir' = [s \in DOMAIN dir |-> IF \E u \in undo : u.s = s
                                        THEN (CHOOSE u \in undo : u.s = s).old ELSE dir[s]]
  /\ ren' = {} /\ wup' = FALSE /\ cpc' = "idle" /\ clist' = <<>>
  /\ UNCHANGED <<wino, wseq, wsize, ccur, ctmp, cIn, mirror, nWrites, nComp, nFaults>>

Next ==
  \/ WriterNew
  \/ \E k \in Keys : \/ Write(DTombstone(k))
                     \/ \E v \in Vals : Write(DEntry(k, v))
  \/ CStart \/ CCheck \/ CFinish \/ CWriteTemp \/ CRename \/ CDirSync
  \/ WriterClose
  \/ Crash

Spec == Init /\ [][Next]_cvars

(***************************************************************************)
(* Properties                                                              *)
(***************************************************************************)

\* The records of every data file, in sequence order, as scan_all reads them.
DirRecords == FlattenSeq([s \in DOMAIN dir |-> ScanAll(ino[dir[s]])])

\* A key's value as the data directory states it: its last record across
\* the files in sequence order, NoVal when that is a tombstone or absent.
DirVal(k) ==
  LET ks == SelectSeq(DirRecords, LAMBDA d : d.key = k)
  IN  IF ks = <<>> \/ Last(ks).tomb THEN NoVal ELSE Last(ks).val

\* The value of the last Ok write_entry / write_tombstone of k.
MirrorVal(k) ==
  IF mirror[k] = NoVal \/ mirror[k].tomb THEN NoVal ELSE mirror[k].val

(***************************************************************************)
(* The data directory keeps the latest written value of every live key:    *)
(* compacting a file (deduplicating it, dropping its tombstones, renaming  *)
(* the rewrite over it) and a crash at any step of compact_file, with any  *)
(* of its renames undone, never loses or reverts a key whose last write    *)
(* was write_entry.                                                        *)
(***************************************************************************)
LiveKeysKept ==
  \A k \in Keys : MirrorVal(k) # NoVal => DirVal(k) = MirrorVal(k)

(***************************************************************************)
(* A key whose last write was write_tombstone reads as absent from the     *)
(* data directory.  compact_file drops a file's tombstones, so an older    *)
(* file's record of the key is no longer shadowed.                         *)
(***************************************************************************)
DeletedKeysStayDeleted ==
  \A k \in Keys : MirrorVal(k) = NoVal => DirVal(k) = NoVal

\* Spec 8's reference: the last record of k in R, if any.
LatestRef(R, k) == Last(SelectSeq(R, LAMBDA d : d.key = k))

(***************************************************************************)
(* The compaction law of spec 8: when compact_file returns Ok for file F,  *)
(* F' holds k iff latest(F, k) is not a tombstone, exactly once, with the  *)
(* value of latest(F, k).  It checks the dedup (last write wins), the      *)
(* tombstone filter and the rewrite together.                              *)
(***************************************************************************)
CompactFileLaw ==
  [][cpc = "dirsync" /\ cpc' = "check" =>
      LET S == ScanAll(ino'[dir'[ccur]]) IN
      \A k \in Keys :
        SelectSeq(S, LAMBDA d : d.key = k) =
          IF k \in KeysOf(cIn) /\ ~LatestRef(cIn, k).tomb THEN <<LatestRef(cIn, k)>> ELSE <<>>
  ]_cvars
=============================================================================
