----------------------------- MODULE DataFile ------------------------------
(***************************************************************************)
(* DataFileWriter and DataFileReader (datafile.rs): the data directory as  *)
(* a sequence of files, one writer appending records to the newest one,    *)
(* I/O failures, crashes and media corruption.  write_internal is two      *)
(* steps: the three write_all calls (which may fail after any prefix) and  *)
(* the durable_sync with the size update, so a crash can fall between      *)
(* them.  The file is opened in append mode: bytes always land at its end, *)
(* whatever the writer's size field says.                                  *)
(***************************************************************************)
EXTENDS DataFormat

CONSTANTS
  MaxFileSize,  \* MAX_DATA_FILE_SIZE, in cells
  MaxWrites,    \* bound: write_entry / write_tombstone calls
  MaxFaults,    \* bound: failed write_all / durable_sync
  MaxCrashes,   \* bound: crashes
  MaxCorrupt    \* bound: cells damaged on the media

VARIABLES
  files,     \* files[i]: cells of data file with sequence i
  synced,    \* synced[i]: cells of file i known to be on the media
  wup,       \* a DataFileWriter exists
  wcur,      \* DataFileWriter.sequence: the file it appends to
  wsize,     \* DataFileWriter.size, in cells
  wpc,       \* "idle", or "sync" between the writes and durable_sync
  pend,      \* the write in progress: record, file, where it landed, offset returned
  full,      \* ghost: every record whose bytes were all written, in order
  acked,     \* ghost: indices of full whose write_* returned Ok
  damaged,   \* ghost: <<file, cell>> positions corrupted on the media
  nWrites, nFaults, nCrashes, nCorrupt

dvars == <<files, synced, wup, wcur, wsize, wpc, pend, full, acked, damaged,
           nWrites, nFaults, nCrashes, nCorrupt>>

Junk == [t |-> "junk"]
NoPend == [rec |-> DTombstone(CHOOSE k \in Keys : TRUE), file |-> 0, at |-> 0, off |-> 0]
Write == [rec : DRec, file : Nat, at : Nat, off : Nat]

TypeOK ==
  /\ files \in Seq(Seq(DCellT \cup {Junk})) /\ synced \in Seq(Nat)
  /\ DOMAIN synced = DOMAIN files
  /\ wup \in BOOLEAN /\ wpc \in {"idle", "sync"}
  /\ wup => wcur \in DOMAIN files
  /\ wsize \in Nat /\ pend \in Write
  /\ full \in Seq(Write) /\ acked \subseteq DOMAIN full
  /\ damaged \subseteq (DOMAIN files) \X Nat

Init ==
  /\ files = <<>> /\ synced = <<>>
  /\ wup = FALSE /\ wcur = 0 /\ wsize = 0 /\ wpc = "idle" /\ pend = NoPend
  /\ full = <<>> /\ acked = {} /\ damaged = {}
  /\ nWrites = 0 /\ nFaults = 0 /\ nCrashes = 0 /\ nCorrupt = 0

CanFail == nFaults < MaxFaults
Failed  == nFaults' = nFaults + 1

\* Mutant: the writer reopens the highest existing sequence, as
\* WalWriter::new does, instead of creating max+1.
WriterNewReopenMax ==
  /\ ~wup
  /\ wup' = TRUE
  /\ wcur' = Len(files) /\ wsize' = IF files = <<>> THEN 0 ELSE Len(files[Len(files)])
  /\ UNCHANGED <<files, synced, wpc, pend, full, acked, damaged, nWrites, nFaults, nCrashes, nCorrupt>>

\* DataFileWriter::new: sequence max+1, a fresh file, size from its length.
WriterNew ==
  /\ ~wup
  /\ wup' = TRUE
  /\ files' = Append(files, <<>>) /\ synced' = Append(synced, 0)
  /\ wcur' = Len(files) + 1 /\ wsize' = 0
  /\ UNCHANGED <<wpc, pend, full, acked, damaged, nWrites, nFaults, nCrashes, nCorrupt>>

\* write_internal up to durable_sync: rotate if size + entry > max (the
\* rotation's sync may fail), take offset = size, then write header, key
\* and value; a failing write_all leaves a prefix and returns Err.
WriteBytes(d) ==
  LET n     == DEntryCells(d)
      rot   == wsize + n > MaxFileSize
      f     == IF rot THEN Len(files) + 1 ELSE wcur
      fs0   == IF rot THEN Append(files, <<>>) ELSE files
      syn0  == IF rot THEN Append([synced EXCEPT ![wcur] = Len(files[wcur])], 0) ELSE synced
      size0 == IF rot THEN 0 ELSE wsize
  IN
  /\ wup /\ wpc = "idle" /\ nWrites < MaxWrites
  /\ nWrites' = nWrites + 1
  /\ \/ \* rotate(): durable_sync of the current file fails
        /\ rot /\ CanFail /\ Failed
        /\ UNCHANGED <<files, synced, wcur, wsize, wpc, pend, full>>
     \/ /\ wcur' = f /\ wsize' = size0 /\ synced' = syn0
        /\ \/ /\ CanFail /\ Failed
              /\ \E p \in 0..(n - 1) : files' = [fs0 EXCEPT ![f] = @ \o SubSeq(DEncode(d), 1, p)]
              /\ UNCHANGED <<wpc, pend, full>>
           \/ /\ files' = [fs0 EXCEPT ![f] = @ \o DEncode(d)]
              /\ pend' = [rec |-> d, file |-> f, at |-> Len(fs0[f]), off |-> size0]
              /\ full' = Append(full, pend')
              /\ wpc' = "sync"
              /\ UNCHANGED nFaults
  /\ UNCHANGED <<wup, acked, damaged, nCrashes, nCorrupt>>

\* Mutant: Ok is returned without the durable_sync reaching the media.
WriteSyncSkipped ==
  /\ wup /\ wpc = "sync"
  /\ wpc' = "idle" /\ pend' = NoPend
  /\ \/ /\ wsize' = wsize + DEntryCells(pend.rec)
        /\ acked' = acked \cup {Len(full)}
        /\ UNCHANGED <<synced, nFaults>>
     \/ CanFail /\ Failed /\ UNCHANGED <<synced, wsize, acked>>
  /\ UNCHANGED <<files, wup, wcur, full, damaged, nWrites, nCrashes, nCorrupt>>

\* Mutant: the size update after the sync is left out.
WriteSyncNoAdvance ==
  /\ wup /\ wpc = "sync"
  /\ wpc' = "idle" /\ pend' = NoPend
  /\ \/ /\ synced' = [synced EXCEPT ![pend.file] = Len(files[pend.file])]
        /\ acked' = acked \cup {Len(full)}
        /\ UNCHANGED nFaults
     \/ CanFail /\ Failed /\ UNCHANGED <<synced, acked>>
  /\ UNCHANGED <<files, wup, wcur, wsize, full, damaged, nWrites, nCrashes, nCorrupt>>

\* write_internal's durable_sync: Ok advances size and returns the offset;
\* Err returns with size unchanged (the bytes stay in the file).
WriteSync ==
  /\ wup /\ wpc = "sync"
  /\ wpc' = "idle" /\ pend' = NoPend
  /\ \/ /\ synced' = [synced EXCEPT ![pend.file] = Len(files[pend.file])]
        /\ wsize' = wsize + DEntryCells(pend.rec)
        /\ acked' = acked \cup {Len(full)}
        /\ UNCHANGED nFaults
     \/ CanFail /\ Failed /\ UNCHANGED <<synced, wsize, acked>>
  /\ UNCHANGED <<files, wup, wcur, full, damaged, nWrites, nCrashes, nCorrupt>>

\* Power loss: each file keeps its synced cells and any prefix of the rest.
Crash ==
  /\ wup /\ nCrashes < MaxCrashes
  /\ nCrashes' = nCrashes + 1
  /\ \E keep \in [DOMAIN files -> 0..MaxFileSize + 4] :
       /\ \A i \in DOMAIN files : synced[i] <= keep[i] /\ keep[i] <= Len(files[i])
       /\ files' = [i \in DOMAIN files |-> SubSeq(files[i], 1, keep[i])]
       /\ synced' = keep
  /\ wup' = FALSE /\ wpc' = "idle" /\ pend' = NoPend
  /\ UNCHANGED <<wcur, wsize, full, acked, damaged, nWrites, nFaults, nCorrupt>>

\* Bit rot: a cell of a file no longer reads as what was written.
Corrupt(i, c) ==
  /\ nCorrupt < MaxCorrupt
  /\ files' = [files EXCEPT ![i][c] = Junk]
  /\ damaged' = damaged \cup {<<i, c>>}
  /\ nCorrupt' = nCorrupt + 1
  /\ UNCHANGED <<synced, wup, wcur, wsize, wpc, pend, full, acked, nWrites, nFaults, nCrashes>>

Next ==
  \/ WriterNew
  \/ \E k \in Keys : \/ WriteBytes(DTombstone(k))
                     \/ \E v \in Vals : WriteBytes(DEntry(k, v))
  \/ WriteSync
  \/ Crash
  \/ \E i \in DOMAIN files : \E c \in DOMAIN files[i] : Corrupt(i, c)

Spec == Init /\ [][Next]_dvars

(***************************************************************************)
(* Properties                                                              *)
(***************************************************************************)

\* Write w's cells are all in its file, where they landed, undamaged.
Intact(w) ==
  /\ w.at + DEntryCells(w.rec) <= Len(files[w.file])
  /\ \A p \in (w.at + 1)..(w.at + DEntryCells(w.rec)) : <<w.file, p>> \notin damaged

\* What read_entry returns for the record of w.
ReadBack(w) == IF w.rec.tomb THEN <<"none">> ELSE <<"some", w.rec>>

(***************************************************************************)
(* The writer/reader round-trip law (spec 8): for any write_entry or       *)
(* write_tombstone that returned offset o, read_entry(file, o) returns its *)
(* record (None for a tombstone) while the record's bytes are intact.  It  *)
(* depends on write_internal's offset = size agreeing with where the       *)
(* append-mode write lands, across rotations, crashes and failed writes.   *)
(***************************************************************************)
OffsetRoundTrip ==
  \A j \in acked : Intact(full[j]) => DReadEntry(files[full[j].file], full[j].off) = ReadBack(full[j])

\* The records scan_all should return from file i: those written whole that
\* are still intact, in file order.
IntactRecords(i) ==
  LET ws == SelectSeq(full, LAMBDA w : w.file = i /\ Intact(w))
  IN  [j \in 1..Len(ws) |-> ws[j].rec]

(***************************************************************************)
(* scan_all (spec 4.D, invariant IV) returns every record of a data file   *)
(* that was written whole and not damaged since, in file order: torn tails *)
(* are ignored, a record whose CRC fails is dropped, and nothing else is   *)
(* lost.  Compaction rewrites a file from this scan alone.                 *)
(***************************************************************************)
ScanAllKeepsIntact ==
  \A i \in DOMAIN files : ScanAll(files[i]) = IntactRecords(i)

(***************************************************************************)
(* The two laws above as long as no write_all, sync or rotation sync has   *)
(* failed.  A failed write_all leaves a partial record that both break     *)
(* (the stale offset of write_internal, and scan_all skipping by a         *)
(* claimed length), so they are checked together with AckedRecordsDurable  *)
(* over the behaviours with one failure, up to that failure.               *)
(***************************************************************************)
OffsetRoundTripWithoutFaults == nFaults = 0 => OffsetRoundTrip

ScanAllKeepsIntactWithoutFaults == nFaults = 0 => ScanAllKeepsIntact

(***************************************************************************)
(* Every write_entry / write_tombstone that returned Ok is on the media    *)
(* and, while undamaged, read_entry finds it where its bytes landed: a     *)
(* crash at any point, a failed write_all or sync, or a rotation whose     *)
(* sync fails never loses or garbles an acknowledged record.  This is the  *)
(* durability half of spec 8 that holds even when the returned offset is   *)
(* stale (OffsetRoundTrip).                                                *)
(***************************************************************************)
AckedRecordsDurable ==
  \A j \in acked :
    LET w == full[j] IN
    /\ w.at + DEntryCells(w.rec) <= synced[w.file]
    /\ Intact(w) => DReadEntry(files[w.file], w.at) = ReadBack(w)
=============================================================================
