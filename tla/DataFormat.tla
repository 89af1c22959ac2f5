---------------------------- MODULE DataFormat -----------------------------
(***************************************************************************)
(* The data-file record and its readers (datafile.rs), as pure operators   *)
(* over cells, in the style of WalFormat.  A data record is one header     *)
(* cell (the 24-byte DataChunkHeader: magic, key_len, value_len, CRC,      *)
(* flags) followed by a key cell and ValCells(v) value cells; a tombstone  *)
(* has no value cells.  The header carries the lengths it claims, so a     *)
(* header whose length field was damaged is a header cell with another    *)
(* claim.  The CRC covers key and value: a slice passes iff its payload    *)
(* cells are those of the record its header names, and as many as that    *)
(* record has.                                                             *)
(***************************************************************************)
EXTENDS WalFormat

\* A record as DataFileWriter::write_entry / write_tombstone writes it.
DRec == [key : Keys, val : Vals, tomb : {FALSE}] \cup [key : Keys, val : {NoVal}, tomb : {TRUE}]

DEntry(k, v)   == [key |-> k, val |-> v, tomb |-> FALSE]
DTombstone(k)  == [key |-> k, val |-> NoVal, tomb |-> TRUE]

\* key cell + value cells (key_len + value_len, coarsened).
DPayloadCells(d) == 1 + (IF d.tomb THEN 0 ELSE ValCells(d.val))

DHdr(d)     == [t |-> "dhdr", rec |-> d, len |-> DPayloadCells(d)]
DPay(d, i)  == [t |-> "dpay", rec |-> d, i |-> i]

\* write_internal's three write_all calls: header, key, value.
DEncode(d) == <<DHdr(d)>> \o [i \in 1..DPayloadCells(d) |-> DPay(d, i)]

DEntryCells(d) == 1 + DPayloadCells(d)

\* Every cell a data record can consist of.
DCellT == UNION {{DHdr(d)} \cup {DPay(d, i) : i \in 1..DPayloadCells(d)} : d \in DRec}

\* datafile.rs find_next_magic(file, start, file_len).
DNextMagic(f, start) ==
  LET hits == {o \in start..(Len(f) - 1) : At(f, o).t = "dhdr"}
  IN  IF hits = {} THEN -1 ELSE CHOOSE o \in hits : \A p \in hits : o <= p

\* The CRC over key || value read with the header's claimed lengths matches.
DCrcOk(f, o) ==
  LET h == At(f, o)
  IN  /\ h.len = DPayloadCells(h.rec)
      /\ \A i \in 1..h.len : At(f, o + i) = DPay(h.rec, i)

\* DataFileReader::read_entry(file, offset): <<"some", record>>, <<"none">>
\* for a tombstone, or <<"err">> (no magic, short read, checksum mismatch).
DReadEntry(f, o) ==
  IF o + 1 > Len(f) \/ At(f, o).t # "dhdr" THEN <<"err">>
  ELSE IF o + 1 + At(f, o).len > Len(f) THEN <<"err">>
  ELSE IF ~DCrcOk(f, o) THEN <<"err">>
  ELSE IF At(f, o).rec.tomb THEN <<"none">>
  ELSE <<"some", At(f, o).rec>>

RECURSIVE DScanAll(_, _), DScanAllStopOnCrc(_, _)

\* Mutant: a CRC mismatch ends the scan, like a truncated entry.
DScanAllStopOnCrc(f, o) ==
  IF o + 1 > Len(f) THEN <<>>
  ELSE IF At(f, o).t # "dhdr"
       THEN IF DNextMagic(f, o + 1) = -1 THEN <<>> ELSE DScanAll(f, DNextMagic(f, o + 1))
  ELSE LET total == 1 + At(f, o).len IN
       IF o + total > Len(f) \/ ~DCrcOk(f, o) THEN <<>>
       ELSE <<At(f, o).rec>> \o DScanAll(f, o + total)

\* DataFileReader::scan_all: bad magic resyncs on the next magic; a record
\* running past the end stops the scan; a CRC mismatch drops the record and
\* moves on by the length its header claims.
DScanAll(f, o) ==
  IF o + 1 > Len(f) THEN <<>>                          \* offset + header > file_len
  ELSE IF At(f, o).t # "dhdr"
       THEN IF DNextMagic(f, o + 1) = -1 THEN <<>> ELSE DScanAll(f, DNextMagic(f, o + 1))
  ELSE LET total == 1 + At(f, o).len IN
       IF o + total > Len(f) THEN <<>>                 \* truncated entry
       ELSE IF DCrcOk(f, o) THEN <<At(f, o).rec>> \o DScanAll(f, o + total)
       ELSE DScanAll(f, o + total)                     \* CRC mismatch, skipping

ScanAll(f) == DScanAll(f, 0)
=============================================================================
