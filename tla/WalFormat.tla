----------------------------- MODULE WalFormat -----------------------------
(***************************************************************************)
(* The WAL record codec and the recovery scan of clawstore-core, as pure   *)
(* operators (src/crates/clawstore-core/src/format.rs and wal.rs).         *)
(*                                                                         *)
(* A WAL file is a sequence of CELLS.  A record is one header cell (the    *)
(* 32-byte ChunkHeader: magic, payload length, CRC, kind) followed by its  *)
(* payload cells.  The first payload cell stands for the fixed payload     *)
(* fields and the key; a Put adds ValCells(v) cells for its value, a       *)
(* Delete adds none (it carries an empty value).  Two cells are equal iff  *)
(* their bytes are, so a payload cell names its record and its position;   *)
(* "the CRC over the slice matches" is "the slice is exactly the encoding  *)
(* of the record its header names".  Headers are written as a unit: a torn *)
(* header behaves like a header whose payload is missing (the length check *)
(* fails the same way), so it is not modelled separately.  User bytes that *)
(* happen to spell the magic "CLAW" inside a payload are not modelled:     *)
(* only header cells carry the magic.                                      *)
(***************************************************************************)
EXTENDS Naturals, Sequences, SequencesExt

CONSTANTS
  Keys,          \* key byte strings, as model values
  Vals,          \* value byte strings, as model values
  NoVal,         \* "absent": the index has no entry for the key
  ValCells(_)    \* payload cells a value occupies (its length, coarsened)

ASSUME NoVal \notin Vals
ASSUME \A v \in Vals : ValCells(v) \in Nat

\* A WalEntry (format.rs WalEntry): key, operation and value.  A Delete is
\* written with an empty value (engine.rs delete passes &[]).
Rec == [key : Keys, op : {"Put"}, val : Vals] \cup [key : Keys, op : {"Delete"}, val : {NoVal}]

PutRec(k, v) == [key |-> k, op |-> "Put", val |-> v]
DelRec(k)    == [key |-> k, op |-> "Delete", val |-> NoVal]

\* serialize_entry: payload = key_len|value_len|op|pad|key|value.
PayloadCells(r) == 1 + (IF r.op = "Put" THEN ValCells(r.val) ELSE 0)

Hdr(r)    == [t |-> "hdr", rec |-> r]
Pay(r, i) == [t |-> "pay", rec |-> r, i |-> i]

\* The cells a record's encoding may consist of.
CellT == UNION {{Hdr(r)} \cup {Pay(r, i) : i \in 1..PayloadCells(r)} : r \in Rec}

\* Mutant: payload positions counted from 0, as an off-by-one in the
\* offsets serialize_entry writes the fields at would.
EncodeFromZero(r) == <<Hdr(r)>> \o [i \in 1..PayloadCells(r) |-> Pay(r, i - 1)]

\* The bytes serialize_entry returns: header then payload.
Encode(r) == <<Hdr(r)>> \o [i \in 1..PayloadCells(r) |-> Pay(r, i)]

EntryCells(r) == 1 + PayloadCells(r)

\* The concatenation of the encodings of a sequence of records: a WAL file
\* written without faults.
EncodeAll(rs) == FlattenSeq([i \in 1..Len(rs) |-> Encode(rs[i])])

\* Cell at 0-based offset o, as the code indexes buffer[offset].
At(f, o) == f[o + 1]

\* find_next_magic(buffer, start): the first offset >= start holding a
\* magic (a header cell), or -1 when there is none.
NextMagic(f, start) ==
  LET hits == {o \in start..(Len(f) - 1) : At(f, o).t = "hdr"}
  IN  IF hits = {} THEN -1 ELSE CHOOSE o \in hits : \A p \in hits : o <= p

\* deserialize_entry on buffer[o .. o+1+len): header magic, then CRC of the
\* payload against the header.  The slice passes iff it is the encoding of
\* the record the header names.
EntryValid(f, o) ==
  LET r == At(f, o).rec
  IN  \A i \in 1..PayloadCells(r) : At(f, o + i) = Pay(r, i)

RECURSIVE ScanWal(_, _), ScanWalTornOffByOne(_, _)

\* Mutant: the torn-write test `offset + total > len` written as >=, which
\* drops a complete record that ends exactly at the end of the file.
ScanWalTornOffByOne(f, o) ==
  IF o + 1 > Len(f) THEN <<>>
  ELSE IF At(f, o).t # "hdr"
       THEN IF NextMagic(f, o + 1) = -1 THEN <<>> ELSE ScanWal(f, NextMagic(f, o + 1))
  ELSE LET total == EntryCells(At(f, o).rec) IN
       IF o + total >= Len(f) THEN <<>>
       ELSE IF EntryValid(f, o)
            THEN <<At(f, o).rec>> \o ScanWal(f, o + total)
            ELSE IF NextMagic(f, o + 1) = -1 THEN <<>>
                 ELSE ScanWal(f, NextMagic(f, o + 1))

\* WalReader::recover_from_file: the loop over one file's buffer.
ScanWal(f, o) ==
  IF o + 1 > Len(f) THEN <<>>                           \* offset + HEADER_SIZE > len
  ELSE IF At(f, o).t # "hdr"                            \* bad magic: resync
       THEN IF NextMagic(f, o + 1) = -1 THEN <<>> ELSE ScanWal(f, NextMagic(f, o + 1))
  ELSE LET total == EntryCells(At(f, o).rec) IN
       IF o + total > Len(f) THEN <<>>                  \* torn write: stop this file
       ELSE IF EntryValid(f, o)
            THEN <<At(f, o).rec>> \o ScanWal(f, o + total)
            ELSE IF NextMagic(f, o + 1) = -1 THEN <<>>  \* corrupt: resync past it
                 ELSE ScanWal(f, NextMagic(f, o + 1))

RecoverFile(f) == ScanWal(f, 0)

\* Mutant: the directory listing replayed in reverse sequence order (the
\* sort of recover_entries inverted).
RecoverEntriesReversed(files) ==
  FoldRight(LAMBDA f, acc : acc \o RecoverFile(f), files, <<>>)

\* WalReader::recover_entries: files in sequence order, entries concatenated.
RecoverEntries(files) ==
  FoldLeft(LAMBDA acc, f : acc \o RecoverFile(f), <<>>, files)

\* ClawStoreEngine::open: Put inserts, Delete removes.
Apply(idx, r) == [idx EXCEPT ![r.key] = r.val]

Replay(idx, rs) == FoldLeft(Apply, idx, rs)

EmptyIndex == [k \in Keys |-> NoVal]
=============================================================================
